-------------------------- MODULE ConnectionProofs --------------------------
(* Connection for every wrap of the sequence numbers, every set of requests   *)
(* and any amount of gaze: the stream loses nothing and no request takes      *)
(* another's answer.  Then the same of the other stream, the tracking         *)
(* socket (IpcChannel), for every set of hubs and clients and any queue, and  *)
(* the commands that talk over the first (Commands), for any arguments.       *)
EXTENDS Connection, IpcChannel, Commands, SequenceTheorems, WellFoundedInduction, TLAPS

-----------------------------------------------------------------------------
(* Induction on the naturals, for a set. *)
LEMMA LessIsWellFounded ==
    \A R : R = {ss \in Nat \X Nat : ss[1] < ss[2]} => IsWellFoundedOn(R, Nat)
BY NatLessThanWellFounded, Zenon DEF OpToRel

LEMMA SetInduction ==
    ASSUME NEW S, 0 \in S, \A n \in Nat : n \in S => n + 1 \in S
    PROVE  Nat \subseteq S
<1> DEFINE T == Nat \ S
           R == {ss \in Nat \X Nat : ss[1] < ss[2]}
<1>1. SUFFICES ASSUME T # {} PROVE FALSE
  OBVIOUS
<1>2. PICK x \in T : \A y \in T : ~(<<y, x>> \in R)
  <2>1. IsWellFoundedOn(R, Nat)
    BY LessIsWellFounded
  <2>2. T \subseteq Nat
    OBVIOUS
  <2> HIDE DEF T, R
  <2> QED BY <1>1, <2>1, <2>2, WFMin, Zenon
<1>3. x # 0
  OBVIOUS
<1>4. x - 1 \in T
  BY <1>3, SMT
<1>5. <<x - 1, x>> \in R
  BY <1>3, <1>4, SMT 
<1> QED BY <1>2, <1>4, <1>5

-----------------------------------------------------------------------------
(* FlattenSeq: its function exists and is the only one, so it takes a         *)
(* concatenation of sequences to the concatenation of what they flatten to.   *)
Flattens(f, s) ==
    \A i \in 1..Len(s) : f[i] = IF i = 1 THEN s[i] ELSE f[i - 1] \o s[i]

LEMMA FlattenExists ==
    ASSUME NEW D, NEW s \in Seq(Seq(D))
    PROVE  \E f \in [1..Len(s) -> Seq(D)] : Flattens(f, s)
<1> DEFINE Upto(f, n) == \A i \in 1..n : f[i] = IF i = 1 THEN s[i] ELSE f[i - 1] \o s[i]
           P(n) == n <= Len(s) => \E f \in [1..n -> Seq(D)] : Upto(f, n)
           S == {n \in Nat : P(n)}
<1>1. P(0)
  <2>1. [i \in 1..0 |-> <<>>] \in [1..0 -> Seq(D)]
    OBVIOUS
  <2>2. Upto([i \in 1..0 |-> <<>>], 0)
    OBVIOUS
  <2> HIDE DEF Upto
  <2> QED BY <2>1, <2>2, Zenon
<1>2. ASSUME NEW n \in Nat, P(n) PROVE P(n + 1)
  <2>1. SUFFICES ASSUME n + 1 <= Len(s)
                 PROVE  \E f \in [1..(n + 1) -> Seq(D)] : Upto(f, n + 1)
    OBVIOUS
  <2>2. PICK f \in [1..n -> Seq(D)] : Upto(f, n)
    <3>1. n <= Len(s)
      BY <2>1, LenProperties
    <3> HIDE DEF Upto
    <3> QED BY <1>2, <3>1
  <2>3. s[n + 1] \in Seq(D)
    BY <2>1
  <2> DEFINE g == [i \in 1..(n + 1) |-> IF i <= n THEN f[i]
                      ELSE IF i = 1 THEN s[i] ELSE f[n] \o s[n + 1]]
  <2>4. \A i \in 1..(n + 1) : g[i] \in Seq(D)
    <3> TAKE i \in 1..(n + 1)
    <3>1. CASE i <= n
      BY <3>1
    <3>2. CASE i = n + 1 /\ i = 1
      BY <3>2, <2>3
    <3>3. CASE i = n + 1 /\ i # 1
      <4>1. f[n] \in Seq(D)
        BY <3>3
      <4> QED BY <3>3, <4>1, <2>3, ConcatProperties
    <3> QED BY <3>1, <3>2, <3>3
  <2>5. Upto(g, n + 1)
    <3> SUFFICES ASSUME NEW i \in 1..(n + 1)
                 PROVE  g[i] = IF i = 1 THEN s[i] ELSE g[i - 1] \o s[i]
      OBVIOUS
    <3>1. CASE i <= n
      <4>1. g[i] = f[i] /\ (i # 1 => g[i - 1] = f[i - 1])
        BY <3>1
      <4>2. f[i] = IF i = 1 THEN s[i] ELSE f[i - 1] \o s[i]
        <5>1. i \in 1..n
          BY <3>1
        <5> QED BY <2>2, <5>1
      <4> QED BY <4>1, <4>2
    <3>2. CASE i = n + 1
      <4>1. CASE i = 1
        BY <3>2, <4>1
      <4>2. CASE i # 1
        <5>1. n \in 1..n /\ i - 1 = n
          BY <3>2, <4>2
        <5>2. g[i] = f[n] \o s[n + 1] /\ g[n] = f[n]
          BY <3>2, <4>2, <5>1
        <5> QED BY <3>2, <4>2, <5>1, <5>2
      <4> QED BY <4>1, <4>2
    <3> QED BY <3>1, <3>2
  <2>6. g \in [1..(n + 1) -> Seq(D)]
    BY <2>4
  <2> HIDE DEF g, Upto
  <2> QED BY <2>5, <2>6
<1>3. Len(s) \in S
  <2> HIDE DEF P
  <2>1. 0 \in S /\ \A n \in Nat : n \in S => n + 1 \in S
    BY <1>1, <1>2
  <2> HIDE DEF S
  <2>2. Nat \subseteq S
    BY <2>1, SetInduction
  <2> QED BY <2>2, LenProperties
<1> QED BY <1>3 DEF Flattens

LEMMA FlattenAgree ==
    ASSUME NEW s, NEW t, NEW n \in Nat, Len(s) \in Nat, Len(t) \in Nat,
           n <= Len(s), n <= Len(t),
           \A i \in 1..n : s[i] = t[i],
           NEW f, NEW g, Flattens(f, s), Flattens(g, t)
    PROVE  \A i \in 1..n : f[i] = g[i]
<1> DEFINE S == {i \in Nat : i \in 1..n => f[i] = g[i]}
<1>1. 0 \in S
  OBVIOUS
<1>2. ASSUME NEW i \in Nat, i \in S PROVE i + 1 \in S
  <2>1. SUFFICES ASSUME i + 1 \in 1..n PROVE f[i + 1] = g[i + 1]
    OBVIOUS
  <2>2. CASE i = 0
    BY <2>1, <2>2 DEF Flattens
  <2>3. CASE i # 0
    <3>1. f[i] = g[i] /\ (i + 1) - 1 = i /\ i + 1 # 1
      BY <1>2, <2>1, <2>3
    <3>2. f[i + 1] = f[i] \o s[i + 1]
      <4>1. f[i + 1] = IF i + 1 = 1 THEN s[i + 1] ELSE f[(i + 1) - 1] \o s[i + 1]
        BY <2>1 DEF Flattens
      <4> QED BY <3>1, <4>1
    <3>3. g[i + 1] = g[i] \o t[i + 1]
      <4>1. g[i + 1] = IF i + 1 = 1 THEN t[i + 1] ELSE g[(i + 1) - 1] \o t[i + 1]
        BY <2>1 DEF Flattens
      <4> QED BY <3>1, <4>1
    <3> QED BY <3>1, <3>2, <3>3, <2>1
  <2> QED BY <2>2, <2>3
<1>3. Nat \subseteq S
  <2> HIDE DEF S
  <2> QED BY <1>1, <1>2, SetInduction
<1> QED BY <1>3

LEMMA FlattenIs ==
    ASSUME NEW D, NEW s \in Seq(Seq(D)), s # <<>>
    PROVE  \E f \in [1..Len(s) -> Seq(D)] : Flattens(f, s) /\ FlattenSeq(s) = f[Len(s)]
<1>1. PICK h \in [1..Len(s) -> Seq(D)] : Flattens(h, s)
  BY FlattenExists
<1>2. h = [i \in 1..Len(s) |-> IF i = 1 THEN s[i] ELSE h[i - 1] \o s[i]]
  BY <1>1 DEF Flattens
<1> DEFINE Is(f) == f = [i \in 1..Len(s) |-> IF i = 1 THEN s[i] ELSE f[i - 1] \o s[i]]
           f == CHOOSE f : Is(f)
<1>3. Is(f)
  <2>1. \E x : Is(x)
    BY <1>2
  <2> HIDE DEF Is
  <2> QED BY <2>1
<1>4. FlattenSeq(s) = f[Len(s)]
  <2>1. Len(s) # 0
    BY EmptySeq
  <2> QED BY <2>1 DEF FlattenSeq
<1> HIDE DEF f
<1>5. Flattens(f, s)
  BY <1>3 DEF Flattens
<1>6. f = h
  <2>1. \A i \in 1..Len(s) : f[i] = h[i]
    <3>1. Len(s) \in Nat
      BY LenProperties
    <3>2. Len(s) <= Len(s)
      BY <3>1
    <3> QED BY <3>1, <3>2, <1>1, <1>5, FlattenAgree
  <2>2. f = [i \in 1..Len(s) |-> f[i]]
    BY <1>3
  <2> QED BY <2>1, <2>2, <1>1
<1> QED BY <1>1, <1>4, <1>6

LEMMA FlattenEmpty == FlattenSeq(<<>>) = <<>>
BY DEF FlattenSeq

LEMMA FlattenType ==
    ASSUME NEW D, NEW s \in Seq(Seq(D))
    PROVE  FlattenSeq(s) \in Seq(D)
<1>1. CASE s = <<>>
  BY <1>1, FlattenEmpty, EmptySeq
<1>2. CASE s # <<>>
  <2>1. Len(s) \in 1..Len(s)
    BY <1>2, EmptySeq
  <2> QED BY <1>2, <2>1, FlattenIs, SMTT(60)
<1> QED BY <1>1, <1>2

LEMMA FlattenAppend ==
    ASSUME NEW D, NEW s \in Seq(Seq(D)), NEW x \in Seq(D)
    PROVE  FlattenSeq(Append(s, x)) = FlattenSeq(s) \o x
<1> DEFINE t == Append(s, x)
<1>1. /\ t \in Seq(Seq(D)) /\ t # <<>> /\ Len(t) = Len(s) + 1 /\ Len(s) \in Nat
      /\ \A i \in 1..Len(s) : t[i] = s[i]
      /\ t[Len(s) + 1] = x
  BY AppendProperties, LenProperties
<1> HIDE DEF t
<1>2. PICK g \in [1..Len(t) -> Seq(D)] : Flattens(g, t) /\ FlattenSeq(t) = g[Len(t)]
  BY <1>1, FlattenIs
<1>3. CASE s = <<>>
  <2>1. Len(t) = 1 /\ FlattenSeq(s) = <<>>
    BY <1>1, <1>3, FlattenEmpty
  <2>2. g[1] = x
    BY <1>1, <1>2, <1>3, <2>1 DEF Flattens
  <2> QED BY <1>2, <2>1, <2>2, ConcatEmptySeq DEF t
<1>4. CASE s # <<>>
  <2>1. PICK f \in [1..Len(s) -> Seq(D)] : Flattens(f, s) /\ FlattenSeq(s) = f[Len(s)]
    BY <1>4, FlattenIs
  <2>2. Len(s) # 0
    BY <1>4, EmptySeq
  <2>3. \A i \in 1..Len(s) : f[i] = g[i]
    <3>1. Len(t) \in Nat /\ Len(s) <= Len(t) /\ Len(s) <= Len(s) /\ \A i \in 1..Len(s) : s[i] = t[i]
      BY <1>1
    <3>2. Flattens(f, s) /\ Flattens(g, t)
      BY <1>2, <2>1
    <3>3. Len(s) \in Nat
      BY <1>1
    <3> HIDE <2>1, <1>2
    <3> QED BY <3>1, <3>2, <3>3, FlattenAgree
  <2>4. g[Len(s) + 1] = g[Len(s)] \o t[Len(s) + 1]
    <3>1. Len(s) + 1 \in 1..Len(t) /\ (Len(s) + 1) - 1 = Len(s) /\ Len(s) + 1 # 1
      BY <1>1, <2>2
    <3>2. g[Len(s) + 1] = IF Len(s) + 1 = 1 THEN t[Len(s) + 1] ELSE g[(Len(s) + 1) - 1] \o t[Len(s) + 1]
      BY <3>1, <1>2 DEF Flattens
    <3> QED BY <3>1, <3>2
  <2>5. FlattenSeq(t) = FlattenSeq(s) \o x
    <3>1. Len(s) \in 1..Len(s)
      BY <1>1, <2>2
    <3>2. g[Len(s)] = FlattenSeq(s)
      BY <3>1, <2>1, <2>3
    <3> QED BY <3>2, <2>4, <1>1, <1>2
  <2> QED BY <2>5 DEF t
<1> QED BY <1>3, <1>4

LEMMA CatAssoc ==
    ASSUME NEW D, NEW a \in Seq(D), NEW b \in Seq(D), NEW c \in Seq(D)
    PROVE  (a \o b) \o c = a \o (b \o c)
BY ConcatAssociative

LEMMA FlattenCatStep ==
    ASSUME NEW D, NEW s \in Seq(Seq(D)), NEW v \in Seq(Seq(D)), NEW x \in Seq(D),
           FlattenSeq(s \o v) = FlattenSeq(s) \o FlattenSeq(v)
    PROVE  FlattenSeq(s \o Append(v, x)) = FlattenSeq(s) \o FlattenSeq(Append(v, x))
<1>1. s \o Append(v, x) = Append(s \o v, x) /\ s \o v \in Seq(Seq(D))
  BY ConcatProperties
<1>2. /\ FlattenSeq(Append(s \o v, x)) = FlattenSeq(s \o v) \o x
      /\ FlattenSeq(Append(v, x)) = FlattenSeq(v) \o x
  BY <1>1, FlattenAppend
<1>3. PICK a \in Seq(D) : a = FlattenSeq(s)
  BY FlattenType
<1>4. PICK b \in Seq(D) : b = FlattenSeq(v)
  BY FlattenType
<1>5. (a \o b) \o x = a \o (b \o x)
  BY CatAssoc, SMTT(60)
<1> QED BY <1>1, <1>2, <1>3, <1>4, <1>5

LEMMA FlattenCat ==
    ASSUME NEW D, NEW s \in Seq(Seq(D)), NEW t \in Seq(Seq(D))
    PROVE  FlattenSeq(s \o t) = FlattenSeq(s) \o FlattenSeq(t)
<1> DEFINE P(u) == FlattenSeq(s \o u) = FlattenSeq(s) \o FlattenSeq(u)
           S == {n \in Nat : \A u \in Seq(Seq(D)) : Len(u) = n => P(u)}
<1>1. 0 \in S
  <2> SUFFICES ASSUME NEW u \in Seq(Seq(D)), Len(u) = 0
               PROVE  P(u)
    OBVIOUS
  <2>1. u = <<>>
    BY EmptySeq
  <2>2. FlattenSeq(s) \in Seq(D)
    BY FlattenType
  <2> QED BY <2>1, <2>2, FlattenEmpty, ConcatEmptySeq
<1>2. ASSUME NEW n \in Nat, n \in S PROVE n + 1 \in S
  <2> SUFFICES ASSUME NEW u \in Seq(Seq(D)), Len(u) = n + 1
               PROVE  P(u)
    OBVIOUS
  <2>1. PICK v \in Seq(Seq(D)), x \in Seq(D) : u = Append(v, x)
    <3>1. u # <<>>
      OBVIOUS
    <3> QED BY <3>1, SequenceEmptyOrAppend
  <2>2. Len(v) = n
    BY <2>1, AppendProperties, LenProperties
  <2>3. P(v)
    BY <1>2, <2>2
  <2> QED BY <2>1, <2>3, FlattenCatStep
<1>3. Nat \subseteq S
  <2> HIDE DEF S
  <2> QED BY <1>1, <1>2, SetInduction
<1> QED BY <1>3, LenProperties

-----------------------------------------------------------------------------
(* Every element mapped to a sequence, and these put end to end. *)
Mapped(g, s) == [i \in DOMAIN s |-> g[s[i]]]
FlatMap(g, s) == FlattenSeq(Mapped(g, s))
Maps(g, D, E) == \A x \in D : g[x] \in E

LEMMA MapType ==
    ASSUME NEW D, NEW E, NEW s \in Seq(D), NEW g, Maps(g, D, E)
    PROVE  /\ Mapped(g, s) \in Seq(E) /\ Len(Mapped(g, s)) = Len(s)
           /\ \A i \in 1..Len(s) : Mapped(g, s)[i] = g[s[i]]
<1> DEFINE m == Mapped(g, s)
<1>1. Len(s) \in Nat /\ DOMAIN s = 1..Len(s) /\ \A i \in 1..Len(s) : g[s[i]] \in E
  BY LenProperties DEF Maps
<1>2. m \in [1..Len(s) -> E] /\ \A i \in 1..Len(s) : m[i] = g[s[i]]
  BY <1>1 DEF Mapped
<1> HIDE DEF m
<1>3. m \in Seq(E)
  <2>1. m \in UNION {[1..n -> E] : n \in Nat}
    BY <1>1, <1>2
  <2> QED BY <2>1, SeqDef, Zenon
<1>4. Len(m) \in Nat /\ 1..Len(m) = 1..Len(s)
  BY <1>2, <1>3, LenProperties
<1>5. Len(m) = Len(s)
  BY <1>1, <1>4, SMT
<1> QED BY <1>2, <1>3, <1>5 DEF m

LEMMA MapCat ==
    ASSUME NEW D, NEW g, NEW s \in Seq(D), NEW t \in Seq(D)
    PROVE  Mapped(g, s \o t) = Mapped(g, s) \o Mapped(g, t)
<1> DEFINE u == s \o t
           E == {g[x] : x \in D}
<1> Maps(g, D, E)
  BY DEF Maps
<1> HIDE DEF E
<1>1. /\ u \in Seq(D) /\ Len(u) = Len(s) + Len(t) /\ Len(s) \in Nat /\ Len(t) \in Nat
      /\ \A i \in 1..Len(s) + Len(t) : u[i] = IF i <= Len(s) THEN s[i] ELSE t[i - Len(s)]
  BY ConcatProperties, LenProperties
<1> HIDE DEF u
<1>2. PICK a \in Seq(E) : a = Mapped(g, s) /\ Len(a) = Len(s) /\ \A i \in 1..Len(s) : a[i] = g[s[i]]
  BY MapType, SMTT(30)
<1>3. PICK b \in Seq(E) : b = Mapped(g, t) /\ Len(b) = Len(t) /\ \A i \in 1..Len(t) : b[i] = g[t[i]]
  BY MapType, SMTT(30)
<1>4. PICK c \in Seq(E) : c = Mapped(g, u) /\ Len(c) = Len(u) /\ \A i \in 1..Len(u) : c[i] = g[u[i]]
  <2>1. u \in Seq(D)
    BY <1>1
  <2> QED BY <2>1, MapType
<1>5. /\ a \o b \in Seq(E) /\ Len(a \o b) = Len(s) + Len(t)
      /\ \A i \in 1..Len(s) + Len(t) : (a \o b)[i] = IF i <= Len(s) THEN a[i] ELSE b[i - Len(s)]
  <2>1. /\ a \o b \in Seq(E) /\ Len(a \o b) = Len(a) + Len(b)
        /\ \A i \in 1..Len(a) + Len(b) : (a \o b)[i] = IF i <= Len(a) THEN a[i] ELSE b[i - Len(a)]
    BY ConcatProperties
  <2>2. Len(a) = Len(s) /\ Len(b) = Len(t)
    BY <1>2, <1>3
  <2> QED BY <2>1, <2>2
<1>6. \A i \in 1..Len(u) : c[i] = (a \o b)[i]
  <2> TAKE i \in 1..Len(u)
  <2>1. CASE i <= Len(s)
    <3>1. i \in 1..Len(s) /\ i \in 1..Len(s) + Len(t)
      BY <2>1, <1>1
    <3> QED BY <2>1, <3>1, <1>1, <1>2, <1>4, <1>5
  <2>2. CASE ~(i <= Len(s))
    <3>1. i - Len(s) \in 1..Len(t)
      BY <2>2, <1>1
    <3> QED BY <2>2, <3>1, <1>1, <1>3, <1>4, <1>5
  <2> QED BY <2>1, <2>2
<1>7. c = a \o b
  BY <1>1, <1>4, <1>5, <1>6, SeqEqual
<1> QED BY <1>2, <1>3, <1>4, <1>7 DEF u

LEMMA FlatMapType ==
    ASSUME NEW D, NEW E, NEW s \in Seq(D), NEW g, Maps(g, D, Seq(E))
    PROVE  FlatMap(g, s) \in Seq(E)
BY MapType, FlattenType DEF FlatMap

LEMMA FlatMapEmpty ==
    ASSUME NEW g
    PROVE  FlatMap(g, <<>>) = <<>>
<1>1. Mapped(g, <<>>) = <<>>
  BY DEF Mapped
<1> QED BY <1>1, FlattenEmpty DEF FlatMap

LEMMA FlatMapCat ==
    ASSUME NEW D, NEW E, NEW s \in Seq(D), NEW t \in Seq(D),
           NEW g, Maps(g, D, Seq(E))
    PROVE  FlatMap(g, s \o t) = FlatMap(g, s) \o FlatMap(g, t)
<1>1. Mapped(g, s) \in Seq(Seq(E)) /\ Mapped(g, t) \in Seq(Seq(E))
  BY MapType
<1>2. FlattenSeq(Mapped(g, s) \o Mapped(g, t)) = FlattenSeq(Mapped(g, s)) \o FlattenSeq(Mapped(g, t))
  BY <1>1, FlattenCat
<1>3. Mapped(g, s \o t) = Mapped(g, s) \o Mapped(g, t)
  BY MapCat
<1> QED BY <1>2, <1>3 DEF FlatMap

LEMMA FlatMapOne ==
    ASSUME NEW D, NEW E, NEW x \in D, NEW g, g[x] \in Seq(E)
    PROVE  FlatMap(g, <<x>>) = g[x]
<1>1. Mapped(g, <<x>>) = Append(<<>>, g[x])
  BY DEF Mapped
<1>2. g[x] \in Seq(E) /\ <<>> \in Seq(Seq(E))
  OBVIOUS
<1>3. FlattenSeq(Append(<<>>, g[x])) = FlattenSeq(<<>>) \o g[x]
  BY <1>2, FlattenAppend
<1>4. <<>> \o g[x] = g[x]
  BY <1>2, ConcatEmptySeq
<1> QED BY <1>1, <1>3, <1>4, FlattenEmpty DEF FlatMap

-----------------------------------------------------------------------------
(* What the samples of frames and the frames of transfers are, put end to end. *)
GazeOf == [f \in FrameType |-> IF IsGaze(f) THEN <<f.id>> ELSE <<>>]
ChunkOf == [t \in Transfers |-> ChunkFrames(t)]

LEMMA GazeMaps == Maps(GazeOf, FrameType, Seq(Nat))
BY DEF Maps, GazeOf, FrameType

LEMMA ChunkType ==
    ASSUME NEW t \in Transfers
    PROVE  ChunkFrames(t) \in Seq(FrameType)
<1>1. t.frames \in Seq(FrameType) /\ t.tail \in FrameType \cup {NoFrame}
  BY DEF Transfers
<1>2. CASE t.tail = NoFrame
  BY <1>1, <1>2, ConcatEmptySeq DEF ChunkFrames
<1>3. CASE t.tail # NoFrame
  <2>1. <<t.tail>> \in Seq(FrameType)
    BY <1>1, <1>3
  <2> QED BY <1>1, <1>3, <2>1, ConcatProperties DEF ChunkFrames
<1> QED BY <1>2, <1>3

LEMMA ChunkMaps == Maps(ChunkOf, Transfers, Seq(FrameType))
BY ChunkType DEF Maps, ChunkOf

LEMMA SamplesIs ==
    ASSUME NEW s \in Seq(FrameType)
    PROVE  Samples(s) = FlatMap(GazeOf, s)
<1>1. \A i \in DOMAIN s : s[i] \in FrameType
  OBVIOUS
<1>2. [i \in DOMAIN s |-> IF IsGaze(s[i]) THEN <<s[i].id>> ELSE <<>>] = Mapped(GazeOf, s)
  BY <1>1 DEF Mapped, GazeOf
<1> QED BY <1>2 DEF Samples, FlatMap

LEMMA UnpackedIs ==
    ASSUME NEW s \in Seq(Transfers)
    PROVE  Unpacked(s) = FlatMap(ChunkOf, s)
<1>1. \A i \in DOMAIN s : s[i] \in Transfers
  OBVIOUS
<1>2. [i \in DOMAIN s |-> ChunkFrames(s[i])] = Mapped(ChunkOf, s)
  BY <1>1 DEF Mapped, ChunkOf
<1> QED BY <1>2 DEF Unpacked, FlatMap

LEMMA SamplesType ==
    ASSUME NEW s \in Seq(FrameType)
    PROVE  Samples(s) \in Seq(Nat)
BY SamplesIs, GazeMaps, FlatMapType

LEMMA SamplesCat ==
    ASSUME NEW s \in Seq(FrameType), NEW t \in Seq(FrameType)
    PROVE  Samples(s \o t) = Samples(s) \o Samples(t)
<1>1. s \o t \in Seq(FrameType)
  BY ConcatProperties
<1>2. FlatMap(GazeOf, s \o t) = FlatMap(GazeOf, s) \o FlatMap(GazeOf, t)
  BY GazeMaps, FlatMapCat
<1> QED BY <1>1, <1>2, SamplesIs

LEMMA SamplesOne ==
    ASSUME NEW f \in FrameType
    PROVE  Samples(<<f>>) = IF IsGaze(f) THEN <<f.id>> ELSE <<>>
<1>1. GazeOf[f] \in Seq(Nat) /\ <<f>> \in Seq(FrameType)
  BY GazeMaps DEF Maps
<1>2. FlatMap(GazeOf, <<f>>) = GazeOf[f]
  BY <1>1, FlatMapOne
<1> QED BY <1>1, <1>2, SamplesIs DEF GazeOf

LEMMA SamplesNone == Samples(<<>>) = <<>>
BY SamplesIs, FlatMapEmpty, EmptySeq

LEMMA UnpackedType ==
    ASSUME NEW s \in Seq(Transfers)
    PROVE  Unpacked(s) \in Seq(FrameType)
BY UnpackedIs, ChunkMaps, FlatMapType

LEMMA UnpackedCat ==
    ASSUME NEW s \in Seq(Transfers), NEW t \in Seq(Transfers)
    PROVE  Unpacked(s \o t) = Unpacked(s) \o Unpacked(t)
<1>1. s \o t \in Seq(Transfers)
  BY ConcatProperties
<1>2. FlatMap(ChunkOf, s \o t) = FlatMap(ChunkOf, s) \o FlatMap(ChunkOf, t)
  BY ChunkMaps, FlatMapCat
<1> QED BY <1>1, <1>2, UnpackedIs

LEMMA UnpackedOne ==
    ASSUME NEW t \in Transfers
    PROVE  Unpacked(<<t>>) = ChunkFrames(t)
<1>1. ChunkOf[t] \in Seq(FrameType) /\ <<t>> \in Seq(Transfers)
  BY ChunkMaps DEF Maps
<1>2. FlatMap(ChunkOf, <<t>>) = ChunkOf[t]
  BY <1>1, FlatMapOne
<1> QED BY <1>1, <1>2, UnpackedIs DEF ChunkOf

LEMMA UnpackedNone == Unpacked(<<>>) = <<>>
BY UnpackedIs, FlatMapEmpty, EmptySeq

-----------------------------------------------------------------------------
(* One transfer more at the end, or one fewer at the beginning. *)
LEMMA FirstAndRest ==
    ASSUME NEW D, NEW s \in Seq(D), s # <<>>
    PROVE  s = <<Head(s)>> \o Tail(s) /\ Head(s) \in D /\ Tail(s) \in Seq(D)
OBVIOUS

LEMMA AppendIsCat ==
    ASSUME NEW D, NEW s \in Seq(D), NEW x \in D
    PROVE  Append(s, x) = s \o <<x>> /\ Append(s, x) \in Seq(D)
OBVIOUS

LEMMA UnpackedAppend ==
    ASSUME NEW s \in Seq(Transfers), NEW t \in Transfers
    PROVE  Unpacked(Append(s, t)) = Unpacked(s) \o ChunkFrames(t)
<1>1. <<t>> \in Seq(Transfers) /\ Append(s, t) = s \o <<t>>
  BY AppendIsCat
<1> QED BY <1>1, UnpackedCat, UnpackedOne

LEMMA UnpackedFirst ==
    ASSUME NEW s \in Seq(Transfers), s # <<>>
    PROVE  Unpacked(s) = ChunkFrames(Head(s)) \o Unpacked(Tail(s))
<1>1. /\ s = <<Head(s)>> \o Tail(s) /\ Head(s) \in Transfers /\ Tail(s) \in Seq(Transfers)
      /\ <<Head(s)>> \in Seq(Transfers)
  BY FirstAndRest
<1>2. Unpacked(<<Head(s)>> \o Tail(s)) = Unpacked(<<Head(s)>>) \o Unpacked(Tail(s))
  BY <1>1, UnpackedCat
<1>3. Unpacked(<<Head(s)>>) = ChunkFrames(Head(s))
  BY <1>1, UnpackedOne
<1> QED BY <1>1, <1>2, <1>3

LEMMA ChainedAppend ==
    ASSUME NEW s \in Seq(Transfers), NEW t \in Transfers, NEW a, NEW b
    PROVE  Chained(Append(s, t), a, b) <=> Chained(s, a, t.tail) /\ t.head = b
<1> DEFINE u == Append(s, t)
<1>1. /\ u \in Seq(Transfers) /\ u # <<>> /\ Len(u) = Len(s) + 1 /\ Len(s) \in Nat
      /\ \A i \in 1..Len(s) : u[i] = s[i]
      /\ u[Len(s) + 1] = t
  BY AppendProperties, LenProperties
<1> HIDE DEF u
<1>2. CASE s = <<>>
  <2>1. Len(s) = 0
    BY <1>2
  <2>2. u[1] = t /\ Len(u) = 1
    BY <1>1, <2>1
  <2> QED BY <1>1, <1>2, <2>1, <2>2 DEF Chained, u
<1>3. CASE s # <<>>
  <2>1. Len(s) >= 1 /\ u[1] = s[1] /\ u[Len(s)] = s[Len(s)]
    BY <1>1, <1>3, EmptySeq
  <2>2. ASSUME Chained(u, a, b) PROVE Chained(s, a, t.tail) /\ t.head = b
    <3>1. \A i \in 1..(Len(s) - 1) : s[i + 1].tail = s[i].head
      <4> TAKE i \in 1..(Len(s) - 1)
      <4>1. u[i + 1] = s[i + 1] /\ u[i] = s[i] /\ i \in 1..(Len(u) - 1)
        BY <1>1
      <4> QED BY <4>1, <2>2 DEF Chained
    <3>2. u[Len(s) + 1].tail = u[Len(s)].head
      <4>1. Len(s) \in 1..(Len(u) - 1)
        BY <1>1, <2>1
      <4> QED BY <4>1, <2>2 DEF Chained
    <3> QED BY <1>1, <1>3, <2>1, <2>2, <3>1, <3>2 DEF Chained
  <2>3. ASSUME Chained(s, a, t.tail), t.head = b PROVE Chained(u, a, b)
    <3>1. \A i \in 1..(Len(u) - 1) : u[i + 1].tail = u[i].head
      <4> TAKE i \in 1..(Len(u) - 1)
      <4>1. CASE i = Len(s)
        BY <4>1, <1>1, <1>3, <2>1, <2>3 DEF Chained
      <4>2. CASE i # Len(s)
        <5>1. u[i + 1] = s[i + 1] /\ u[i] = s[i] /\ i \in 1..(Len(s) - 1)
          BY <1>1, <4>2
        <5> QED BY <5>1, <2>3 DEF Chained
      <4> QED BY <4>1, <4>2
    <3> QED BY <1>1, <1>3, <2>1, <2>3, <3>1 DEF Chained
  <2> QED BY <2>2, <2>3 DEF u
<1> QED BY <1>2, <1>3

LEMMA ChainedFirst ==
    ASSUME NEW s \in Seq(Transfers), s # <<>>, NEW a, NEW b, Chained(s, a, b)
    PROVE  Head(s).tail = a /\ Chained(Tail(s), Head(s).head, b)
<1> DEFINE u == Tail(s)
<1>1. /\ u \in Seq(Transfers) /\ Len(u) = Len(s) - 1 /\ Len(u) \in Nat /\ Head(s) = s[1]
      /\ \A i \in 1..Len(u) : u[i] = s[i + 1]
  BY HeadTailProperties, LenProperties
<1>2. u = <<>> <=> Len(u) = 0
  BY <1>1, EmptySeq
<1> HIDE DEF u
<1>3. \A i \in 1..(Len(u) - 1) : u[i + 1].tail = u[i].head
  <2> TAKE i \in 1..(Len(u) - 1)
  <2>1. u[i + 1] = s[i + 2] /\ u[i] = s[i + 1] /\ i + 1 \in 1..(Len(s) - 1) /\ (i + 1) + 1 = i + 2
    BY <1>1
  <2> QED BY <2>1 DEF Chained
<1>4. CASE u = <<>>
  <2>1. Len(s) = 1
    BY <1>1, <1>2, <1>4
  <2> QED BY <1>1, <1>2, <1>3, <1>4, <2>1 DEF Chained, u
<1>5. CASE u # <<>>
  <2>1. u[1] = s[2] /\ u[Len(u)] = s[Len(s)] /\ 1 \in 1..(Len(s) - 1)
    BY <1>1, <1>2, <1>5
  <2>2. s[1 + 1].tail = s[1].head
    BY <2>1 DEF Chained
  <2> QED BY <1>1, <1>2, <1>3, <1>5, <2>1, <2>2 DEF Chained, u
<1> QED BY <1>4, <1>5

-----------------------------------------------------------------------------
(* What the tracker sends, in whichever of the four ways, goes to the end of  *)
(* what is on the way, and the transfers still continue one another.          *)
LEMMA NoFrameIsNone == \A f \in FrameType : f # NoFrame
BY DEF FrameType, NoFrame

LEMMA CatAppend ==
    ASSUME NEW D, NEW p \in Seq(D), NEW c \in Seq(D), NEW x \in D
    PROVE  /\ p \o Append(c, x) = Append(p \o c, x)
           /\ (p \o c) \o <<x>> = p \o Append(c, x)
OBVIOUS

LEMMA CatTwo ==
    ASSUME NEW D, NEW p \in Seq(D), NEW x \in D, NEW y \in D
    PROVE  p \o <<x, y>> = Append(Append(p, x), y)
OBVIOUS

LEMMA LastChanged ==
    ASSUME NEW D, NEW c \in Seq(D), NEW l \in D, NEW b, b = Append(c, l), NEW t \in D
    PROVE  [b EXCEPT ![Len(b)] = t] = Append(c, t)
<1>1. /\ b \in Seq(D) /\ Len(b) = Len(c) + 1 /\ Len(c) \in Nat
      /\ \A i \in 1..Len(c) : b[i] = c[i]
  BY AppendProperties, LenProperties
<1>2. /\ Append(c, t) \in Seq(D) /\ Len(Append(c, t)) = Len(c) + 1
      /\ \A i \in 1..Len(c) : Append(c, t)[i] = c[i]
      /\ Append(c, t)[Len(c) + 1] = t
  BY AppendProperties
<1>3. b \in [1..Len(b) -> D] /\ Append(c, t) \in [1..Len(b) -> D]
  BY <1>1, <1>2, LenProperties
<1>4. \A i \in 1..Len(b) : [b EXCEPT ![Len(b)] = t][i] = Append(c, t)[i]
  <2> TAKE i \in 1..Len(b)
  <2>1. CASE i = Len(b)
    BY <1>1, <1>2, <1>3, <2>1
  <2>2. CASE i # Len(b)
    <3>1. i \in 1..Len(c)
      BY <1>1, <2>2
    <3>2. [b EXCEPT ![Len(b)] = t][i] = b[i]
      BY <1>3, <2>2
    <3> QED BY <1>1, <1>2, <3>1, <3>2
  <2> QED BY <2>1, <2>2
<1> QED BY <1>3, <1>4

WithFrame(t, f) == [t EXCEPT !.frames = Append(@, f)]

LEMMA FrameAppended ==
    ASSUME NEW t \in Transfers, NEW f \in FrameType
    PROVE  /\ WithFrame(t, f) \in Transfers
           /\ WithFrame(t, f).tail = t.tail /\ WithFrame(t, f).head = t.head
           /\ ChunkFrames(WithFrame(t, f)) = ChunkFrames(t) \o <<f>>
<1> DEFINE u == WithFrame(t, f)
<1>1. u \in Transfers /\ u.tail = t.tail /\ u.head = t.head /\ u.frames = Append(t.frames, f)
  BY DEF Transfers, WithFrame
<1>2. t.frames \in Seq(FrameType) /\ t.tail \in FrameType \cup {NoFrame}
  BY DEF Transfers
<1> HIDE DEF u
<1>3. PICK h \in Seq(FrameType) : h = IF t.tail = NoFrame THEN <<>> ELSE <<t.tail>>
  <2>1. CASE t.tail = NoFrame
    BY <2>1, EmptySeq
  <2>2. CASE t.tail # NoFrame
    <3>1. <<t.tail>> \in Seq(FrameType)
      BY <1>2, <2>2
    <3> QED BY <2>2, <3>1
  <2> QED BY <2>1, <2>2
<1>4. PICK g \in Seq(FrameType) : g = t.frames
  BY <1>2
<1>5. (h \o g) \o <<f>> = h \o Append(g, f)
  <2>1. PICK k \in Seq(FrameType) : k = <<f>>
    <3>1. <<f>> \in Seq(FrameType)
      OBVIOUS
    <3> QED BY <3>1
  <2>2. (h \o g) \o k = h \o (g \o k)
    BY CatAssoc, SMTT(60)
  <2>3. g \o k = Append(g, f)
    BY <2>1, AppendIsCat
  <2> QED BY <2>1, <2>2, <2>3
<1>6. ChunkFrames(u) = ChunkFrames(t) \o <<f>>
  BY <1>1, <1>3, <1>4, <1>5 DEF ChunkFrames
<1> QED BY <1>1, <1>6 DEF u

LEMMA BegunAndEnded ==
    ASSUME NEW f \in FrameType
    PROVE  /\ Transfer(NoFrame, <<f>>, NoFrame) \in Transfers
           /\ ChunkFrames(Transfer(NoFrame, <<f>>, NoFrame)) = <<f>>
           /\ Transfer(NoFrame, <<>>, f) \in Transfers
           /\ ChunkFrames(Transfer(NoFrame, <<>>, f)) = <<>>
           /\ Transfer(f, <<>>, NoFrame) \in Transfers
           /\ ChunkFrames(Transfer(f, <<>>, NoFrame)) = <<f>>
<1>1. <<f>> \in Seq(FrameType) /\ <<>> \in Seq(FrameType)
  OBVIOUS
<1> QED BY <1>1, NoFrameIsNone DEF Transfers, Transfer, ChunkFrames

(* The last transfer of a sequence replaced. *)
LEMMA LastInside ==
    ASSUME NEW b \in Seq(Transfers), b # <<>>, NEW t \in Transfers
    PROVE  [b EXCEPT ![Len(b)] = t] \in Seq(Transfers)
<1>1. Len(b) \in 1..Len(b)
  BY EmptySeq
<1> QED BY <1>1, ExceptSeq

LEMMA LastReplaced ==
    ASSUME NEW p \in Seq(Transfers), NEW b \in Seq(Transfers), b # <<>>
    PROVE  \E s \in Seq(Transfers), l \in Transfers :
              /\ p \o b = Append(s, l) /\ l = b[Len(b)]
              /\ \A t \in Transfers : p \o [b EXCEPT ![Len(b)] = t] = Append(s, t)
<1>1. PICK c \in Seq(Transfers), l \in Transfers : b = Append(c, l)
  BY SequenceEmptyOrAppend
<1>2. l = b[Len(b)] /\ p \o c \in Seq(Transfers) /\ p \o b = Append(p \o c, l)
  BY <1>1
<1>3. ASSUME NEW t \in Transfers
      PROVE  p \o [b EXCEPT ![Len(b)] = t] = Append(p \o c, t)
  <2>1. [b EXCEPT ![Len(b)] = t] = Append(c, t)
    BY <1>1, LastChanged, SMTT(30)
  <2>2. p \o Append(c, t) = Append(p \o c, t)
    BY CatAppend, SMTT(30)
  <2> QED BY <2>1, <2>2
<1> QED BY <1>2, <1>3

LEMMA EmitKeeps ==
    ASSUME ConnTypeOK, Unbroken, NEW f \in FrameType, Emit(f), UNCHANGED <<pending, acc>>
    PROVE  bus' \in Seq(Transfers) /\ Unbroken' /\ OnTheWay' = OnTheWay \o <<f>>
<1> DEFINE whole == Transfer(NoFrame, <<f>>, NoFrame)
           beginning == Transfer(NoFrame, <<>>, f)
           end == Transfer(f, <<>>, NoFrame)
<1>1. pending \in Seq(Transfers) /\ bus \in Seq(Transfers) /\ Incoming \in Seq(Transfers)
  BY ConcatProperties DEF ConnTypeOK, Incoming
<1>2. /\ Incoming' = pending \o bus' /\ OnTheWay' = Unpacked(Incoming')
      /\ Unbroken' <=> Chained(Incoming', acc, NoFrame)
  BY DEF Incoming, OnTheWay, Unbroken, Chained
<1>3. OnTheWay \in Seq(FrameType) /\ OnTheWay = Unpacked(Incoming)
  BY <1>1, UnpackedType DEF OnTheWay
<1>4. Chained(Incoming, acc, NoFrame)
  BY DEF Unbroken
<1>5. CASE bus' = Append(bus, whole)
  <2>1. whole \in Transfers /\ ChunkFrames(whole) = <<f>> /\ whole.tail = NoFrame /\ whole.head = NoFrame
    BY BegunAndEnded DEF Transfer
  <2> HIDE DEF whole
  <2>2. Incoming' = Append(Incoming, whole) /\ bus' \in Seq(Transfers)
    BY <1>1, <1>2, <1>5, <2>1 DEF Incoming
  <2>3. Chained(Incoming', acc, NoFrame)
    BY <1>1, <1>4, <2>1, <2>2, ChainedAppend
  <2>4. Unpacked(Incoming') = OnTheWay \o <<f>>
    BY <1>1, <1>3, <2>1, <2>2, UnpackedAppend
  <2> QED BY <1>2, <2>2, <2>3, <2>4
<1>6. CASE bus # <<>> /\ bus' = [bus EXCEPT ![Len(bus)].frames = Append(@, f)]
  <2>1. PICK s \in Seq(Transfers), l \in Transfers :
          /\ Incoming = Append(s, l) /\ l = bus[Len(bus)]
          /\ \A t \in Transfers : pending \o [bus EXCEPT ![Len(bus)] = t] = Append(s, t)
    BY <1>1, <1>6, LastReplaced DEF Incoming
  <2> DEFINE u == WithFrame(l, f)
  <2>2. u \in Transfers /\ u.tail = l.tail /\ u.head = l.head /\ ChunkFrames(u) = ChunkFrames(l) \o <<f>>
    BY FrameAppended
  <2>3. bus' = [bus EXCEPT ![Len(bus)] = u]
    BY <1>6, <2>1 DEF WithFrame
  <2> HIDE DEF u
  <2>4. bus' \in Seq(Transfers)
    BY <1>1, <1>6, <2>2, <2>3, LastInside
  <2>5. Incoming' = Append(s, u)
    BY <1>2, <2>1, <2>2, <2>3
  <2>6. Chained(Incoming', acc, NoFrame)
    BY <1>4, <2>1, <2>2, <2>5, ChainedAppend
  <2>7. Unpacked(Incoming') = OnTheWay \o <<f>>
    <3>1. PICK a \in Seq(FrameType) : a = Unpacked(s)
      BY UnpackedType
    <3>2. PICK c \in Seq(FrameType) : c = ChunkFrames(l)
      BY ChunkType
    <3>3. (a \o c) \o <<f>> = a \o (c \o <<f>>)
      <4>1. <<f>> \in Seq(FrameType)
        OBVIOUS
      <4> QED BY <4>1, CatAssoc, SMTT(60)
    <3>4. Unpacked(Append(s, u)) = a \o (c \o <<f>>)
      BY <2>2, <3>1, <3>2, UnpackedAppend
    <3>5. OnTheWay = a \o c
      BY <1>3, <2>1, <3>1, <3>2, UnpackedAppend
    <3> QED BY <2>5, <3>3, <3>4, <3>5
  <2> QED BY <1>2, <2>4, <2>6, <2>7
<1>7. CASE bus' = bus \o <<beginning, end>>
  <2>1. /\ beginning \in Transfers /\ ChunkFrames(beginning) = <<>>
        /\ beginning.tail = NoFrame /\ beginning.head = f
        /\ end \in Transfers /\ ChunkFrames(end) = <<f>> /\ end.tail = f /\ end.head = NoFrame
    BY BegunAndEnded DEF Transfer
  <2> HIDE DEF beginning, end
  <2> DEFINE s == Append(Incoming, beginning)
  <2>2. s \in Seq(Transfers) /\ Incoming' = Append(s, end) /\ bus' \in Seq(Transfers)
    <3>1. bus' = Append(Append(bus, beginning), end)
      BY <1>1, <1>7, <2>1, CatTwo
    <3>2. Append(bus, beginning) \in Seq(Transfers) /\ bus' \in Seq(Transfers) /\ s \in Seq(Transfers)
      BY <1>1, <2>1, <3>1, AppendProperties
    <3>3. Incoming' = Append(pending \o Append(bus, beginning), end)
      BY <1>1, <1>2, <2>1, <3>1, <3>2, CatAppend, SMTT(30)
    <3>4. pending \o Append(bus, beginning) = s
      BY <1>1, <2>1, CatAppend DEF Incoming
    <3> QED BY <3>2, <3>3, <3>4
  <2>3. Chained(s, acc, f)
    BY <1>1, <1>4, <2>1, ChainedAppend
  <2>4. Unpacked(s) = OnTheWay
    <3>1. Unpacked(s) = OnTheWay \o <<>>
      BY <1>1, <1>3, <2>1, UnpackedAppend
    <3> QED BY <1>3, <3>1, ConcatEmptySeq
  <2> HIDE DEF s
  <2>5. Chained(Incoming', acc, NoFrame)
    BY <2>1, <2>2, <2>3, ChainedAppend
  <2>6. Unpacked(Incoming') = OnTheWay \o <<f>>
    BY <2>1, <2>2, <2>4, UnpackedAppend
  <2> QED BY <1>2, <2>2, <2>5, <2>6
<1>8. CASE bus # <<>> /\ bus' = Append([bus EXCEPT ![Len(bus)].head = f], end)
  <2>1. PICK s \in Seq(Transfers), l \in Transfers :
          /\ Incoming = Append(s, l) /\ l = bus[Len(bus)]
          /\ \A t \in Transfers : pending \o [bus EXCEPT ![Len(bus)] = t] = Append(s, t)
    BY <1>1, <1>8, LastReplaced DEF Incoming
  <2>2. end \in Transfers /\ ChunkFrames(end) = <<f>> /\ end.tail = f /\ end.head = NoFrame
    BY BegunAndEnded DEF Transfer
  <2> HIDE DEF end
  <2> DEFINE u == [l EXCEPT !.head = f]
             v == Append(s, u)
  <2>3. u \in Transfers /\ u.tail = l.tail /\ u.head = f /\ ChunkFrames(u) = ChunkFrames(l)
    BY DEF Transfers, ChunkFrames
  <2>4. bus' = Append([bus EXCEPT ![Len(bus)] = u], end)
    BY <1>8, <2>1
  <2> HIDE DEF u
  <2>5. [bus EXCEPT ![Len(bus)] = u] \in Seq(Transfers) /\ bus' \in Seq(Transfers)
    <3>1. [bus EXCEPT ![Len(bus)] = u] \in Seq(Transfers)
      BY <1>1, <1>8, <2>3, LastInside
    <3> QED BY <2>2, <2>4, <3>1, AppendProperties
  <2>6. v \in Seq(Transfers) /\ Incoming' = Append(v, end)
    <3>1. pending \o Append([bus EXCEPT ![Len(bus)] = u], end)
            = Append(pending \o [bus EXCEPT ![Len(bus)] = u], end)
      BY <1>1, <2>2, <2>5, CatAppend, SMTT(30)
    <3>2. pending \o [bus EXCEPT ![Len(bus)] = u] = v
      BY <2>1, <2>3
    <3>3. v \in Seq(Transfers)
      BY <2>1, <2>3, AppendProperties
    <3> QED BY <1>2, <2>4, <3>1, <3>2, <3>3
  <2>7. Chained(v, acc, f) /\ Unpacked(v) = OnTheWay
    <3>1. Chained(s, acc, l.tail)
      BY <1>4, <2>1, ChainedAppend
    <3>2. Chained(v, acc, f)
      BY <2>1, <2>3, <3>1, ChainedAppend
    <3>3. Unpacked(v) = Unpacked(s) \o ChunkFrames(l)
      BY <2>1, <2>3, UnpackedAppend
    <3>4. OnTheWay = Unpacked(s) \o ChunkFrames(l)
      BY <1>3, <2>1, UnpackedAppend
    <3> QED BY <3>2, <3>3, <3>4
  <2> HIDE DEF v
  <2>8. Chained(Incoming', acc, NoFrame)
    BY <2>2, <2>6, <2>7, ChainedAppend
  <2>9. Unpacked(Incoming') = OnTheWay \o <<f>>
    BY <2>2, <2>6, <2>7, UnpackedAppend
  <2> QED BY <1>2, <2>5, <2>8, <2>9
<1> QED BY <1>5, <1>6, <1>7, <1>8 DEF Emit

-----------------------------------------------------------------------------
(* A chunk that is read is the first transfer on the way, and continues the   *)
(* frame in progress; what is soaked up stays on the way.                     *)
LEMMA HeadOfCat ==
    ASSUME NEW D, NEW p \in Seq(D), p # <<>>, NEW b \in Seq(D)
    PROVE  Head(p \o b) = Head(p) /\ Tail(p \o b) = Tail(p) \o b /\ p \o b # <<>>
OBVIOUS

LEMMA IncomingType ==
    ASSUME ConnTypeOK
    PROVE  /\ pending \in Seq(Transfers) /\ bus \in Seq(Transfers) /\ Incoming \in Seq(Transfers)
           /\ OnTheWay \in Seq(FrameType)
<1>1. pending \in Seq(Transfers) /\ bus \in Seq(Transfers)
  BY DEF ConnTypeOK
<1>2. Incoming \in Seq(Transfers)
  BY <1>1, ConcatProperties DEF Incoming
<1> QED BY <1>1, <1>2, UnpackedType DEF OnTheWay

LEMMA ChunkIsFirst ==
    ASSUME ConnTypeOK, Incoming # <<>>, TakeOne
    PROVE  /\ Chunk = Head(Incoming) /\ Incoming' = Tail(Incoming)
           /\ pending' \in Seq(Transfers) /\ Len(pending') <= SoakCap /\ bus' \in Seq(Transfers)
<1>1. pending \in Seq(Transfers) /\ bus \in Seq(Transfers) /\ Len(pending) <= SoakCap
  BY DEF ConnTypeOK
<1>2. CASE pending # <<>>
  <2>1. pending' = Tail(pending) /\ bus' = bus /\ Chunk = Head(pending)
    BY <1>2 DEF TakeOne, Soaked, Chunk
  <2>2. pending' \in Seq(Transfers) /\ Len(pending') = Len(pending) - 1 /\ Len(pending) \in Nat
    BY <1>1, <1>2, <2>1, HeadTailProperties, LenProperties
  <2>3. Len(pending') <= SoakCap
    BY <1>1, <2>2, ConnectionAssumption DEF ConnectionAssumption
  <2>4. Chunk = Head(Incoming) /\ Incoming' = Tail(Incoming)
    BY <1>1, <1>2, <2>1, HeadOfCat DEF Incoming
  <2> QED BY <1>1, <2>1, <2>2, <2>3, <2>4
<1>3. CASE pending = <<>>
  <2>1. bus' = Tail(bus) /\ pending' = pending /\ Chunk = Head(bus)
    BY <1>3 DEF TakeOne, Soaked, Chunk
  <2>2. Incoming = bus
    BY <1>1, <1>3, ConcatEmptySeq DEF Incoming
  <2>3. bus # <<>> /\ bus' \in Seq(Transfers)
    BY <1>1, <2>1, <2>2, HeadTailProperties
  <2>4. Incoming' = bus'
    BY <1>3, <2>1, <2>3, ConcatEmptySeq DEF Incoming
  <2> QED BY <1>1, <2>1, <2>2, <2>3, <2>4
<1> QED BY <1>2, <1>3

LEMMA FeedKeeps ==
    ASSUME ConnTypeOK, Unbroken, Feed
    PROVE  /\ pending' \in Seq(Transfers) /\ Len(pending') <= SoakCap /\ bus' \in Seq(Transfers)
           /\ acc' \in FrameType \cup {NoFrame} /\ desync' = desync /\ Unbroken'
           /\ Frames \in Seq(FrameType) /\ OnTheWay' \in Seq(FrameType)
           /\ OnTheWay = Frames \o OnTheWay'
<1>1. Incoming # <<>> /\ TakeOne
  BY DEF Feed
<1>2. /\ Chunk = Head(Incoming) /\ Incoming' = Tail(Incoming)
      /\ pending' \in Seq(Transfers) /\ Len(pending') <= SoakCap /\ bus' \in Seq(Transfers)
  BY <1>1, ChunkIsFirst
<1>3. Incoming \in Seq(Transfers) /\ desync \in BOOLEAN
  BY IncomingType DEF ConnTypeOK
<1>4. Chunk \in Transfers /\ Incoming' \in Seq(Transfers)
  BY <1>1, <1>2, <1>3, HeadTailProperties
<1>5. Chunk.tail = acc /\ Chained(Incoming', Chunk.head, NoFrame)
  BY <1>1, <1>2, <1>3, ChainedFirst DEF Unbroken
<1>6. acc' = Chunk.head /\ desync' = desync
  BY <1>3, <1>5 DEF Feed, Continues
<1>7. Unbroken'
  BY <1>5, <1>6 DEF Unbroken, Chained
<1>8. Frames = ChunkFrames(Chunk) /\ Frames \in Seq(FrameType)
  BY <1>4, <1>5, ChunkType DEF Frames, Continues
<1>9. OnTheWay = Frames \o OnTheWay' /\ OnTheWay' \in Seq(FrameType)
  <2>1. OnTheWay' = Unpacked(Incoming') /\ OnTheWay = Unpacked(Incoming)
    BY DEF OnTheWay
  <2> QED BY <1>1, <1>2, <1>3, <1>4, <1>8, <2>1, UnpackedFirst, UnpackedType
<1>10. acc' \in FrameType \cup {NoFrame}
  BY <1>4, <1>6 DEF Transfers
<1> QED BY <1>2, <1>6, <1>7, <1>8, <1>9, <1>10

LEMMA SoakKeeps ==
    ASSUME ConnTypeOK, Soak
    PROVE  pending' \in Seq(Transfers) /\ Len(pending') <= SoakCap /\ bus' \in Seq(Transfers)
           /\ Incoming' = Incoming
<1>1. /\ pending \in Seq(Transfers) /\ bus \in Seq(Transfers) /\ Len(pending) < SoakCap /\ bus # <<>>
      /\ pending' = Append(pending, Head(bus)) /\ bus' = Tail(bus)
  BY DEF ConnTypeOK, Soak
<1>2. Head(bus) \in Transfers /\ bus' \in Seq(Transfers) /\ bus = <<Head(bus)>> \o Tail(bus)
  BY <1>1, FirstAndRest
<1>3. PICK h \in Seq(Transfers) : h = <<Head(bus)>>
  <2>1. <<Head(bus)>> \in Seq(Transfers)
    BY <1>2
  <2> QED BY <2>1
<1>4. pending' = pending \o h /\ pending' \in Seq(Transfers)
  BY <1>1, <1>2, <1>3, AppendIsCat
<1>5. Len(pending') <= SoakCap
  <2>1. Len(pending') = Len(pending) + 1 /\ Len(pending) \in Nat
    BY <1>1, <1>2, AppendProperties, LenProperties
  <2> QED BY <1>1, <2>1, ConnectionAssumption DEF ConnectionAssumption
<1>6. (pending \o h) \o bus' = pending \o (h \o bus')
  BY <1>1, <1>2, CatAssoc, SMTT(60)
<1> QED BY <1>1, <1>2, <1>3, <1>4, <1>5, <1>6 DEF Incoming

-----------------------------------------------------------------------------
(* Sequence numbers: the next one, stepping over zero. *)
LEMMA SmallMod == \A w \in Nat : \A x \in Nat : w > 0 /\ x < w => x % w = x
<1> SUFFICES ASSUME NEW w \in Nat, NEW x \in Nat, w > 0, x < w PROVE x % w = x
  OBVIOUS
<1> QED BY Z3

LEMMA WholeMod == \A w \in Nat : w > 0 => w % w = 0
<1> SUFFICES ASSUME NEW w \in Nat, w > 0 PROVE w % w = 0
  OBVIOUS
<1> QED BY Z3

LEMMA AfterIs ==
    ASSUME NEW s \in 1..(Wrap - 1)
    PROVE  After(s) = (IF s = Wrap - 1 THEN 1 ELSE s + 1) /\ After(s) \in 1..(Wrap - 1)
<1>1. Wrap \in Nat /\ Wrap > 2
  BY ConnectionAssumption DEF ConnectionAssumption
<1>2. CASE s = Wrap - 1
  <2>1. (s + 1) % Wrap = 0
    BY <1>1, <1>2, WholeMod
  <2> QED BY <1>1, <1>2, <2>1 DEF After
<1>3. CASE s # Wrap - 1
  <2>1. (s + 1) % Wrap = s + 1
    BY <1>1, <1>3, SmallMod
  <2> QED BY <1>1, <1>3, <2>1 DEF After
<1> QED BY <1>2, <1>3

-----------------------------------------------------------------------------
(* A matched answer taken out of its chunk takes no sample with it. *)
LEMMA RestIs ==
    ASSUME NEW s \in Seq(FrameType), NEW i \in DOMAIN s, ~IsGaze(s[i])
    PROVE  Rest(s, i) \in Seq(FrameType) /\ Samples(Rest(s, i)) = Samples(s)
<1> DEFINE a == SubSeq(s, 1, i - 1)
           b == SubSeq(s, i + 1, Len(s))
<1>1. i \in 1..Len(s) /\ Len(s) \in Nat /\ s[i] \in FrameType
  BY LenProperties, ElementOfSeq
<1>2. a \in Seq(FrameType) /\ b \in Seq(FrameType)
  <2>1. \A j \in 1..(i - 1) : s[j] \in FrameType
    BY <1>1, ElementOfSeq
  <2>2. \A j \in (i + 1)..Len(s) : s[j] \in FrameType
    BY <1>1, ElementOfSeq
  <2>3. i - 1 \in Int /\ i + 1 \in Int /\ Len(s) \in Int
    BY <1>1
  <2> QED BY <2>1, <2>2, <2>3, SubSeqProperties
<1>3. SubSeq(s, i, Len(s)) = <<s[i]>> \o b
  <2>1. Len(s) \in i..Len(s)
    BY <1>1
  <2> QED BY <1>1, <2>1, SubSeqRecursiveFirst
<1>4. s = a \o SubSeq(s, i, Len(s))
  <2>1. /\ 1 \in 1..(Len(s) + 1) /\ i - 1 \in (1 - 1)..Len(s) /\ Len(s) \in (i - 1)..Len(s)
        /\ (i - 1) + 1 = i
    BY <1>1
  <2>2. SubSeq(s, 1, i - 1) \o SubSeq(s, (i - 1) + 1, Len(s)) = SubSeq(s, 1, Len(s))
    BY <2>1, ConcatAdjacentSubSeq
  <2> QED BY <2>1, <2>2, SubSeqFull
<1> HIDE DEF a, b
<1>5. PICK h \in Seq(FrameType) : h = <<s[i]>>
  <2>1. <<s[i]>> \in Seq(FrameType)
    BY <1>1
  <2> QED BY <2>1
<1>6. Samples(h) = <<>>
  BY <1>1, <1>5, SamplesOne
<1>7. Samples(h \o b) = Samples(b) /\ h \o b \in Seq(FrameType)
  <2>1. h \o b \in Seq(FrameType)
    BY <1>2, ConcatProperties
  <2>2. Samples(h \o b) = Samples(h) \o Samples(b)
    BY <1>2, SamplesCat
  <2>3. Samples(b) \in Seq(Nat)
    BY <1>2, SamplesType
  <2>4. <<>> \o Samples(b) = Samples(b)
    BY <2>3, ConcatEmptySeq
  <2> QED BY <1>6, <2>1, <2>2, <2>4
<1>8. Samples(s) = Samples(a) \o Samples(b)
  <2>1. PICK c \in Seq(FrameType) : c = h \o b
    BY <1>7
  <2>2. s = a \o c
    BY <1>3, <1>4, <1>5, <2>1
  <2>3. Samples(a \o c) = Samples(a) \o Samples(c)
    BY <1>2, SamplesCat
  <2> QED BY <1>7, <2>1, <2>2, <2>3
<1>9. Rest(s, i) = a \o b
  BY DEF Rest, RemoveAt, a, b
<1> QED BY <1>2, <1>8, <1>9, SamplesCat, ConcatProperties

-----------------------------------------------------------------------------
(* The wire, whatever happens. *)
LEMMA AnswerType == \A r \in Requests : Answer(r) \in FrameType
BY ConnectionAssumption DEF Requests, Answer, FrameType, ConnectionAssumption

LEMMA GazeType == \A n \in Nat : Gaze(n) \in FrameType
BY ConnectionAssumption DEF Gaze, FrameType, ConnectionAssumption

WireKeeps ==
    /\ pending' \in Seq(Transfers) /\ Len(pending') <= SoakCap /\ bus' \in Seq(Transfers)
    /\ acc' \in FrameType \cup {NoFrame} /\ desync' = desync /\ Unbroken'

LEMMA WireKept ==
    ASSUME ConnTypeOK, Unbroken, ConnNext
    PROVE  WireKeeps
<1>1. ASSUME NEW f \in FrameType, Emit(f), UNCHANGED <<pending, acc, desync>>
      PROVE  WireKeeps
  BY <1>1, EmitKeeps DEF ConnTypeOK, WireKeeps
<1>2. ASSUME UNCHANGED <<pending, bus, acc, desync>>
      PROVE  WireKeeps
  BY <1>2 DEF ConnTypeOK, WireKeeps, Unbroken, Incoming, Chained
<1>3. CASE Serve
  <2>1. Head(inbox) \in Requests
    BY <1>3 DEF Serve, ConnTypeOK
  <2>2. Answer(Head(inbox)) \in FrameType
    BY <2>1, AnswerType
  <2> QED BY <1>1, <1>3, <2>2 DEF Serve, wire
<1>4. CASE SendGaze
  <2>1. sent' \in Nat
    BY <1>4 DEF SendGaze, ConnTypeOK
  <2>2. Gaze(sent') \in FrameType
    BY <2>1, GazeType
  <2> QED BY <1>1, <1>4, <2>2 DEF SendGaze, wire
<1>5. CASE Soak
  <2>1. /\ pending' \in Seq(Transfers) /\ Len(pending') <= SoakCap /\ bus' \in Seq(Transfers)
        /\ Incoming' = Incoming
    BY <1>5, SoakKeeps
  <2>2. acc' = acc /\ desync' = desync
    BY <1>5 DEF Soak
  <2> QED BY <2>1, <2>2 DEF WireKeeps, Unbroken, Chained, ConnTypeOK
<1>6. CASE Feed
  BY <1>6, FeedKeeps DEF WireKeeps
<1>7. CASE Ignore \/ PollSend \/ PollFails \/ PollRecv \/ HsQuiet \/ HsGivesUp \/ Connected
           \/ (\E op \in Ops : Request(op)) \/ SendDone \/ SendFails \/ RequestTimeout \/ NextGazeQueued
  BY <1>2, <1>7 DEF Ignore, PollSend, PollFails, PollRecv, HsQuiet, HsGivesUp, Connected, Request,
                    SendDone, SendFails, RequestTimeout, NextGazeQueued, wire, device
<1>8. CASE HsDrain \/ Matched \/ NotMatched \/ NextGazeRead \/ ReadNotifications
  BY <1>6, <1>8 DEF HsDrain, Matched, NotMatched, NextGazeRead, ReadNotifications
<1> QED BY <1>3, <1>4, <1>5, <1>7, <1>8 DEF ConnNext

-----------------------------------------------------------------------------
(* Type correctness. *)
TrackerTypeOK ==
    /\ realm \in [type : {0, 1}, open : BOOLEAN, authorised : BOOLEAN, streaming : BOOLEAN]
    /\ inbox \in Seq(Requests) /\ partial \in BOOLEAN /\ sent \in 0..MaxGaze
ShakeTypeOK ==
    /\ resp \in FrameType \cup {NoFrame}
    /\ hs \in Steps \cup {"new", "done", "failed"} /\ realm_type \in {0, 1}
RequestTypeOK ==
    /\ req \in Requests \cup {NoRequest} /\ got \in FrameType \cup {NoFrame}
    /\ seq \in 1..(Wrap - 1) /\ ids \in Nat
    /\ at \in {"poll", "drain", "ready", "sending", "waiting", "closed"}
GazeTypeOK ==
    by_queue \in BOOLEAN /\ gaze_queue \in Seq(Nat) /\ delivered \in Seq(Nat)

LEMMA TrackerTypeKept ==
    ASSUME ConnTypeOK, StepAt, ConnNext
    PROVE  TrackerTypeOK'
<1>1. ASSUME UNCHANGED <<realm, inbox, partial, sent>>
      PROVE  TrackerTypeOK'
  BY <1>1 DEF ConnTypeOK, TrackerTypeOK
<1>2. CASE Serve \/ Ignore
  <2>1. Tail(inbox) \in Seq(Requests) /\ Head(inbox) \in Requests
    BY <1>2 DEF Serve, Ignore, ConnTypeOK
  <2> QED BY <1>2, <2>1 DEF Serve, Ignore, ConnTypeOK, TrackerTypeOK
<1>3. CASE SendGaze
  BY <1>3, ConnectionAssumption DEF SendGaze, ConnTypeOK, TrackerTypeOK, ConnectionAssumption
<1>4. CASE PollSend
  <2>1. hs \in {"new", "hello", "query", "open", "auth"}
    BY <1>4 DEF PollSend, ConnTypeOK, StepAt, Steps
  <2>2. NextStep \in Steps
    BY <2>1 DEF NextStep, Steps
  <2>3. req' \in Requests
    BY <1>4, <2>2 DEF PollSend, ConnTypeOK, Requests, Kinds
  <2>4. inbox' = Append(inbox, req') /\ UNCHANGED <<realm, partial, sent>>
    BY <1>4 DEF PollSend
  <2>5. inbox' \in Seq(Requests)
    BY <2>3, <2>4, AppendProperties DEF ConnTypeOK
  <2> QED BY <2>4, <2>5 DEF ConnTypeOK, TrackerTypeOK
<1>5. CASE \E op \in Ops : Request(op)
  <2>1. PICK op \in Ops : Request(op)
    BY <1>5
  <2>2. req' \in Requests
    BY <2>1 DEF Request, ConnTypeOK, Requests, Kinds
  <2>3. inbox' = inbox \/ inbox' = Append(inbox, req')
    BY <2>1 DEF Request, Arrive
  <2>4. inbox' \in Seq(Requests)
    <3>1. inbox \in Seq(Requests)
      BY DEF ConnTypeOK
    <3> QED BY <2>2, <2>3, <3>1, AppendProperties
  <2>5. UNCHANGED <<realm, sent>> /\ (partial' = partial \/ partial' = FALSE)
    BY <2>1 DEF Request
  <2> QED BY <2>4, <2>5 DEF ConnTypeOK, TrackerTypeOK
<1>6. CASE SendDone
  <2>1. req \in Requests
    BY <1>6 DEF SendDone, StepAt, ConnTypeOK
  <2>2. inbox' \in Seq(Requests)
    <3>1. inbox \in Seq(Requests) /\ (inbox' = inbox \/ inbox' = Append(inbox, req))
      BY <1>6 DEF SendDone, Arrive, ConnTypeOK
    <3> QED BY <2>1, <3>1, AppendProperties
  <2> QED BY <1>6, <2>2 DEF SendDone, ConnTypeOK, TrackerTypeOK
<1>7. CASE SendFails
  BY <1>7 DEF SendFails, ConnTypeOK, TrackerTypeOK
<1>8. CASE PollFails \/ PollRecv \/ HsQuiet \/ HsGivesUp \/ Connected \/ RequestTimeout \/ NextGazeQueued
  BY <1>1, <1>8 DEF PollFails, PollRecv, HsQuiet, HsGivesUp, Connected, RequestTimeout, NextGazeQueued, device
<1>9. CASE HsDrain \/ Soak \/ Matched \/ NotMatched \/ NextGazeRead \/ ReadNotifications
  BY <1>1, <1>9 DEF HsDrain, Soak, Matched, NotMatched, NextGazeRead, ReadNotifications
<1> QED BY <1>2, <1>3, <1>4, <1>5, <1>6, <1>7, <1>8, <1>9 DEF ConnNext

LEMMA ShakeTypeKept ==
    ASSUME ConnTypeOK, Unbroken, StepAt, ConnNext
    PROVE  ShakeTypeOK'
<1>1. ASSUME UNCHANGED shake
      PROVE  ShakeTypeOK'
  BY <1>1 DEF ConnTypeOK, ShakeTypeOK, shake
<1>2. CASE PollSend
  <2>1. hs \in {"new", "hello", "query", "open", "auth"}
    BY <1>2 DEF PollSend, ConnTypeOK, StepAt, Steps
  <2>2. NextStep \in Steps
    BY <2>1 DEF NextStep, Steps
  <2> QED BY <1>2, <2>2 DEF PollSend, ConnTypeOK, ShakeTypeOK
<1>3. CASE PollFails \/ HsGivesUp
  BY <1>3 DEF PollFails, HsGivesUp, ConnTypeOK, ShakeTypeOK
<1>4. CASE HsDrain
  <2>1. Frames \in Seq(FrameType)
    BY <1>4, FeedKeeps DEF HsDrain
  <2>2. resp' = resp \/ \E i \in DOMAIN Frames : resp' = Frames[i]
    BY <1>4 DEF HsDrain
  <2>3. UNCHANGED <<hs, realm_type>>
    BY <1>4 DEF HsDrain
  <2> QED BY <2>1, <2>2, <2>3 DEF ConnTypeOK, ShakeTypeOK
<1>5. CASE \/ Serve \/ Ignore \/ SendGaze \/ PollRecv \/ HsQuiet \/ Connected \/ (\E op \in Ops : Request(op))
           \/ Soak \/ SendDone \/ SendFails \/ Matched \/ NotMatched \/ RequestTimeout
           \/ NextGazeQueued \/ NextGazeRead \/ ReadNotifications
  BY <1>1, <1>5 DEF Serve, Ignore, SendGaze, PollRecv, HsQuiet, Connected, Request, Soak, SendDone, SendFails,
                    Matched, NotMatched, RequestTimeout, NextGazeQueued, NextGazeRead, ReadNotifications
<1> QED BY <1>2, <1>3, <1>4, <1>5 DEF ConnNext

LEMMA RequestTypeKept ==
    ASSUME ConnTypeOK, Unbroken, StepAt, ConnNext
    PROVE  RequestTypeOK'
<1>1. ASSUME UNCHANGED <<req, got, seq, ids>>, at' \in {"poll", "drain", "ready", "waiting", "closed", at}
      PROVE  RequestTypeOK'
  BY <1>1 DEF ConnTypeOK, RequestTypeOK
<1>2. CASE PollSend
  <2>1. hs \in {"new", "hello", "query", "open", "auth"}
    BY <1>2 DEF PollSend, ConnTypeOK, StepAt, Steps
  <2>2. NextStep \in Steps
    BY <2>1 DEF NextStep, Steps
  <2>3. seq' \in 1..(Wrap - 1)
    BY <1>2, AfterIs DEF PollSend, ConnTypeOK
  <2> QED BY <1>2, <2>2, <2>3 DEF PollSend, ConnTypeOK, RequestTypeOK, Requests, Kinds
<1>3. CASE \E op \in Ops : Request(op)
  <2>1. PICK op \in Ops : Request(op)
    BY <1>3
  <2>2. seq' \in 1..(Wrap - 1)
    BY <2>1, AfterIs DEF Request, ConnTypeOK
  <2> QED BY <2>1, <2>2 DEF Request, ConnTypeOK, RequestTypeOK, Requests, Kinds
<1>4. CASE Matched
  <2>1. Frames \in Seq(FrameType)
    BY <1>4, FeedKeeps DEF Matched
  <2>2. PICK i \in DOMAIN Frames : got' = Frames[i]
    BY <1>4 DEF Matched
  <2>3. got' \in FrameType
    BY <2>1, <2>2
  <2> QED BY <1>4, <2>3 DEF Matched, ConnTypeOK, RequestTypeOK
<1>5. CASE \/ Serve \/ Ignore \/ SendGaze \/ PollFails \/ PollRecv \/ HsDrain \/ HsQuiet \/ HsGivesUp \/ Connected
           \/ Soak \/ SendDone \/ SendFails \/ NotMatched \/ RequestTimeout
           \/ NextGazeQueued \/ NextGazeRead \/ ReadNotifications
  BY <1>1, <1>5 DEF Serve, Ignore, SendGaze, PollFails, PollRecv, HsDrain, HsQuiet, HsGivesUp, Connected, Soak,
                    SendDone, SendFails, NotMatched, RequestTimeout, NextGazeQueued, NextGazeRead,
                    ReadNotifications, client
<1> QED BY <1>2, <1>3, <1>4, <1>5 DEF ConnNext

LEMMA GazeTypeKept ==
    ASSUME ConnTypeOK, Unbroken, ConnNext
    PROVE  GazeTypeOK'
<1>1. ASSUME UNCHANGED gaze
      PROVE  GazeTypeOK'
  BY <1>1 DEF ConnTypeOK, GazeTypeOK, gaze
<1>2. gaze_queue \in Seq(Nat) /\ delivered \in Seq(Nat) /\ by_queue \in BOOLEAN
  BY DEF ConnTypeOK
<1>3. ASSUME NEW frames \in Seq(FrameType), Queue(frames), UNCHANGED <<delivered, by_queue>>
      PROVE  GazeTypeOK'
  <2>1. gaze_queue' \in Seq(Nat)
    BY <1>2, <1>3, SamplesType, ConcatProperties DEF Queue
  <2> QED BY <1>2, <1>3, <2>1 DEF GazeTypeOK
<1>4. CASE HsDrain \/ NotMatched
  <2>1. Frames \in Seq(FrameType)
    BY <1>4, FeedKeeps DEF HsDrain, NotMatched
  <2> QED BY <1>3, <1>4, <2>1 DEF HsDrain, NotMatched
<1>5. CASE Matched
  <2>1. Frames \in Seq(FrameType)
    BY <1>5, FeedKeeps DEF Matched
  <2>2. PICK i \in DOMAIN Frames : Matches(Frames[i]) /\ Queue(Rest(Frames, i))
    BY <1>5 DEF Matched
  <2>3. Rest(Frames, i) \in Seq(FrameType)
    BY <2>1, <2>2, RestIs DEF Matches, IsGaze
  <2> QED BY <1>3, <1>5, <2>2, <2>3 DEF Matched
<1>6. CASE NextGazeQueued
  <2>1. Head(gaze_queue) \in Nat /\ Tail(gaze_queue) \in Seq(Nat)
    BY <1>2, <1>6, HeadTailProperties DEF NextGazeQueued
  <2> QED BY <1>2, <1>6, <2>1, AppendProperties DEF NextGazeQueued, GazeTypeOK
<1>7. CASE NextGazeRead
  <2>1. Samples(Frames) \in Seq(Nat)
    BY <1>7, FeedKeeps, SamplesType DEF NextGazeRead
  <2>2. CASE Samples(Frames) = <<>>
    BY <1>2, <1>7, <2>2 DEF NextGazeRead, GazeTypeOK
  <2>3. CASE Samples(Frames) # <<>>
    <3>1. Head(Samples(Frames)) \in Nat /\ Tail(Samples(Frames)) \in Seq(Nat)
      BY <2>1, <2>3, HeadTailProperties
    <3>2. /\ delivered' = Append(delivered, Head(Samples(Frames)))
          /\ gaze_queue' = Tail(Samples(Frames)) /\ by_queue' = by_queue
      BY <1>7, <2>3 DEF NextGazeRead
    <3>3. delivered' \in Seq(Nat)
      BY <1>2, <3>1, <3>2, AppendProperties
    <3> QED BY <1>2, <3>1, <3>2, <3>3 DEF GazeTypeOK
  <2> QED BY <2>2, <2>3
<1>8. CASE ReadNotifications
  <2>1. Samples(Frames) \in Seq(Nat)
    BY <1>8, FeedKeeps, SamplesType DEF ReadNotifications
  <2> QED BY <1>2, <1>8, <2>1, ConcatProperties DEF ReadNotifications, GazeTypeOK
<1>9. CASE \/ Serve \/ Ignore \/ SendGaze \/ PollSend \/ PollFails \/ PollRecv \/ HsQuiet \/ HsGivesUp \/ Connected
           \/ (\E op \in Ops : Request(op)) \/ Soak \/ SendDone \/ SendFails \/ RequestTimeout
  BY <1>1, <1>9 DEF Serve, Ignore, SendGaze, PollSend, PollFails, PollRecv, HsQuiet, HsGivesUp, Connected,
                    Request, Soak, SendDone, SendFails, RequestTimeout
<1> QED BY <1>4, <1>5, <1>6, <1>7, <1>8, <1>9 DEF ConnNext

LEMMA ConnTypeKept ==
    ASSUME ConnTypeOK, Unbroken, StepAt, ConnNext
    PROVE  ConnTypeOK'
<1>1. pending' \in Seq(Transfers) /\ Len(pending') <= SoakCap /\ bus' \in Seq(Transfers)
      /\ acc' \in FrameType \cup {NoFrame} /\ desync' \in BOOLEAN
  BY WireKept DEF WireKeeps, ConnTypeOK
<1>2. TrackerTypeOK'
  BY TrackerTypeKept
<1>3. ShakeTypeOK'
  BY ShakeTypeKept
<1>4. RequestTypeOK'
  BY RequestTypeKept
<1>5. GazeTypeOK'
  BY GazeTypeKept
<1> QED BY <1>1, <1>2, <1>3, <1>4, <1>5 DEF ConnTypeOK, TrackerTypeOK, ShakeTypeOK, RequestTypeOK, GazeTypeOK

-----------------------------------------------------------------------------
(* No sample is lost, doubled or overtaken: it moves from the wire to the     *)
(* queue and on to the program, and keeps its place.                          *)
Regroups(d, q, f, s) == (d \o (q \o f)) \o s = (d \o q) \o (f \o s)

LEMMA Regroup ==
    ASSUME NEW D, NEW d \in Seq(D), NEW q \in Seq(D), NEW f \in Seq(D), NEW s \in Seq(D)
    PROVE  Regroups(d, q, f, s)
<1>1. d \o (q \o f) = (d \o q) \o f
  BY CatAssoc, SMTT(60)
<1>2. d \o q \in Seq(D)
  BY ConcatProperties
<1>3. ((d \o q) \o f) \o s = (d \o q) \o (f \o s)
  BY <1>2, CatAssoc, SMTT(60)
<1> QED BY <1>1, <1>3 DEF Regroups

LEMMA TakeFirst ==
    ASSUME NEW D, NEW d \in Seq(D), NEW q \in Seq(D), q # <<>>
    PROVE  Append(d, Head(q)) \o Tail(q) = d \o q
<1>1. q = <<Head(q)>> \o Tail(q) /\ Head(q) \in D /\ Tail(q) \in Seq(D)
  BY FirstAndRest
<1>2. PICK h \in Seq(D) : h = <<Head(q)>>
  <2>1. <<Head(q)>> \in Seq(D)
    BY <1>1
  <2> QED BY <2>1
<1>3. Append(d, Head(q)) = d \o h
  BY <1>1, <1>2, AppendIsCat
<1>4. PICK t \in Seq(D) : t = Tail(q)
  BY <1>1
<1>5. (d \o h) \o t = d \o (h \o t)
  BY CatAssoc, SMTT(60)
<1> QED BY <1>1, <1>2, <1>3, <1>4, <1>5

LEMMA CountedOn ==
    ASSUME NEW n \in Nat, NEW s \in Seq(Nat), s = [i \in 1..n |-> i]
    PROVE  s \o <<n + 1>> = [i \in 1..(n + 1) |-> i]
OBVIOUS

LEMMA GazeKeptBy ==
    ASSUME ConnTypeOK, Unbroken, GazeKept, ConnNext
    PROVE  GazeKept'
<1> DEFINE Told == delivered \o gaze_queue \o Samples(OnTheWay)
<1>1. /\ delivered \in Seq(Nat) /\ gaze_queue \in Seq(Nat) /\ sent \in Nat
      /\ OnTheWay \in Seq(FrameType) /\ Samples(OnTheWay) \in Seq(Nat)
  BY IncomingType, SamplesType DEF ConnTypeOK
<1>2. ASSUME UNCHANGED <<sent, pending, bus, gaze>>
      PROVE  GazeKept'
  BY <1>2 DEF GazeKept, gaze, OnTheWay, Unpacked, Incoming, Samples
<1>3. PICK d \in Seq(Nat) : d = delivered
  BY <1>1
<1>4. PICK q \in Seq(Nat) : q = gaze_queue
  BY <1>1
<1>5. PICK dq \in Seq(Nat) : dq = d \o q
  BY ConcatProperties
<1>6. CASE Serve
  <2> DEFINE f == Answer(Head(inbox))
  <2>1. f \in FrameType /\ ~IsGaze(f)
    <3>1. Head(inbox) \in Requests
      BY <1>6 DEF Serve, ConnTypeOK
    <3> QED BY <3>1, AnswerType DEF Answer, IsGaze
  <2>2. OnTheWay' = OnTheWay \o <<f>> /\ UNCHANGED <<sent, gaze>>
    BY <1>6, <2>1, EmitKeeps DEF Serve, wire
  <2> HIDE DEF f
  <2>3. Samples(OnTheWay') = Samples(OnTheWay)
    <3>1. PICK h \in Seq(FrameType) : h = <<f>>
      <4>1. <<f>> \in Seq(FrameType)
        BY <2>1
      <4> QED BY <4>1
    <3>2. Samples(OnTheWay \o h) = Samples(OnTheWay) \o Samples(h)
      BY <1>1, SamplesCat
    <3>3. Samples(h) = <<>>
      BY <2>1, <3>1, SamplesOne
    <3> QED BY <1>1, <2>2, <3>1, <3>2, <3>3, ConcatEmptySeq
  <2>4. Samples(OnTheWay)' = Samples(OnTheWay')
    BY DEF Samples
  <2> QED BY <2>2, <2>3, <2>4 DEF GazeKept, gaze
<1>7. CASE SendGaze
  <2>1. sent' = sent + 1 /\ sent + 1 \in Nat /\ Gaze(sent + 1) \in FrameType /\ IsGaze(Gaze(sent + 1))
    BY <1>1, <1>7, GazeType DEF SendGaze, Gaze, IsGaze
  <2>2. OnTheWay' = OnTheWay \o <<Gaze(sent + 1)>> /\ UNCHANGED gaze
    BY <1>7, <2>1, EmitKeeps DEF SendGaze, wire
  <2>3. Samples(OnTheWay') = Samples(OnTheWay) \o <<sent + 1>>
    <3>1. PICK h \in Seq(FrameType) : h = <<Gaze(sent + 1)>>
      <4>1. <<Gaze(sent + 1)>> \in Seq(FrameType)
        BY <2>1
      <4> QED BY <4>1
    <3>2. Samples(OnTheWay \o h) = Samples(OnTheWay) \o Samples(h)
      BY <1>1, SamplesCat
    <3>3. Samples(h) = <<sent + 1>>
      BY <2>1, <3>1, SamplesOne DEF Gaze
    <3> QED BY <2>2, <3>1, <3>2, <3>3
  <2>4. Samples(OnTheWay)' = Samples(OnTheWay')
    BY DEF Samples
  <2>5. SUFFICES ASSUME by_queue
                 PROVE  dq \o (Samples(OnTheWay) \o <<sent + 1>>) = [i \in 1..(sent + 1) |-> i]
    BY <1>3, <1>4, <1>5, <2>1, <2>2, <2>3, <2>4 DEF GazeKept, gaze
  <2>6. PICK s \in Seq(Nat) : s = Samples(OnTheWay)
    BY <1>1
  <2>7. PICK one \in Seq(Nat) : one = <<sent + 1>>
    <3>1. <<sent + 1>> \in Seq(Nat)
      BY <2>1
    <3> QED BY <3>1
  <2>8. (dq \o s) \o one = dq \o (s \o one)
    BY CatAssoc, SMTT(60)
  <2>9. dq \o s = [i \in 1..sent |-> i] /\ dq \o s \in Seq(Nat)
    BY <1>3, <1>4, <1>5, <2>5, <2>6, ConcatProperties DEF GazeKept
  <2>10. (dq \o s) \o one = [i \in 1..(sent + 1) |-> i]
    BY <1>1, <2>7, <2>9, CountedOn
  <2> QED BY <2>6, <2>7, <2>8, <2>10
<1>8. CASE Soak
  <2>1. Incoming' = Incoming /\ UNCHANGED <<sent, gaze>>
    BY <1>8, SoakKeeps DEF Soak
  <2> QED BY <2>1 DEF GazeKept, gaze, OnTheWay, Unpacked, Samples
<1>9. ASSUME Feed
      PROVE  /\ Samples(Frames) \in Seq(Nat) /\ Samples(OnTheWay)' \in Seq(Nat)
             /\ Samples(OnTheWay) = Samples(Frames) \o Samples(OnTheWay)'
  <2>1. Frames \in Seq(FrameType) /\ OnTheWay' \in Seq(FrameType) /\ OnTheWay = Frames \o OnTheWay'
    BY <1>9, FeedKeeps
  <2>2. Samples(OnTheWay)' = Samples(OnTheWay')
    BY DEF Samples
  <2> QED BY <2>1, <2>2, SamplesCat, SamplesType
<1>10. ASSUME Feed, NEW frames \in Seq(FrameType), Samples(frames) = Samples(Frames), Queue(frames),
              UNCHANGED <<delivered, by_queue, sent>>
       PROVE  GazeKept'
  <2>1. PICK f \in Seq(Nat) : f = Samples(Frames)
    BY <1>9, <1>10
  <2>2. PICK s \in Seq(Nat) : s = Samples(OnTheWay)'
    BY <1>9, <1>10
  <2>3. (d \o (q \o f)) \o s = (d \o q) \o (f \o s)
    <3>1. Regroups(d, q, f, s)
      BY Regroup
    <3> QED BY <3>1 DEF Regroups
  <2>4. gaze_queue' = q \o f /\ delivered' = d /\ Samples(OnTheWay) = f \o s
    BY <1>3, <1>4, <1>9, <1>10, <2>1, <2>2 DEF Queue
  <2> QED BY <1>3, <1>4, <1>10, <2>2, <2>3, <2>4 DEF GazeKept
<1>11. CASE HsDrain \/ NotMatched
  <2>1. Feed /\ Queue(Frames) /\ UNCHANGED <<delivered, by_queue, sent>>
    BY <1>11 DEF HsDrain, NotMatched
  <2>2. Frames \in Seq(FrameType)
    BY <2>1, FeedKeeps
  <2> QED BY <1>10, <2>1, <2>2
<1>12. CASE Matched
  <2>1. Feed /\ UNCHANGED <<delivered, by_queue, sent>>
    BY <1>12 DEF Matched
  <2>2. PICK i \in DOMAIN Frames : Matches(Frames[i]) /\ Queue(Rest(Frames, i))
    BY <1>12 DEF Matched
  <2>3. Rest(Frames, i) \in Seq(FrameType) /\ Samples(Rest(Frames, i)) = Samples(Frames)
    <3>1. Frames \in Seq(FrameType) /\ ~IsGaze(Frames[i])
      BY <2>1, <2>2, FeedKeeps DEF Matches, IsGaze
    <3> QED BY <3>1, RestIs
  <2> QED BY <1>10, <2>1, <2>2, <2>3
<1>13. CASE NextGazeQueued
  <2>1. /\ q # <<>> /\ delivered' = Append(d, Head(q)) /\ gaze_queue' = Tail(q)
        /\ UNCHANGED <<pending, bus, sent, by_queue>>
    BY <1>3, <1>4, <1>13 DEF NextGazeQueued, device, wire
  <2>2. Append(d, Head(q)) \o Tail(q) = d \o q
    BY <2>1, TakeFirst
  <2>3. Samples(OnTheWay)' = Samples(OnTheWay)
    BY <2>1 DEF Samples, OnTheWay, Unpacked, Incoming
  <2> QED BY <1>3, <1>4, <2>1, <2>2, <2>3 DEF GazeKept
<1>14. CASE NextGazeRead
  <2>1. Feed /\ q = <<>> /\ UNCHANGED <<by_queue, sent>>
    BY <1>4, <1>14 DEF NextGazeRead
  <2>2. PICK f \in Seq(Nat) : f = Samples(Frames)
    BY <1>9, <2>1
  <2>3. PICK s \in Seq(Nat) : s = Samples(OnTheWay)'
    BY <1>9, <2>1
  <2>4. Samples(OnTheWay) = f \o s /\ d \o q = d
    BY <1>9, <2>1, <2>2, <2>3, ConcatEmptySeq
  <2>5. (delivered' \o gaze_queue') = d \o f
    <3>1. CASE f = <<>>
      <4>1. delivered' = d /\ gaze_queue' = <<>>
        BY <1>3, <1>4, <1>14, <2>1, <2>2, <3>1 DEF NextGazeRead
      <4> QED BY <3>1, <4>1
    <3>2. CASE f # <<>>
      <4>1. delivered' = Append(d, Head(f)) /\ gaze_queue' = Tail(f)
        BY <1>3, <1>14, <2>2, <3>2 DEF NextGazeRead
      <4> QED BY <3>2, <4>1, TakeFirst
    <3> QED BY <3>1, <3>2
  <2>6. (d \o f) \o s = d \o (f \o s)
    BY CatAssoc, SMTT(60)
  <2> QED BY <1>3, <1>4, <2>1, <2>3, <2>4, <2>5, <2>6 DEF GazeKept
<1>15. CASE ReadNotifications
  BY <1>15 DEF ReadNotifications, GazeKept
<1>16. CASE \/ Ignore \/ PollSend \/ PollFails \/ PollRecv \/ HsQuiet \/ HsGivesUp \/ Connected
            \/ (\E op \in Ops : Request(op)) \/ SendDone \/ SendFails \/ RequestTimeout
  BY <1>2, <1>16 DEF Ignore, PollSend, PollFails, PollRecv, HsQuiet, HsGivesUp, Connected, Request, SendDone,
                     SendFails, RequestTimeout, wire, device
<1> QED BY <1>6, <1>7, <1>8, <1>11, <1>12, <1>13, <1>14, <1>15, <1>16 DEF ConnNext

-----------------------------------------------------------------------------
(* The handshake is at the request its number says. *)
LEMMA StepAtKept ==
    ASSUME ConnTypeOK, StepAt, ConnNext
    PROVE  StepAt'
<1>1. ids \in Nat /\ seq \in 1..(Wrap - 1) /\ MaxRequests \in Nat
  BY ConnectionAssumption DEF ConnTypeOK, ConnectionAssumption
<1>2. ASSUME UNCHANGED <<hs, resp, seq, at, req, got, ids>>
      PROVE  StepAt'
  BY <1>2 DEF StepAt
<1>3. CASE PollSend
  <2>1. hs \in {"new", "hello", "query", "open", "auth"}
    BY <1>3 DEF PollSend, ConnTypeOK, StepAt, Steps
  <2>2. ids' = ids + 1 /\ at' = "drain" /\ got' = got /\ at = "poll"
    BY <1>3 DEF PollSend
  <2>3. CASE hs = "new"
    <3>1. NextStep = "hello"
      BY <2>3 DEF NextStep
    <3> QED BY <1>1, <1>3, <2>2, <2>3, <3>1 DEF PollSend, StepAt, Steps
  <2>4. CASE hs = "hello"
    <3>1. NextStep = "query"
      BY <2>4 DEF NextStep
    <3> QED BY <1>1, <1>3, <2>2, <2>4, <3>1 DEF PollSend, StepAt, Steps
  <2>5. CASE hs = "query"
    <3>1. NextStep = "open"
      BY <2>5 DEF NextStep
    <3> QED BY <1>1, <1>3, <2>2, <2>5, <3>1 DEF PollSend, StepAt, Steps
  <2>6. CASE hs = "open"
    <3>1. NextStep \in {"subscribe", "auth"}
      BY <2>6 DEF NextStep
    <3>2. hs' = IF NextStep = "subscribe" THEN "done" ELSE NextStep
      BY <1>3 DEF PollSend
    <3>3. hs' \in {"done", "auth"} /\ ids' = 4
      BY <1>1, <2>2, <2>6, <3>1, <3>2 DEF StepAt
    <3> QED BY <2>2, <3>3 DEF StepAt, Steps
  <2>7. CASE hs = "auth"
    <3>1. NextStep = "subscribe"
      BY <2>7 DEF NextStep
    <3>2. hs' = "done" /\ ids' = 5
      BY <1>1, <1>3, <2>2, <2>7, <3>1 DEF PollSend, StepAt
    <3> QED BY <2>2, <3>2 DEF StepAt, Steps
  <2> QED BY <2>1, <2>3, <2>4, <2>5, <2>6, <2>7
<1>4. CASE PollFails \/ HsGivesUp
  BY <1>4 DEF PollFails, HsGivesUp, StepAt, Steps
<1>5. CASE PollRecv \/ HsQuiet \/ HsDrain
  BY <1>5 DEF PollRecv, HsQuiet, HsDrain, StepAt, shake
<1>6. CASE Connected
  BY <1>6 DEF Connected, StepAt, shake, Steps
<1>7. CASE \E op \in Ops : Request(op)
  <2>1. PICK op \in Ops : Request(op)
    BY <1>7
  <2>2. /\ at = "ready" /\ ids < MaxRequests /\ ids' = ids + 1 /\ got' = NoFrame
        /\ at' \in {"sending", "waiting"} /\ hs' = hs
        /\ req' = [op |-> op, seq |-> seq, id |-> ids + 1]
    BY <2>1 DEF Request, shake
  <2>3. hs = "done" /\ ids >= 4
    BY <2>2 DEF StepAt, ConnTypeOK
  <2>4. req'.op \in Ops /\ req' # NoRequest
    BY <1>1, <2>2 DEF NoRequest
  <2> QED BY <1>1, <2>2, <2>3, <2>4 DEF StepAt, Steps
<1>8. CASE SendDone \/ SendFails \/ RequestTimeout \/ Matched
  BY <1>8 DEF SendDone, SendFails, RequestTimeout, Matched, StepAt, shake, Steps
<1>9. CASE \/ Serve \/ Ignore \/ SendGaze \/ Soak \/ NotMatched \/ NextGazeQueued \/ NextGazeRead
           \/ ReadNotifications
  BY <1>2, <1>9 DEF Serve, Ignore, SendGaze, Soak, NotMatched, NextGazeQueued, NextGazeRead, ReadNotifications,
                    shake, client
<1> QED BY <1>3, <1>4, <1>5, <1>6, <1>7, <1>8, <1>9 DEF ConnNext

-----------------------------------------------------------------------------
(* Where a frame on the way is after a chunk was read, or another was sent. *)
LEMMA FeedPlaces ==
    ASSUME ConnTypeOK, Unbroken, Feed
    PROVE  /\ \A i \in DOMAIN Frames : i \in DOMAIN OnTheWay /\ OnTheWay[i] = Frames[i]
           /\ \A i \in DOMAIN OnTheWay' :
                 Len(Frames) + i \in DOMAIN OnTheWay /\ OnTheWay[Len(Frames) + i] = OnTheWay'[i]
           /\ Len(Frames) \in Nat /\ DOMAIN Frames = 1..Len(Frames) /\ DOMAIN OnTheWay' \subseteq Nat \ {0}
<1>1. PICK a \in Seq(FrameType) : a = Frames
  BY FeedKeeps
<1>2. PICK b \in Seq(FrameType) : b = OnTheWay'
  BY FeedKeeps
<1>3. OnTheWay = a \o b
  BY <1>1, <1>2, FeedKeeps
<1>4. /\ a \o b \in Seq(FrameType) /\ Len(a \o b) = Len(a) + Len(b)
      /\ \A i \in 1..Len(a) + Len(b) : (a \o b)[i] = IF i <= Len(a) THEN a[i] ELSE b[i - Len(a)]
  BY ConcatProperties
<1>5. /\ Len(a) \in Nat /\ Len(b) \in Nat /\ DOMAIN a = 1..Len(a) /\ DOMAIN b = 1..Len(b)
      /\ DOMAIN (a \o b) = 1..(Len(a) + Len(b))
  BY <1>4, LenProperties
<1>6. \A i \in 1..Len(a) : i \in 1..(Len(a) + Len(b)) /\ (a \o b)[i] = a[i]
  BY <1>4, <1>5
<1>7. \A i \in 1..Len(b) : Len(a) + i \in 1..(Len(a) + Len(b)) /\ (a \o b)[Len(a) + i] = b[i]
  <2> TAKE i \in 1..Len(b)
  <2>1. Len(a) + i \in 1..(Len(a) + Len(b)) /\ ~(Len(a) + i <= Len(a)) /\ (Len(a) + i) - Len(a) = i
    BY <1>5
  <2> QED BY <1>4, <2>1
<1> QED BY <1>1, <1>2, <1>3, <1>5, <1>6, <1>7

LEMMA EmitPlaces ==
    ASSUME ConnTypeOK, Unbroken, NEW f \in FrameType, Emit(f), UNCHANGED <<pending, acc>>
    PROVE  /\ Len(OnTheWay) \in Nat /\ DOMAIN OnTheWay = 1..Len(OnTheWay)
           /\ DOMAIN OnTheWay' = 1..(Len(OnTheWay) + 1) /\ OnTheWay'[Len(OnTheWay) + 1] = f
           /\ \A i \in DOMAIN OnTheWay : OnTheWay'[i] = OnTheWay[i]
<1>1. PICK s \in Seq(FrameType) : s = OnTheWay
  BY IncomingType
<1>2. OnTheWay' = s \o <<f>>
  BY <1>1, EmitKeeps
<1>3. OnTheWay' = Append(s, f) /\ OnTheWay' \in Seq(FrameType)
  BY <1>2, AppendIsCat
<1> QED BY <1>1, <1>3, AppendProperties, LenProperties

-----------------------------------------------------------------------------
(* What was asked is numbered in order, and stays so when one more is asked. *)
AskedAt(m, n, s) ==
    /\ m.id \in 1..n
    /\ m.op \in Ops => m.id >= 4
    /\ LET d == n + 1 - m.id IN d <= Wrap - 1 => m.seq + d \in {s, s + Wrap - 1}

LEMMA AskedOn ==
    ASSUME NEW n \in Nat, NEW s \in 1..(Wrap - 1), NEW m, m.seq \in 0..(Wrap - 1), AskedAt(m, n, s)
    PROVE  AskedAt(m, n + 1, After(s))
<1>1. Wrap \in Nat /\ Wrap > 2
  BY ConnectionAssumption DEF ConnectionAssumption
<1>2. m.id \in 1..n /\ m.id \in 1..(n + 1) /\ (m.op \in Ops => m.id >= 4)
  BY DEF AskedAt
<1>3. PICK d \in Nat : d = n + 1 - m.id
  BY <1>2
<1>4. d <= Wrap - 1 => m.seq + d \in {s, s + Wrap - 1}
  BY <1>3 DEF AskedAt
<1>5. (n + 1) + 1 - m.id = d + 1
  BY <1>2, <1>3
<1>6. d + 1 <= Wrap - 1 => m.seq + (d + 1) \in {After(s), After(s) + Wrap - 1}
  <2>1. SUFFICES ASSUME d + 1 <= Wrap - 1
                 PROVE  m.seq + (d + 1) \in {After(s), After(s) + Wrap - 1}
    OBVIOUS
  <2>2. m.seq + d \in {s, s + Wrap - 1}
    BY <1>1, <1>4, <2>1
  <2>3. CASE s = Wrap - 1
    <3>1. After(s) = 1
      BY <2>3, AfterIs
    <3> QED BY <1>1, <2>1, <2>2, <2>3, <3>1
  <2>4. CASE s # Wrap - 1
    <3>1. After(s) = s + 1
      BY <2>4, AfterIs
    <3> QED BY <1>1, <2>2, <3>1
  <2> QED BY <2>3, <2>4
<1> QED BY <1>2, <1>5, <1>6 DEF AskedAt

LEMMA AskedNow ==
    ASSUME NEW n \in Nat, NEW s \in 1..(Wrap - 1), NEW op, op \in Ops => n + 1 >= 4
    PROVE  AskedAt([op |-> op, seq |-> s, id |-> n + 1], n + 1, After(s))
<1>1. Wrap \in Nat /\ Wrap > 2
  BY ConnectionAssumption DEF ConnectionAssumption
<1>2. s + 1 \in {After(s), After(s) + Wrap - 1}
  BY <1>1, AfterIs
<1>3. (n + 1) + 1 - (n + 1) = 1
  OBVIOUS
<1> QED BY <1>2, <1>3 DEF AskedAt

(* Two of one kind that differ are numbered differently. *)
LEMMA SameIsSame ==
    ASSUME NEW n \in Nat, n <= MaxRequests, NEW s \in 1..(Wrap - 1),
           NEW r, r.id = n, r.seq \in 0..(Wrap - 1), AskedAt(r, n, s),
           NEW m, AskedAt(m, n, s), m.op \in Ops, m.seq = r.seq
    PROVE  m.id = r.id
<1>1. Wrap \in Nat /\ Wrap > 2 /\ MaxRequests <= Wrap + 2 /\ MaxRequests \in Nat
  BY ConnectionAssumption DEF ConnectionAssumption
<1>2. m.id \in 1..n /\ m.id >= 4
  BY DEF AskedAt
<1>3. PICK d \in Nat : d = n + 1 - m.id
  BY <1>2
<1>4. d <= Wrap - 1 /\ d >= 1
  BY <1>1, <1>2, <1>3
<1>5. r.seq + d \in {s, s + Wrap - 1}
  BY <1>3, <1>4 DEF AskedAt
<1>6. r.seq + 1 \in {s, s + Wrap - 1}
  <2>1. n + 1 - r.id = 1
    OBVIOUS
  <2> QED BY <1>1, <2>1 DEF AskedAt
<1>7. d = 1
  BY <1>1, <1>4, <1>5, <1>6
<1> QED BY <1>2, <1>3, <1>7

-----------------------------------------------------------------------------
(* An answer on the way was there before, or answers the request the tracker  *)
(* has just taken; a request that has reached it was there, or is the latest. *)
LEMMA AnswersFrom ==
    ASSUME ConnTypeOK, Unbroken, ConnNext, NEW i \in DOMAIN OnTheWay', IsAnswer(OnTheWay'[i])
    PROVE  \/ \E j \in DOMAIN OnTheWay : OnTheWay[j] = OnTheWay'[i]
           \/ Serve /\ OnTheWay'[i] = Answer(Head(inbox))
<1>1. CASE OnTheWay' = OnTheWay
  BY <1>1
<1>2. CASE Feed
  BY <1>2, FeedPlaces
<1>3. CASE Serve
  <2>1. Answer(Head(inbox)) \in FrameType
    <3>1. Head(inbox) \in Requests
      BY <1>3 DEF Serve, ConnTypeOK
    <3> QED BY <3>1, AnswerType
  <2>2. Emit(Answer(Head(inbox))) /\ UNCHANGED <<pending, acc>>
    BY <1>3 DEF Serve, wire
  <2>3. /\ Len(OnTheWay) \in Nat /\ DOMAIN OnTheWay = 1..Len(OnTheWay)
        /\ DOMAIN OnTheWay' = 1..(Len(OnTheWay) + 1)
        /\ OnTheWay'[Len(OnTheWay) + 1] = Answer(Head(inbox))
        /\ \A k \in DOMAIN OnTheWay : OnTheWay'[k] = OnTheWay[k]
    BY <2>1, <2>2, EmitPlaces
  <2>4. i \in DOMAIN OnTheWay \/ i = Len(OnTheWay) + 1
    BY <2>3
  <2> QED BY <1>3, <2>3, <2>4
<1>4. CASE SendGaze
  <2>1. Gaze(sent') \in FrameType /\ ~IsAnswer(Gaze(sent'))
    BY <1>4, GazeType DEF SendGaze, ConnTypeOK, Gaze, IsAnswer
  <2>2. Emit(Gaze(sent')) /\ UNCHANGED <<pending, acc>>
    BY <1>4 DEF SendGaze, wire
  <2>3. /\ Len(OnTheWay) \in Nat /\ DOMAIN OnTheWay = 1..Len(OnTheWay)
        /\ DOMAIN OnTheWay' = 1..(Len(OnTheWay) + 1)
        /\ OnTheWay'[Len(OnTheWay) + 1] = Gaze(sent')
        /\ \A k \in DOMAIN OnTheWay : OnTheWay'[k] = OnTheWay[k]
    BY <2>1, <2>2, EmitPlaces
  <2>4. i \in DOMAIN OnTheWay
    BY <2>1, <2>3
  <2> QED BY <2>3, <2>4
<1>5. CASE Soak
  <2>1. OnTheWay' = OnTheWay
    BY <1>5, SoakKeeps DEF OnTheWay, Unpacked
  <2> QED BY <1>1, <2>1
<1>6. CASE UNCHANGED <<pending, bus>>
  <2>1. OnTheWay' = OnTheWay
    BY <1>6 DEF OnTheWay, Unpacked, Incoming
  <2> QED BY <1>1, <2>1
<1>7. CASE Ignore \/ PollSend \/ PollFails \/ PollRecv \/ HsQuiet \/ HsGivesUp \/ Connected
           \/ (\E op \in Ops : Request(op)) \/ SendDone \/ SendFails \/ RequestTimeout \/ NextGazeQueued
  BY <1>6, <1>7 DEF Ignore, PollSend, PollFails, PollRecv, HsQuiet, HsGivesUp, Connected, Request,
                    SendDone, SendFails, RequestTimeout, NextGazeQueued, wire, device
<1>8. CASE HsDrain \/ Matched \/ NotMatched \/ NextGazeRead \/ ReadNotifications
  BY <1>2, <1>8 DEF HsDrain, Matched, NotMatched, NextGazeRead, ReadNotifications
<1> QED BY <1>3, <1>4, <1>5, <1>7, <1>8 DEF ConnNext

LEMMA RequestsFrom ==
    ASSUME ConnTypeOK, StepAt, ConnNext, NEW i \in DOMAIN inbox'
    PROVE  \/ \E j \in DOMAIN inbox : inbox[j] = inbox'[i]
           \/ inbox'[i] = req' /\ ids' > 0
<1>1. inbox \in Seq(Requests) /\ ids \in Nat
  BY DEF ConnTypeOK
<1>2. CASE inbox' = inbox
  BY <1>2
<1>3. CASE inbox # <<>> /\ inbox' = Tail(inbox)
  <2>1. \A k \in DOMAIN Tail(inbox) : k + 1 \in DOMAIN inbox /\ Tail(inbox)[k] = inbox[k + 1]
    BY <1>1, <1>3
  <2> QED BY <1>3, <2>1
<1>4. ASSUME NEW r \in Requests, inbox' = Append(inbox, r), r = req', ids' > 0
      PROVE  \/ \E j \in DOMAIN inbox : inbox[j] = inbox'[i]
             \/ inbox'[i] = req' /\ ids' > 0
  <2>1. /\ DOMAIN inbox = 1..Len(inbox) /\ Len(inbox) \in Nat
        /\ DOMAIN Append(inbox, r) = 1..(Len(inbox) + 1)
        /\ \A k \in 1..Len(inbox) : Append(inbox, r)[k] = inbox[k]
        /\ Append(inbox, r)[Len(inbox) + 1] = r
    BY <1>1, AppendProperties, LenProperties
  <2>2. i \in 1..Len(inbox) \/ i = Len(inbox) + 1
    BY <1>4, <2>1
  <2> QED BY <1>4, <2>1, <2>2
<1>5. CASE Serve \/ Ignore
  BY <1>3, <1>5 DEF Serve, Ignore
<1>6. CASE PollSend
  <2>1. hs \in {"new", "hello", "query", "open", "auth"}
    BY <1>6 DEF PollSend, ConnTypeOK, StepAt, Steps
  <2>2. NextStep \in Steps
    BY <2>1 DEF NextStep, Steps
  <2>3. req' \in Requests /\ inbox' = Append(inbox, req') /\ ids' > 0
    BY <1>1, <1>6, <2>2 DEF PollSend, ConnTypeOK, Requests, Kinds
  <2> QED BY <1>4, <2>3
<1>7. CASE \E op \in Ops : Request(op)
  <2>1. PICK op \in Ops : Request(op)
    BY <1>7
  <2>2. req' \in Requests /\ ids' > 0
    BY <1>1, <2>1, SMTT(20) DEF Request, ConnTypeOK, Requests, Kinds
  <2>3. inbox' = inbox \/ inbox' = Append(inbox, req')
    BY <2>1 DEF Request, Arrive
  <2> QED BY <1>2, <1>4, <2>2, <2>3
<1>8. CASE SendDone
  <2>1. req' = req /\ req \in Requests
    BY <1>8 DEF SendDone, StepAt, ConnTypeOK
  <2>2. hs = "done" /\ ids >= 4 /\ ids' = ids
    BY <1>8 DEF SendDone, StepAt, ConnTypeOK
  <2>3. inbox' = inbox \/ inbox' = Append(inbox, req)
    BY <1>8 DEF SendDone, Arrive
  <2>4. ids' > 0
    BY <1>1, <2>2
  <2> QED BY <1>2, <1>4, <2>1, <2>3, <2>4
<1>9. CASE \/ SendGaze \/ PollFails \/ PollRecv \/ HsDrain \/ HsQuiet \/ HsGivesUp \/ Connected \/ Soak
           \/ SendFails \/ Matched \/ NotMatched \/ RequestTimeout \/ NextGazeQueued \/ NextGazeRead
           \/ ReadNotifications
  BY <1>2, <1>9 DEF SendGaze, PollFails, PollRecv, HsDrain, HsQuiet, HsGivesUp, Connected, Soak, SendFails,
                    Matched, NotMatched, RequestTimeout, NextGazeQueued, NextGazeRead, ReadNotifications, device
<1> QED BY <1>5, <1>6, <1>7, <1>8, <1>9 DEF ConnNext

(* The number of the next request moves with the requests made. *)
LEMMA NumbersMove ==
    ASSUME ConnTypeOK, StepAt, ConnNext
    PROVE  \/ UNCHANGED <<ids, seq, req>>
           \/ /\ ids' = ids + 1 /\ seq' = After(seq)
              /\ \E op : /\ req' = [op |-> op, seq |-> seq, id |-> ids + 1]
                         /\ op \in Ops => ids + 1 >= 4
<1>1. ids \in Nat
  BY DEF ConnTypeOK
<1>2. CASE PollSend
  <2>1. hs \in {"new", "hello", "query", "open", "auth"}
    BY <1>2 DEF PollSend, ConnTypeOK, StepAt, Steps
  <2>2. NextStep \in Ops => ids + 1 >= 4
    <3>1. SUFFICES ASSUME NextStep \in Ops
                   PROVE  ids + 1 >= 4
      OBVIOUS
    <3>2. NextStep = "subscribe"
      <4>1. NextStep \in Steps
        BY <2>1 DEF NextStep, Steps
      <4> QED BY <3>1, <4>1, ConnectionAssumption DEF ConnectionAssumption
    <3>3. hs \in {"open", "auth"}
      BY <2>1, <3>2 DEF NextStep
    <3> QED BY <1>1, <3>3 DEF StepAt
  <2> QED BY <1>2, <2>2 DEF PollSend
<1>3. CASE \E op \in Ops : Request(op)
  <2>1. PICK op \in Ops : Request(op)
    BY <1>3
  <2>2. hs = "done" /\ ids >= 4
    BY <2>1 DEF Request, StepAt, ConnTypeOK
  <2> QED BY <1>1, <2>1, <2>2 DEF Request
<1>4. CASE \/ Serve \/ Ignore \/ SendGaze \/ PollFails \/ PollRecv \/ HsDrain \/ HsQuiet \/ HsGivesUp \/ Connected
           \/ Soak \/ SendDone \/ SendFails \/ Matched \/ NotMatched \/ RequestTimeout
           \/ NextGazeQueued \/ NextGazeRead \/ ReadNotifications
  BY <1>4 DEF Serve, Ignore, SendGaze, PollFails, PollRecv, HsDrain, HsQuiet, HsGivesUp, Connected, Soak,
              SendDone, SendFails, Matched, NotMatched, RequestTimeout, NextGazeQueued, NextGazeRead,
              ReadNotifications, client
<1> QED BY <1>2, <1>3, <1>4 DEF ConnNext

LEMMA NumberedKept ==
    ASSUME ConnTypeOK, Unbroken, StepAt, Numbered, ConnNext
    PROVE  Numbered'
<1>1. ids \in Nat /\ seq \in 1..(Wrap - 1) /\ Wrap \in Nat
  BY ConnectionAssumption DEF ConnTypeOK, ConnectionAssumption
<1>2. ASSUME NEW m, m.seq \in 0..(Wrap - 1), AskedAt(m, ids, seq)
      PROVE  AskedAt(m, ids', seq')
  <2>1. CASE UNCHANGED <<ids, seq, req>>
    BY <1>2, <2>1
  <2>2. CASE ids' = ids + 1 /\ seq' = After(seq)
    BY <1>1, <1>2, <2>2, AskedOn
  <2> QED BY <2>1, <2>2, NumbersMove
<1>3. ids' > 0 => req'.id = ids' /\ AskedAt(req', ids', seq')
  <2>1. CASE UNCHANGED <<ids, seq, req>>
    BY <2>1 DEF Numbered, Asked, AskedAt
  <2>2. ASSUME ids' = ids + 1, seq' = After(seq), NEW op, op \in Ops => ids + 1 >= 4,
               req' = [op |-> op, seq |-> seq, id |-> ids + 1]
        PROVE  req'.id = ids' /\ AskedAt(req', ids', seq')
    BY <1>1, <2>2, AskedNow
  <2> QED BY <2>1, <2>2, NumbersMove
<1>4. ASSUME NEW i \in DOMAIN inbox'
      PROVE  AskedAt(inbox'[i], ids', seq')
  <2>1. CASE \E j \in DOMAIN inbox : inbox[j] = inbox'[i]
    <3>1. PICK j \in DOMAIN inbox : inbox[j] = inbox'[i]
      BY <2>1
    <3>2. inbox[j] \in Requests
      BY DEF ConnTypeOK
    <3>3. inbox[j].seq \in 0..(Wrap - 1)
      BY <1>1, <3>2 DEF Requests
    <3>4. AskedAt(inbox[j], ids, seq)
      BY DEF Numbered, Asked, AskedAt
    <3> QED BY <1>2, <3>1, <3>3, <3>4
  <2>2. CASE inbox'[i] = req' /\ ids' > 0
    BY <1>3, <2>2
  <2> QED BY <2>1, <2>2, RequestsFrom
<1>5. ASSUME NEW i \in DOMAIN OnTheWay', IsAnswer(OnTheWay'[i])
      PROVE  AskedAt(OnTheWay'[i], ids', seq')
  <2>1. CASE \E j \in DOMAIN OnTheWay : OnTheWay[j] = OnTheWay'[i]
    <3>1. PICK j \in DOMAIN OnTheWay : OnTheWay[j] = OnTheWay'[i]
      BY <2>1
    <3>2. OnTheWay[j] \in FrameType
      BY IncomingType
    <3>3. OnTheWay[j].seq \in 0..(Wrap - 1)
      BY <3>2 DEF FrameType
    <3>4. AskedAt(OnTheWay[j], ids, seq)
      BY <1>5, <3>1 DEF Numbered, Asked, AskedAt
    <3> QED BY <1>2, <3>1, <3>3, <3>4
  <2>2. CASE Serve /\ OnTheWay'[i] = Answer(Head(inbox))
    <3>1. inbox # <<>> /\ inbox \in Seq(Requests)
      BY <2>2 DEF Serve, ConnTypeOK
    <3>2. 1 \in DOMAIN inbox /\ Head(inbox) = inbox[1] /\ inbox[1] \in Requests
      BY <3>1
    <3>3. AskedAt(inbox[1], ids, seq)
      BY <3>2 DEF Numbered, Asked, AskedAt
    <3>4. AskedAt(inbox[1], ids', seq')
      <4>1. inbox[1].seq \in 0..(Wrap - 1)
        BY <1>1, <3>2 DEF Requests
      <4> QED BY <1>2, <3>3, <4>1
    <3> QED BY <2>2, <3>2, <3>4 DEF Answer, AskedAt
  <2> QED BY <1>5, <2>1, <2>2, AnswersFrom
<1> QED BY <1>3, <1>4, <1>5 DEF Numbered, Asked, AskedAt

-----------------------------------------------------------------------------
(* During the handshake one request, or its answer, exists at a time. *)
Expecting == hs \in Steps \cup {"new"}
NoAnswers == \A i \in DOMAIN OnTheWay : ~IsAnswer(OnTheWay[i])

LEMMA OneAskedIs ==
    OneAsked <=>
      /\ hs = "new" => resp = NoFrame
      /\ Expecting =>
           /\ resp # NoFrame => inbox = <<>> /\ NoAnswers
           /\ inbox # <<>> => NoAnswers /\ Len(inbox) = 1 /\ inbox[1].id = req.id
           /\ \A i, j \in DOMAIN OnTheWay :
                IsAnswer(OnTheWay[i]) => /\ OnTheWay[i].id = req.id
                                         /\ IsAnswer(OnTheWay[j]) => i = j
BY DEF OneAsked, Expecting, NoAnswers

LEMMA NothingAsked ==
    ASSUME ConnTypeOK, StepAt, OneAsked, Numbered, hs = "new"
    PROVE  inbox = <<>> /\ NoAnswers /\ resp = NoFrame
<1>1. ids = 0
  BY DEF StepAt
<1>2. \A m : ~Asked(m)
  BY <1>1 DEF Asked
<1>3. inbox = <<>>
  <2>1. inbox \in Seq(Requests)
    BY DEF ConnTypeOK
  <2>2. inbox # <<>> => 1 \in DOMAIN inbox
    BY <2>1
  <2> QED BY <1>2, <2>2 DEF Numbered
<1>4. NoAnswers
  BY <1>2 DEF Numbered, NoAnswers
<1> QED BY <1>3, <1>4 DEF OneAsked

LEMMA OneAskedKept ==
    ASSUME ConnTypeOK, Unbroken, StepAt, OneAsked, Numbered, ConnNext
    PROVE  OneAsked'
<1>1. /\ hs = "new" => resp = NoFrame
      /\ Expecting =>
           /\ resp # NoFrame => inbox = <<>> /\ NoAnswers
           /\ inbox # <<>> => NoAnswers /\ Len(inbox) = 1 /\ inbox[1].id = req.id
           /\ \A i, j \in DOMAIN OnTheWay :
                IsAnswer(OnTheWay[i]) => /\ OnTheWay[i].id = req.id
                                         /\ IsAnswer(OnTheWay[j]) => i = j
  BY OneAskedIs
<1>2. SUFFICES
        /\ hs' = "new" => resp' = NoFrame
        /\ Expecting' =>
             /\ resp' # NoFrame => inbox' = <<>> /\ NoAnswers'
             /\ inbox' # <<>> => NoAnswers' /\ Len(inbox') = 1 /\ inbox'[1].id = req'.id
             /\ \A i, j \in DOMAIN OnTheWay' :
                  IsAnswer(OnTheWay'[i]) => /\ OnTheWay'[i].id = req'.id
                                            /\ IsAnswer(OnTheWay'[j]) => i = j
  BY DEF OneAsked, Expecting, NoAnswers, IsAnswer
<1>3. inbox \in Seq(Requests) /\ OnTheWay \in Seq(FrameType)
  BY IncomingType DEF ConnTypeOK
<1>4. ASSUME ~Expecting'
      PROVE  hs' # "new"
  BY <1>4 DEF Expecting
<1>5. ASSUME UNCHANGED <<hs, resp, inbox, req>>, OnTheWay' = OnTheWay
      PROVE  NoAnswers' = NoAnswers /\ Expecting' = Expecting
  BY <1>5 DEF NoAnswers, Expecting, IsAnswer
<1>6. CASE Serve
  <2>1. /\ inbox # <<>> /\ inbox' = Tail(inbox) /\ UNCHANGED <<hs, resp, req>>
        /\ Emit(Answer(Head(inbox))) /\ UNCHANGED <<pending, acc>>
    BY <1>6 DEF Serve, shake, client, wire
  <2>2. Head(inbox) \in Requests /\ Head(inbox) = inbox[1]
    BY <1>3, <2>1
  <2>3. Answer(Head(inbox)) \in FrameType /\ Answer(Head(inbox)).id = inbox[1].id
    BY <2>2, AnswerType DEF Answer
  <2>4. /\ Len(OnTheWay) \in Nat /\ DOMAIN OnTheWay = 1..Len(OnTheWay)
        /\ DOMAIN OnTheWay' = 1..(Len(OnTheWay) + 1)
        /\ OnTheWay'[Len(OnTheWay) + 1] = Answer(Head(inbox))
        /\ \A k \in DOMAIN OnTheWay : OnTheWay'[k] = OnTheWay[k]
    BY <2>1, <2>3, EmitPlaces
  <2>5. ASSUME Expecting
        PROVE  /\ resp' = NoFrame /\ inbox' = <<>>
               /\ \A i \in DOMAIN OnTheWay' : IsAnswer(OnTheWay'[i]) => i = Len(OnTheWay) + 1
               /\ OnTheWay'[Len(OnTheWay) + 1].id = req'.id
    <3>1. resp = NoFrame /\ NoAnswers /\ Len(inbox) = 1 /\ inbox[1].id = req.id
      BY <1>1, <2>1, <2>5
    <3>2. inbox' = <<>>
      BY <1>3, <2>1, <3>1
    <3>3. \A i \in DOMAIN OnTheWay' : IsAnswer(OnTheWay'[i]) => i = Len(OnTheWay) + 1
      <4> TAKE i \in DOMAIN OnTheWay'
      <4>1. i \in DOMAIN OnTheWay \/ i = Len(OnTheWay) + 1
        BY <2>4
      <4> QED BY <2>4, <3>1, <4>1 DEF NoAnswers
    <3> QED BY <2>1, <2>3, <2>4, <3>1, <3>2, <3>3
  <2>6. Expecting' = Expecting
    BY <2>1 DEF Expecting
  <2> QED BY <1>1, <2>1, <2>5, <2>6
<1>7. CASE Ignore
  <2>1. inbox # <<>> /\ inbox' = Tail(inbox) /\ UNCHANGED <<hs, resp, req, pending, bus>>
    BY <1>7 DEF Ignore, shake, client, wire
  <2>2. OnTheWay' = OnTheWay /\ Expecting' = Expecting /\ NoAnswers' = NoAnswers
    BY <2>1 DEF OnTheWay, Unpacked, Incoming, Expecting, NoAnswers, IsAnswer
  <2>3. Expecting => inbox' = <<>> /\ NoAnswers /\ resp = NoFrame
    BY <1>1, <1>3, <2>1
  <2> QED BY <1>1, <2>1, <2>2, <2>3
<1>8. CASE SendGaze
  <2>1. Gaze(sent') \in FrameType /\ ~IsAnswer(Gaze(sent'))
    BY <1>8, GazeType DEF SendGaze, ConnTypeOK, Gaze, IsAnswer
  <2>2. Emit(Gaze(sent')) /\ UNCHANGED <<pending, acc, hs, resp, req, inbox>>
    BY <1>8 DEF SendGaze, wire, shake, client
  <2>3. /\ Len(OnTheWay) \in Nat /\ DOMAIN OnTheWay = 1..Len(OnTheWay)
        /\ DOMAIN OnTheWay' = 1..(Len(OnTheWay) + 1)
        /\ OnTheWay'[Len(OnTheWay) + 1] = Gaze(sent')
        /\ \A k \in DOMAIN OnTheWay : OnTheWay'[k] = OnTheWay[k]
    BY <2>1, <2>2, EmitPlaces
  <2>4. \A i \in DOMAIN OnTheWay' :
          IsAnswer(OnTheWay'[i]) => i \in DOMAIN OnTheWay /\ OnTheWay'[i] = OnTheWay[i]
    BY <2>1, <2>3
  <2>5. NoAnswers => NoAnswers'
    BY <2>4 DEF NoAnswers, IsAnswer
  <2>6. Expecting' = Expecting
    BY <2>2 DEF Expecting
  <2> QED BY <1>1, <2>2, <2>4, <2>5, <2>6
<1>9. CASE PollSend
  <2>1. /\ hs' = (IF NextStep = "subscribe" THEN "done" ELSE NextStep)
        /\ resp' = (IF NextStep = "subscribe" THEN resp ELSE NoFrame)
        /\ inbox' = Append(inbox, req') /\ req'.id = ids + 1 /\ UNCHANGED <<pending, bus>>
        /\ Answered
    BY <1>9 DEF PollSend, wire
  <2>2. hs \in {"new", "hello", "query", "open", "auth"}
    BY <1>9 DEF PollSend, ConnTypeOK, StepAt, Steps
  <2>3. NextStep \in Steps
    BY <2>2 DEF NextStep, Steps
  <2>4. CASE NextStep = "subscribe"
    BY <2>1, <2>4 DEF Expecting, Steps
  <2>5. CASE NextStep # "subscribe"
    <3>1. inbox = <<>> /\ NoAnswers
      <4>1. CASE hs = "new"
        BY <4>1, NothingAsked
      <4>2. CASE resp # NoFrame
        <5>1. Expecting
          BY <2>2 DEF Expecting, Steps
        <5> QED BY <1>1, <4>2, <5>1
      <4> QED BY <2>1, <4>1, <4>2 DEF Answered
    <3>2. OnTheWay' = OnTheWay /\ NoAnswers'
      BY <2>1, <3>1 DEF OnTheWay, Unpacked, Incoming, NoAnswers, IsAnswer
    <3>3. resp' = NoFrame /\ hs' # "new"
      BY <2>1, <2>3, <2>5 DEF Steps
    <3>4. Len(inbox') = 1 /\ inbox'[1] = req'
      BY <2>1, <3>1
    <3> QED BY <3>1, <3>2, <3>3, <3>4 DEF NoAnswers
  <2> QED BY <2>4, <2>5
<1>10. CASE PollFails \/ HsGivesUp
  BY <1>10 DEF PollFails, HsGivesUp, Expecting, Steps
<1>11. CASE PollRecv \/ HsQuiet \/ Connected
  <2>1. UNCHANGED <<hs, resp, inbox, req, pending, bus>>
    BY <1>11 DEF PollRecv, HsQuiet, Connected, shake, device, wire
  <2>2. OnTheWay' = OnTheWay
    BY <2>1 DEF OnTheWay, Unpacked, Incoming
  <2> QED BY <1>1, <1>5, <2>1, <2>2
<1>12. CASE HsDrain
  <2>1. Feed /\ UNCHANGED <<hs, inbox, req>>
    BY <1>12 DEF HsDrain
  <2>2. /\ \A i \in DOMAIN Frames : i \in DOMAIN OnTheWay /\ OnTheWay[i] = Frames[i]
        /\ \A i \in DOMAIN OnTheWay' :
              Len(Frames) + i \in DOMAIN OnTheWay /\ OnTheWay[Len(Frames) + i] = OnTheWay'[i]
        /\ Len(Frames) \in Nat /\ DOMAIN Frames = 1..Len(Frames) /\ DOMAIN OnTheWay' \subseteq Nat \ {0}
    BY <2>1, FeedPlaces
  <2>3. NoAnswers => NoAnswers'
    BY <2>2 DEF NoAnswers, IsAnswer
  <2>4. Expecting' = Expecting
    BY <2>1 DEF Expecting
  <2>5. CASE resp' = resp
    <3>1. Expecting => \A i, j \in DOMAIN OnTheWay' :
            IsAnswer(OnTheWay'[i]) => /\ OnTheWay'[i].id = req'.id
                                      /\ IsAnswer(OnTheWay'[j]) => i = j
      <4>1. SUFFICES ASSUME Expecting, NEW i \in DOMAIN OnTheWay', NEW j \in DOMAIN OnTheWay',
                            IsAnswer(OnTheWay'[i])
                     PROVE  OnTheWay'[i].id = req'.id /\ (IsAnswer(OnTheWay'[j]) => i = j)
        OBVIOUS
      <4>2. /\ Len(Frames) + i \in DOMAIN OnTheWay /\ OnTheWay[Len(Frames) + i] = OnTheWay'[i]
            /\ Len(Frames) + j \in DOMAIN OnTheWay /\ OnTheWay[Len(Frames) + j] = OnTheWay'[j]
            /\ i \in Nat /\ j \in Nat
        BY <2>2
      <4>3. OnTheWay[Len(Frames) + i].id = req.id
        BY <1>1, <4>1, <4>2
      <4>4. IsAnswer(OnTheWay'[j]) => Len(Frames) + i = Len(Frames) + j
        BY <1>1, <4>1, <4>2
      <4> QED BY <2>1, <2>2, <4>2, <4>3, <4>4
    <3> QED BY <1>1, <2>1, <2>3, <2>4, <2>5, <3>1
  <2>6. ASSUME NEW k \in DOMAIN Frames, IsAnswer(Frames[k]), resp' = Frames[k]
        PROVE  /\ hs' # "new"
               /\ Expecting => inbox' = <<>> /\ NoAnswers'
    <3>1. k \in DOMAIN OnTheWay /\ IsAnswer(OnTheWay[k]) /\ k \in 1..Len(Frames)
      BY <2>2, <2>6
    <3>2. hs # "new"
      BY <3>1, NothingAsked DEF NoAnswers
    <3>3. ASSUME Expecting PROVE inbox = <<>> /\ NoAnswers'
      <4>1. inbox = <<>>
        BY <1>1, <3>1, <3>3 DEF NoAnswers
      <4>2. ASSUME NEW i \in DOMAIN OnTheWay', IsAnswer(OnTheWay'[i]) PROVE FALSE
        <5>1. Len(Frames) + i \in DOMAIN OnTheWay /\ IsAnswer(OnTheWay[Len(Frames) + i]) /\ i \in Nat \ {0}
          BY <2>2, <4>2
        <5>2. k = Len(Frames) + i
          BY <1>1, <3>1, <3>3, <5>1
        <5> QED BY <2>2, <3>1, <5>1, <5>2
      <4> QED BY <4>1, <4>2 DEF NoAnswers, IsAnswer
    <3> QED BY <2>1, <3>2, <3>3
  <2>7. resp' = resp \/ \E k \in DOMAIN Frames : IsAnswer(Frames[k]) /\ resp' = Frames[k]
    BY <1>12 DEF HsDrain
  <2>8. CASE \E k \in DOMAIN Frames : IsAnswer(Frames[k]) /\ resp' = Frames[k]
    BY <2>4, <2>6, <2>8 DEF NoAnswers, IsAnswer
  <2> QED BY <2>5, <2>7, <2>8
<1>13. CASE \/ (\E op \in Ops : Request(op)) \/ Soak \/ SendDone \/ SendFails \/ Matched \/ NotMatched
            \/ RequestTimeout \/ NextGazeQueued \/ NextGazeRead \/ ReadNotifications
  <2>1. at \in {"ready", "sending", "waiting"} /\ hs' = hs
    BY <1>13 DEF Request, Soak, SendDone, SendFails, Matched, NotMatched, RequestTimeout, NextGazeQueued,
                 NextGazeRead, ReadNotifications, shake
  <2>2. ~Expecting
    BY <2>1 DEF StepAt, Expecting
  <2> QED BY <2>1, <2>2 DEF Expecting
<1> QED BY <1>6, <1>7, <1>8, <1>9, <1>10, <1>11, <1>12, <1>13 DEF ConnNext

-----------------------------------------------------------------------------
(* An answer is the answer of the request it is taken for. *)
LEMMA MatchedIsOwn ==
    ASSUME ConnTypeOK, Unbroken, StepAt, Numbered, Matched,
           NEW i \in DOMAIN Frames, Matches(Frames[i])
    PROVE  Frames[i].id = req.id
<1>1. /\ ids \in Nat /\ seq \in 1..(Wrap - 1) /\ Wrap \in Nat /\ ids <= MaxRequests
      /\ hs = "done" /\ ids >= 4 /\ req.op \in Ops /\ req \in Requests
  BY ConnectionAssumption DEF Matched, StepAt, ConnTypeOK, ConnectionAssumption
<1>2. req.id = ids /\ AskedAt(req, ids, seq) /\ req.seq \in 0..(Wrap - 1)
  <2>1. ids > 0
    BY <1>1
  <2>2. req.seq \in 0..(Wrap - 1)
    BY <1>1 DEF Requests
  <2> QED BY <2>1, <2>2 DEF Numbered, Asked, AskedAt
<1>3. i \in DOMAIN OnTheWay /\ OnTheWay[i] = Frames[i]
  BY FeedPlaces DEF Matched
<1>4. AskedAt(Frames[i], ids, seq)
  <2>1. IsAnswer(Frames[i])
    BY DEF Matches, IsAnswer
  <2> QED BY <1>3, <2>1 DEF Numbered, Asked, AskedAt
<1>5. Frames[i].op \in Ops /\ Frames[i].seq = req.seq
  BY <1>1 DEF Matches
<1> QED BY <1>1, <1>2, <1>4, <1>5, SameIsSame

LEMMA OwnAnswerKept ==
    ASSUME ConnTypeOK, Unbroken, StepAt, OneAsked, Numbered, OwnAnswer, ConnNext
    PROVE  OwnAnswer'
<1>1. ASSUME UNCHANGED <<got, req, hs, resp>>
      PROVE  OwnAnswer'
  BY <1>1 DEF OwnAnswer
<1>2. CASE PollSend
  <2>1. got = NoFrame /\ got' = got
    BY <1>2 DEF PollSend, StepAt
  <2>2. hs' = "done" \/ resp' = NoFrame
    BY <1>2 DEF PollSend
  <2> QED BY <2>1, <2>2 DEF OwnAnswer, Steps
<1>3. CASE PollFails \/ HsGivesUp
  BY <1>3 DEF PollFails, HsGivesUp, OwnAnswer, Steps
<1>4. CASE HsDrain
  <2>1. Feed /\ UNCHANGED <<hs, req, got>>
    BY <1>4 DEF HsDrain
  <2>2. CASE resp' = resp
    BY <1>1, <2>1, <2>2
  <2>3. ASSUME NEW k \in DOMAIN Frames, IsAnswer(Frames[k]), resp' = Frames[k], hs \in Steps
        PROVE  resp'.id = req'.id
    <3>1. k \in DOMAIN OnTheWay /\ OnTheWay[k] = Frames[k]
      BY <2>1, FeedPlaces
    <3>2. OnTheWay[k].id = req.id
      BY <2>3, <3>1, OneAskedIs DEF Expecting
    <3> QED BY <2>1, <2>3, <3>1, <3>2
  <2>4. resp' = resp \/ \E k \in DOMAIN Frames : IsAnswer(Frames[k]) /\ resp' = Frames[k]
    BY <1>4 DEF HsDrain
  <2> QED BY <2>1, <2>2, <2>3, <2>4 DEF OwnAnswer
<1>5. CASE \E op \in Ops : Request(op)
  <2>1. at = "ready" /\ got' = NoFrame /\ hs' = hs
    BY <1>5 DEF Request, shake
  <2>2. hs \notin Steps
    BY <2>1 DEF StepAt
  <2> QED BY <2>1, <2>2 DEF OwnAnswer
<1>6. CASE Matched
  <2>1. PICK i \in DOMAIN Frames : Matches(Frames[i]) /\ got' = Frames[i]
    BY <1>6 DEF Matched
  <2>2. Frames[i].id = req.id
    BY <1>6, <2>1, MatchedIsOwn
  <2>3. UNCHANGED <<hs, resp, req>>
    BY <1>6 DEF Matched, shake
  <2> QED BY <2>1, <2>2, <2>3 DEF OwnAnswer
<1>7. CASE \/ Serve \/ Ignore \/ SendGaze \/ PollRecv \/ HsQuiet \/ Connected \/ Soak \/ SendDone \/ SendFails
           \/ NotMatched \/ RequestTimeout \/ NextGazeQueued \/ NextGazeRead \/ ReadNotifications
  BY <1>1, <1>7 DEF Serve, Ignore, SendGaze, PollRecv, HsQuiet, Connected, Soak, SendDone, SendFails, NotMatched,
                    RequestTimeout, NextGazeQueued, NextGazeRead, ReadNotifications, client, shake
<1> QED BY <1>2, <1>3, <1>4, <1>5, <1>6, <1>7 DEF ConnNext

-----------------------------------------------------------------------------
LEMMA ConnInvInit == ConnInit => ConnInv
<1> SUFFICES ASSUME ConnInit PROVE ConnInv
  OBVIOUS
<1> USE DEF ConnInit
<1>1. Incoming = <<>> /\ OnTheWay = <<>> /\ Samples(OnTheWay) = <<>>
  BY UnpackedNone, SamplesNone DEF Incoming, OnTheWay
<1>2. ConnTypeOK
  <2>1. PICK type \in {0, 1} :
          realm = [type |-> type, open |-> FALSE, authorised |-> FALSE, streaming |-> FALSE]
    OBVIOUS
  <2>2. realm \in [type : {0, 1}, open : BOOLEAN, authorised : BOOLEAN, streaming : BOOLEAN]
    BY <2>1
  <2>3. /\ inbox \in Seq(Requests) /\ bus \in Seq(Transfers) /\ pending \in Seq(Transfers)
        /\ gaze_queue \in Seq(Nat) /\ delivered \in Seq(Nat)
    BY EmptySeq
  <2>4. Len(pending) <= SoakCap
    BY ConnectionAssumption DEF ConnectionAssumption
  <2>5. seq \in 1..(Wrap - 1) /\ sent \in 0..MaxGaze /\ ids \in Nat
    BY ConnectionAssumption DEF ConnectionAssumption
  <2> QED BY <2>2, <2>3, <2>4, <2>5 DEF ConnTypeOK
<1>3. GazeKept
  <2>1. [i \in 1..0 |-> i] = <<>>
    OBVIOUS
  <2> QED BY <1>1, <2>1 DEF GazeKept
<1>4. Framing /\ OwnAnswer
  BY DEF Framing, OwnAnswer
<1>5. Unbroken
  BY <1>1 DEF Unbroken, Chained
<1>6. StepAt
  BY DEF StepAt, Steps
<1>7. OneAsked
  BY <1>1 DEF OneAsked
<1>8. Numbered
  BY <1>1 DEF Numbered
<1> QED BY <1>2, <1>3, <1>4, <1>5, <1>6, <1>7, <1>8 DEF ConnInv, StreamIsKept

LEMMA ConnInvNext == ConnInv /\ [ConnNext]_connVars => ConnInv'
<1> SUFFICES ASSUME ConnInv, [ConnNext]_connVars PROVE ConnInv'
  OBVIOUS
<1>1. ConnTypeOK /\ Framing /\ GazeKept /\ OwnAnswer /\ Unbroken /\ StepAt /\ OneAsked /\ Numbered
  BY DEF ConnInv, StreamIsKept
<1>2. CASE ConnNext
  <2>1. ConnTypeOK' /\ StepAt'
    BY <1>1, <1>2, ConnTypeKept, StepAtKept
  <2>2. Unbroken' /\ Framing'
    BY <1>1, <1>2, WireKept DEF WireKeeps, Framing
  <2>3. GazeKept'
    BY <1>1, <1>2, GazeKeptBy
  <2>4. Numbered'
    BY <1>1, <1>2, NumberedKept
  <2>5. OneAsked'
    BY <1>1, <1>2, OneAskedKept
  <2>6. OwnAnswer'
    BY <1>1, <1>2, OwnAnswerKept
  <2> QED BY <2>1, <2>2, <2>3, <2>4, <2>5, <2>6 DEF ConnInv, StreamIsKept
<1>3. CASE UNCHANGED connVars
  <2>1. UNCHANGED <<realm, inbox, partial, bus, sent, pending, acc, desync, hs, resp, realm_type, seq,
                    at, req, got, ids, gaze_queue, delivered, by_queue>>
    BY <1>3 DEF connVars, device, wire, shake, client, gaze
  <2>2. ConnTypeOK' /\ Framing' /\ OwnAnswer' /\ StepAt'
    BY <1>1, <2>1 DEF ConnTypeOK, Framing, OwnAnswer, StepAt
  <2>3. GazeKept' /\ Unbroken'
    BY <1>1, <2>1 DEF GazeKept, Unbroken, Chained, OnTheWay, Unpacked, Incoming, Samples
  <2>4. OneAsked' /\ Numbered'
    <3>1. OnTheWay' = OnTheWay
      BY <2>1 DEF OnTheWay, Unpacked, Incoming
    <3>2. OneAsked'
      BY <1>1, <2>1, <3>1 DEF OneAsked
    <3>3. \A m : Asked(m)' <=> Asked(m)
      BY <2>1 DEF Asked
    <3>4. Numbered'
      BY <1>1, <2>1, <3>1, <3>3 DEF Numbered
    <3> QED BY <3>2, <3>4
  <2> QED BY <2>2, <2>3, <2>4 DEF ConnInv, StreamIsKept
<1> QED BY <1>2, <1>3

(* The inductive invariant, for every number of requests, samples and soaked  *)
(* transfers.                                                                 *)
THEOREM ConnInvHolds == ConnSpec => []ConnInv
<1>1. ConnInit => ConnInv
  BY ConnInvInit
<1>2. ConnInv /\ [ConnNext]_connVars => ConnInv'
  BY ConnInvNext
<1> QED BY <1>1, <1>2, PTL DEF ConnSpec

(* Whatever is requested, times out or is soaked up on the USB connection,    *)
(* every chunk continues the frame before it, no gaze sample is lost, doubled *)
(* or overtaken, and no request takes another's answer (`request_until`,      *)
(* `Parser::feed`, `next_gaze`).                                              *)
THEOREM ConnStreamKept == ConnSpec => []StreamIsKept
<1>1. ConnInv => StreamIsKept
  BY DEF ConnInv
<1> QED BY <1>1, ConnInvHolds, PTL

-----------------------------------------------------------------------------
(* The hub's end of the path.                                                *)
LEMMA PathInit == IpcInit => PathInv
BY DEF IpcInit, PathInv, OneStarts, UnlinksNobody, LiveKept, Starting

LEMMA PathNext ==
    ASSUME ~StartsTogether, PathInv, [IpcNext]_ipcVars
    PROVE  PathInv'
<1> USE DEF PathInv, OneStarts, UnlinksNobody, LiveKept, Starting
<1>1. ASSUME NEW h \in Hubs, HubStarts(h) PROVE PathInv'
  <2>1. /\ DOMAIN hub' = Hubs /\ path' = path /\ \A g \in Hubs : ~Starting(g)
        /\ \A g \in Hubs : hub'[g] = IF g = h THEN "starting" ELSE hub[g]
    BY <1>1 DEF HubStarts
  <2>2. OneStarts'
    BY <2>1
  <2>3. UnlinksNobody'
    BY <2>1
  <2>4. LiveKept'
    BY <2>1
  <2> QED BY <2>1, <2>2, <2>3, <2>4
<1>2. ASSUME NEW h \in Hubs, Bind(h) PROVE PathInv'
  <2>1. CASE path = {}
    <3>1. \A g \in Hubs : hub[g] # "serving"
      BY <2>1
    <3>2. /\ DOMAIN hub' = Hubs /\ path' = {h} /\ Starting(h)
          /\ \A g \in Hubs : hub'[g] = IF g = h THEN "serving" ELSE hub[g]
      BY <1>2, <2>1 DEF Bind
    <3>3. OneStarts'
      BY <3>2
    <3>4. UnlinksNobody'
      BY <3>2
    <3>5. LiveKept'
      BY <3>1, <3>2
    <3> QED BY <3>2, <3>3, <3>4, <3>5
  <2>2. CASE path # {}
    <3>1. /\ DOMAIN hub' = Hubs /\ path' = path /\ Starting(h)
          /\ \A g \in Hubs : hub'[g] = IF g = h THEN "probing" ELSE hub[g]
      <4>1. hub[h] = "starting" /\ hub' = [hub EXCEPT ![h] = "probing"] /\ path' = path
        BY <1>2, <2>2 DEF Bind
      <4> QED BY <4>1
    <3>2. OneStarts'
      BY <3>1
    <3>3. UnlinksNobody'
      BY <3>1
    <3>4. LiveKept'
      BY <3>1
    <3> QED BY <3>1, <3>2, <3>3, <3>4
  <2> QED BY <2>1, <2>2
<1>3. ASSUME NEW h \in Hubs, Probe(h) PROVE PathInv'
  <2>1. CASE \E g \in Hubs : hub[g] = "serving"
    <3>1. \E g \in Hubs : path = {g} /\ Listening(g)
      BY <2>1 DEF Listening
    <3>2. hub' = [hub EXCEPT ![h] = "deaf"] /\ path' = path
      BY <1>3, <3>1 DEF Probe, StaleSocketAction
    <3> QED BY <1>3, <3>2 DEF Probe
  <2>2. CASE ~\E g \in Hubs : hub[g] = "serving"
    <3>1. /\ hub[h] = "probing" /\ path' = path
          /\ hub' = [hub EXCEPT ![h] = "unlinking"] \/ hub' = [hub EXCEPT ![h] = "deaf"]
      BY <1>3 DEF Probe
    <3>2. CASE hub' = [hub EXCEPT ![h] = "unlinking"]
      BY <2>2, <3>1, <3>2
    <3>3. CASE hub' = [hub EXCEPT ![h] = "deaf"]
      BY <2>2, <3>1, <3>3
    <3> QED BY <3>1, <3>2, <3>3
  <2> QED BY <2>1, <2>2
<1>4. ASSUME NEW h \in Hubs, Unlink(h) PROVE PathInv'
  BY <1>4 DEF Unlink
<1>5. ASSUME NEW h \in Hubs, BindAgain(h) PROVE PathInv'
  <2>1. CASE path = {}
    <3>1. \A g \in Hubs : hub[g] # "serving"
      BY <2>1
    <3>2. /\ DOMAIN hub' = Hubs /\ path' = {h} /\ Starting(h)
          /\ \A g \in Hubs : hub'[g] = IF g = h THEN "serving" ELSE hub[g]
      BY <1>5, <2>1 DEF BindAgain
    <3>3. OneStarts'
      BY <3>2
    <3>4. UnlinksNobody'
      BY <3>2
    <3>5. LiveKept'
      BY <3>1, <3>2
    <3> QED BY <3>2, <3>3, <3>4, <3>5
  <2>2. CASE path # {}
    <3>1. /\ DOMAIN hub' = Hubs /\ path' = path /\ Starting(h)
          /\ \A g \in Hubs : hub'[g] = IF g = h THEN "deaf" ELSE hub[g]
      <4>1. hub[h] = "binding again" /\ hub' = [hub EXCEPT ![h] = "deaf"] /\ path' = path
        BY <1>5, <2>2 DEF BindAgain
      <4> QED BY <4>1
    <3>2. OneStarts'
      BY <3>1
    <3>3. UnlinksNobody'
      BY <3>1
    <3>4. LiveKept'
      BY <3>1
    <3> QED BY <3>1, <3>2, <3>3, <3>4
  <2> QED BY <2>1, <2>2
<1>6. ASSUME NEW h \in Hubs, HubQuits(h) PROVE PathInv'
  BY <1>6 DEF HubQuits
<1>7. ASSUME NEW h \in Hubs, HubEnds(h) PROVE PathInv'
  BY <1>7 DEF HubEnds
<1>8. CASE UNCHANGED <<path, hub>>
  BY <1>8
<1>9. ASSUME NEW c \in Clients,
             Connect(c) \/ Take(c) \/ Write(c) \/ Reads(c) \/ Leaves(c) \/ Garbles(c) \/ Reap(c) \/ Shutdown(c)
      PROVE  UNCHANGED <<path, hub>>
  BY <1>9 DEF Connect, Take, Write, Reads, Leaves, Garbles, Reap, Shutdown
<1>10. ASSUME NEW cs, Say(cs) PROVE UNCHANGED <<path, hub>>
  BY <1>10 DEF Say
<1>11. CASE UNCHANGED ipcVars
  BY <1>8, <1>11 DEF ipcVars
<1> QED
  <2>1. CASE \E h \in Hubs : HubStarts(h) \/ Bind(h) \/ Probe(h) \/ Unlink(h) \/ BindAgain(h) \/ HubQuits(h) \/ HubEnds(h)
    BY <2>1, <1>1, <1>2, <1>3, <1>4, <1>5, <1>6, <1>7
  <2>2. CASE \E c \in Clients : Connect(c) \/ Take(c) \/ Write(c) \/ Reads(c) \/ Leaves(c)
                                 \/ Garbles(c) \/ Reap(c) \/ Shutdown(c)
    BY <2>2, <1>8, <1>9
  <2>3. CASE \E cs \in SUBSET Clients : Say(cs)
    BY <2>3, <1>8, <1>10
  <2> QED BY <1>11, <2>1, <2>2, <2>3 DEF IpcNext

(* A hub that serves is the one the path leads to (bind_at), as long as no    *)
(* two hubs are starting at once.                                            *)
THEOREM IpcLiveKept == ASSUME ~StartsTogether PROVE IpcSpec => []LiveKept
<1>1. PathInv => LiveKept
  BY DEF PathInv
<1> QED BY <1>1, PathInit, PathNext, PTL DEF IpcSpec

-----------------------------------------------------------------------------
(* Halves: the arithmetic of two units to a frame.                           *)
LEMMA Halves ==
    \A n \in Nat : n \div 2 \in Nat /\ n % 2 \in {0, 1} /\ n = 2 * (n \div 2) + (n % 2)
<1> TAKE n \in Nat
<1>1. n \div 2 \in Nat
  OBVIOUS
<1>2. n = 2 * (n \div 2) + (n % 2)
  OBVIOUS
<1>3. n % 2 = 0 \/ n % 2 = 1
  OBVIOUS
<1> QED BY <1>1, <1>2, <1>3

LEMMA Shifted == \A i, m \in Nat : (i + 2 * m) % 2 = i % 2 /\ (i + 2 * m) \div 2 = (i \div 2) + m
OBVIOUS

LEMMA Even == \A i \in Nat : i >= 1 /\ i % 2 = 0 => i >= 2
OBVIOUS

LEMMA Doubled == \A m \in Nat : (2 * m) % 2 = 0 /\ (2 * m) \div 2 = m /\ (2 * m + 1) % 2 = 1
OBVIOUS

(* One more is said: it is above all that is on the line.                    *)
LEMMA LineSaid ==
    ASSUME NEW n \in Nat, NEW g, NEW u, NEW q, Line(g, u, q, n)
    PROVE  Line(g, u, q, n + 1) /\ Line(g, u, Append(q, n + 1), n + 1)
<1>1. g \in Seq(1..n) /\ u \in Seq(Unit(n)) /\ q \in Seq(1..n)
  BY DEF Line
<1>2. 1..n \subseteq 1..(n + 1) /\ Unit(n) \subseteq Unit(n + 1)
  BY DEF Unit
<1>3. g \in Seq(1..(n + 1)) /\ u \in Seq(Unit(n + 1)) /\ q \in Seq(1..(n + 1))
  BY <1>1, <1>2, SeqMonotonic
<1>4. Line(g, u, q, n + 1)
  BY <1>3 DEF Line
<1> DEFINE r == Append(q, n + 1)
<1>5. /\ r \in Seq(1..(n + 1)) /\ Len(q) \in Nat /\ DOMAIN q = 1..Len(q) /\ DOMAIN r = 1..(Len(q) + 1)
      /\ r[Len(q) + 1] = n + 1 /\ \A i \in DOMAIN q : r[i] = q[i] /\ q[i] \in 1..n
  BY <1>1, <1>3
<1> HIDE DEF r
<1>6. \A i \in DOMAIN g : g[i] \in 1..n
  BY <1>1
<1>7. \A i \in DOMAIN u : u[i].of \in 1..n
  <2>1. \A i \in DOMAIN u : u[i] \in Unit(n)
    BY <1>1
  <2> QED BY <2>1 DEF Unit
<1>8. \A j \in DOMAIN r : j \in DOMAIN q \/ j = Len(q) + 1
  BY <1>5
<1>9. Ordered(r)
  <2> SUFFICES ASSUME NEW i \in DOMAIN r, NEW j \in DOMAIN r, i < j PROVE r[i] < r[j]
    BY DEF Ordered
  <2>1. i \in DOMAIN q /\ q[i] \in 1..n /\ r[i] = q[i]
    BY <1>5
  <2>2. CASE j \in DOMAIN q
    BY <1>5, <2>1, <2>2 DEF Line, Ordered
  <2>3. CASE j = Len(q) + 1
    BY <1>5, <2>1, <2>3
  <2> QED BY <1>8, <2>2, <2>3
<1>10. \A i \in DOMAIN g, j \in DOMAIN r : g[i] < r[j]
  <2> TAKE i \in DOMAIN g, j \in DOMAIN r
  <2>1. CASE j \in DOMAIN q
    BY <1>5, <2>1 DEF Line
  <2>2. CASE j = Len(q) + 1
    BY <1>5, <1>6, <2>2
  <2> QED BY <1>8, <2>1, <2>2
<1>11. \A i \in DOMAIN u, j \in DOMAIN r : u[i].of < r[j]
  <2> TAKE i \in DOMAIN u, j \in DOMAIN r
  <2>1. CASE j \in DOMAIN q
    BY <1>5, <2>1 DEF Line
  <2>2. CASE j = Len(q) + 1
    BY <1>5, <1>7, <2>2
  <2> QED BY <1>8, <2>1, <2>2
<1>12. Line(g, u, r, n + 1)
  BY <1>3, <1>5, <1>9, <1>10, <1>11 DEF Line
<1> QED BY <1>4, <1>12 DEF r

(* A frame is put on its way once the one before is out of the queue's hands. *)
LEMMA LineTaken ==
    ASSUME NEW n \in Nat, NEW g, NEW u, NEW q, Line(g, u, q, n), q # <<>>, Len(u) % 2 = 0,
           NEW w, w = u \o Encode(Head(q))
    PROVE  /\ Line(g, w, Tail(q), n) /\ Len(w) = Len(u) + 2
           /\ Encode(Head(q)) \in Seq(Unit(n)) /\ Len(Tail(q)) = Len(q) - 1
<1>a. PICK h, t : h = Head(q) /\ t = Tail(q)
  OBVIOUS
<1>1. g \in Seq(1..n) /\ u \in Seq(Unit(n)) /\ q \in Seq(1..n)
  BY DEF Line
<1>2. /\ h \in 1..n /\ h = q[1] /\ t \in Seq(1..n) /\ Len(q) \in Nat /\ Len(q) >= 1 /\ Len(t) = Len(q) - 1
      /\ DOMAIN q = 1..Len(q) /\ DOMAIN t = 1..(Len(q) - 1)
      /\ \A i \in DOMAIN t : t[i] = q[i + 1] /\ i + 1 \in DOMAIN q /\ i + 1 > 1
      /\ 1 \in DOMAIN q
  BY <1>1, <1>a
<1>3. Encode(h) \in Seq(Unit(n)) /\ Len(Encode(h)) = 2 /\ Encode(h)[1] = [of |-> h, part |-> "header"]
      /\ Encode(h)[2] = [of |-> h, part |-> "payload"]
  <2>1. [of |-> h, part |-> "header"] \in Unit(n) /\ [of |-> h, part |-> "payload"] \in Unit(n)
    BY <1>2 DEF Unit
  <2> QED BY <2>1 DEF Encode
<1>4. Len(u) \in Nat /\ DOMAIN u = 1..Len(u)
  BY <1>1, LenProperties
<1>5. /\ w \in Seq(Unit(n)) /\ Len(w) = Len(u) + 2 /\ DOMAIN w = 1..(Len(u) + 2)
      /\ \A i \in DOMAIN u : w[i] = u[i]
      /\ w[Len(u) + 1] = [of |-> h, part |-> "header"] /\ w[Len(u) + 2] = [of |-> h, part |-> "payload"]
  <2>a. /\ w \in Seq(Unit(n)) /\ Len(w) = Len(u) + Len(Encode(h))
        /\ \A i \in 1..(Len(u) + Len(Encode(h))) : w[i] = IF i <= Len(u) THEN u[i] ELSE Encode(h)[i - Len(u)]
    BY <1>1, <1>3, <1>a, ConcatProperties
  <2>1. /\ w \in Seq(Unit(n)) /\ Len(w) = Len(u) + 2
        /\ \A i \in 1..(Len(u) + 2) : w[i] = IF i <= Len(u) THEN u[i] ELSE Encode(h)[i - Len(u)]
    BY <1>3, <2>a
  <2>2. DOMAIN w = 1..(Len(u) + 2)
    BY <1>4, <2>1
  <2>3. \A i \in DOMAIN u : w[i] = u[i]
    BY <1>4, <2>1
  <2>4. w[Len(u) + 1] = Encode(h)[1] /\ w[Len(u) + 2] = Encode(h)[2]
    BY <1>4, <2>1
  <2> QED BY <1>3, <2>1, <2>2, <2>3, <2>4
<1>6. \A i \in DOMAIN w : i \in DOMAIN u \/ i = Len(u) + 1 \/ i = Len(u) + 2
  BY <1>4, <1>5
<1>7. \A i \in DOMAIN u : u[i].of < h
  BY <1>2 DEF Line
<1>8. \A i \in DOMAIN u : w[i].of < h
  BY <1>5, <1>7
<1>9. w[Len(u) + 1].of = h /\ w[Len(u) + 2].of = h
  BY <1>5
<1>10. (Len(u) + 1) % 2 = 1 /\ (Len(u) + 2) % 2 = 0
  BY <1>4
<1>11. Framed(w)
  <2> SUFFICES ASSUME NEW i \in DOMAIN w
               PROVE  /\ w[i].part = IF i % 2 = 1 THEN "header" ELSE "payload"
                      /\ i % 2 = 0 => w[i].of = w[i - 1].of
    BY DEF Framed
  <2>1. CASE i \in DOMAIN u
    <3>1. /\ u[i].part = IF i % 2 = 1 THEN "header" ELSE "payload"
          /\ i % 2 = 0 => u[i].of = u[i - 1].of
      BY <2>1 DEF Line, Framed
    <3>2. i % 2 = 0 => i - 1 \in DOMAIN u
      BY <1>4, <2>1
    <3> QED BY <1>5, <2>1, <3>1, <3>2
  <2>2. CASE i = Len(u) + 1
    BY <1>5, <1>10, <2>2
  <2>3. CASE i = Len(u) + 2
    <3>1. i - 1 = Len(u) + 1
      BY <1>4, <2>3
    <3> QED BY <1>5, <1>9, <1>10, <2>3, <3>1
  <2> QED BY <1>6, <2>1, <2>2, <2>3
<1>12. Rising(w)
  <2> SUFFICES ASSUME NEW i \in DOMAIN w, NEW j \in DOMAIN w, i < j
               PROVE  w[i].of < w[j].of \/ (j = i + 1 /\ j % 2 = 0)
    BY DEF Rising
  <2>1. CASE j \in DOMAIN u
    <3>1. i \in DOMAIN u
      BY <1>4, <1>5, <2>1
    <3>2. u[i].of < u[j].of \/ (j = i + 1 /\ j % 2 = 0)
      BY <2>1, <3>1 DEF Line, Rising
    <3> QED BY <1>5, <2>1, <3>1, <3>2
  <2>2. CASE j = Len(u) + 1
    <3>1. i \in DOMAIN u
      BY <1>4, <1>5, <2>2
    <3> QED BY <1>8, <1>9, <2>2, <3>1
  <2>3. CASE j = Len(u) + 2
    <3>1. i \in DOMAIN u \/ i = Len(u) + 1
      BY <1>4, <1>6, <2>3
    <3>2. CASE i = Len(u) + 1
      BY <1>4, <1>10, <2>3, <3>2
    <3> QED BY <1>8, <1>9, <2>3, <3>1, <3>2
  <2> QED BY <1>6, <2>1, <2>2, <2>3
<1>13. Ordered(t)
  <2> SUFFICES ASSUME NEW i \in DOMAIN t, NEW j \in DOMAIN t, i < j PROVE t[i] < t[j]
    BY DEF Ordered
  <2>1. i + 1 \in DOMAIN q /\ j + 1 \in DOMAIN q /\ i + 1 < j + 1
    BY <1>2
  <2>2. q[i + 1] < q[j + 1]
    BY <2>1 DEF Line, Ordered
  <2> QED BY <1>2, <2>2
<1>14. \A i \in DOMAIN g, j \in DOMAIN w : g[i] < w[j].of
  <2>1. \A i \in DOMAIN g : g[i] < h
    BY <1>2 DEF Line
  <2>2. \A i \in DOMAIN g, j \in DOMAIN u : g[i] < w[j].of
    BY <1>5 DEF Line
  <2> QED BY <1>6, <1>9, <2>1, <2>2
<1>15. \A i \in DOMAIN g, j \in DOMAIN t : g[i] < t[j]
  BY <1>2 DEF Line
<1>16. \A j \in DOMAIN t : h < t[j]
  BY <1>2 DEF Line, Ordered
<1>17. \A i \in DOMAIN w, j \in DOMAIN t : w[i].of < t[j]
  <2>1. \A i \in DOMAIN u, j \in DOMAIN t : w[i].of < t[j]
    BY <1>2, <1>5 DEF Line
  <2> QED BY <1>6, <1>9, <1>16, <2>1
<1>18. Line(g, w, t, n) /\ Len(w) = Len(u) + 2 /\ Encode(h) \in Seq(Unit(n)) /\ Len(t) = Len(q) - 1
  BY <1>1, <1>2, <1>3, <1>5, <1>11, <1>12, <1>13, <1>14, <1>15, <1>17 DEF Line
<1> QED BY <1>18, <1>a, Zenon

(* A connection is cut: what is still read is the beginning of the line.      *)
LEMMA LineCut ==
    ASSUME NEW n \in Nat, NEW g, NEW q, NEW w \in Seq(Unit(n)), NEW x \in Seq(Unit(n)),
           Line(g, w \o x, q, n)
    PROVE  Line(g, w, <<>>, n)
<1>1. PICK u : u = w \o x
  OBVIOUS
<1>2. Line(g, u, q, n)
  BY <1>1
<1>3. /\ Len(w) \in Nat /\ Len(x) \in Nat /\ Len(u) = Len(w) + Len(x)
      /\ \A i \in 1..(Len(w) + Len(x)) : u[i] = IF i <= Len(w) THEN w[i] ELSE x[i - Len(w)]
  BY <1>1, ConcatProperties, LenProperties
<1>4. DOMAIN w = 1..Len(w) /\ DOMAIN u = 1..Len(u)
  BY <1>2, LenProperties DEF Line
<1>5. \A i \in DOMAIN w : i \in DOMAIN u /\ u[i] = w[i]
  BY <1>3, <1>4
<1>6. Framed(w)
  <2> SUFFICES ASSUME NEW i \in DOMAIN w
               PROVE  /\ w[i].part = IF i % 2 = 1 THEN "header" ELSE "payload"
                      /\ i % 2 = 0 => w[i].of = w[i - 1].of
    BY DEF Framed
  <2>1. /\ u[i].part = IF i % 2 = 1 THEN "header" ELSE "payload"
        /\ i % 2 = 0 => u[i].of = u[i - 1].of
    BY <1>2, <1>5 DEF Line, Framed
  <2>2. i % 2 = 0 => i - 1 \in DOMAIN w
    BY <1>3, <1>4
  <2> QED BY <1>5, <2>1, <2>2
<1>7. Rising(w)
  BY <1>2, <1>5 DEF Line, Rising
<1>8. \A i \in DOMAIN g, j \in DOMAIN w : g[i] < w[j].of
  BY <1>2, <1>5 DEF Line
<1>9. DOMAIN <<>> = {} /\ <<>> \in Seq(1..n)
  OBVIOUS
<1>10. Ordered(<<>>)
  BY <1>9 DEF Ordered
<1> QED BY <1>2, <1>6, <1>7, <1>8, <1>9, <1>10 DEF Line

(* Messages k are handed on, in twice as many units.                         *)
Moved(g, k, u, v, m) == Len(v) = Len(u) - 2 * m /\ Len(g \o k) = Len(g) + m

(* Whole frames are handed on from the front of the line.                    *)
LEMMA LineHanded ==
    ASSUME NEW n \in Nat, NEW g, NEW u, NEW q, Line(g, u, q, n),
           NEW m \in Nat, 2 * m <= Len(u),
           NEW k, k = [i \in 1..m |-> u[2 * i].of],
           NEW v, v = SubSeq(u, 2 * m + 1, Len(u))
    PROVE  /\ Line(g \o k, v, q, n)
           /\ Moved(g, k, u, v, m)
<1>1. g \in Seq(1..n) /\ u \in Seq(Unit(n)) /\ q \in Seq(1..n)
  BY DEF Line
<1>2. Len(u) \in Nat /\ DOMAIN u = 1..Len(u) /\ Len(g) \in Nat /\ DOMAIN g = 1..Len(g)
  BY <1>1, LenProperties
<1>3. \A i \in DOMAIN u : u[i].of \in 1..n
  <2>1. \A i \in DOMAIN u : u[i] \in Unit(n)
    BY <1>1
  <2> QED BY <2>1 DEF Unit
<1>4. \A i \in 1..m : 2 * i \in DOMAIN u /\ 2 * i - 1 \in DOMAIN u /\ (2 * i) % 2 = 0
  BY <1>2
<1>5. k \in Seq(1..n) /\ Len(k) = m /\ DOMAIN k = 1..m /\ \A i \in 1..m : k[i] = u[2 * i].of
  <2>1. \A i \in 1..m : u[2 * i].of \in 1..n
    BY <1>3, <1>4
  <2> QED BY <2>1
<1>6. /\ v \in Seq(Unit(n)) /\ Len(v) = Len(u) - 2 * m /\ DOMAIN v = 1..(Len(u) - 2 * m)
      /\ \A i \in DOMAIN v : i + 2 * m \in DOMAIN u /\ v[i] = u[i + 2 * m]
  <2>1. \A i \in (2 * m + 1)..Len(u) : u[i] \in Unit(n)
    BY <1>1, <1>2
  <2>2. /\ v \in Seq(Unit(n))
        /\ Len(v) = IF 2 * m + 1 <= Len(u) THEN Len(u) - (2 * m + 1) + 1 ELSE 0
        /\ \A i \in 1..(Len(u) - (2 * m + 1) + 1) : v[i] = u[(2 * m + 1) + i - 1]
    <3>1. PICK a, b : a = 2 * m + 1 /\ b = Len(u) /\ a \in Int /\ b \in Int
      BY <1>2
    <3>2. v = SubSeq(u, a, b) /\ \A i \in a..b : u[i] \in Unit(n)
      BY <2>1, <3>1
    <3>3. /\ SubSeq(u, a, b) \in Seq(Unit(n))
          /\ Len(SubSeq(u, a, b)) = IF a <= b THEN b - a + 1 ELSE 0
          /\ \A i \in 1..(b - a + 1) : SubSeq(u, a, b)[i] = u[a + i - 1]
      BY <3>1, <3>2, SubSeqProperties
    <3> QED BY <3>1, <3>2, <3>3, Zenon
  <2>3. Len(v) = Len(u) - 2 * m
    <3>1. PICK a : a = Len(u) /\ a \in Nat /\ 2 * m <= a
      BY <1>2
    <3>2. Len(v) = IF 2 * m + 1 <= a THEN a - (2 * m + 1) + 1 ELSE 0
      BY <2>2, <3>1
    <3>3. CASE 2 * m + 1 <= a
      BY <3>1, <3>2, <3>3
    <3>4. CASE ~(2 * m + 1 <= a)
      BY <3>1, <3>2, <3>4
    <3> QED BY <3>3, <3>4
  <2>4. DOMAIN v = 1..(Len(u) - 2 * m)
    BY <2>2, <2>3, LenProperties
  <2>5. ASSUME NEW i \in DOMAIN v PROVE i + 2 * m \in DOMAIN u /\ v[i] = u[i + 2 * m]
    <3>1. i \in 1..(Len(u) - (2 * m + 1) + 1) /\ (2 * m + 1) + i - 1 = i + 2 * m
      BY <1>2, <2>4, <2>5
    <3> QED BY <1>2, <2>2, <2>4, <3>1
  <2> QED BY <2>2, <2>3, <2>4, <2>5
<1>7. /\ g \o k \in Seq(1..n) /\ Len(g \o k) = Len(g) + m /\ DOMAIN (g \o k) = 1..(Len(g) + m)
      /\ \A i \in DOMAIN g : (g \o k)[i] = g[i]
      /\ \A i \in 1..m : (g \o k)[Len(g) + i] = u[2 * i].of
  <2>1. /\ g \o k \in Seq(1..n) /\ Len(g \o k) = Len(g) + Len(k)
        /\ \A i \in 1..(Len(g) + Len(k)) : (g \o k)[i] = IF i <= Len(g) THEN g[i] ELSE k[i - Len(g)]
    BY <1>1, <1>5, ConcatProperties
  <2>2. DOMAIN (g \o k) = 1..Len(g \o k)
    BY <2>1, LenProperties
  <2>3. ASSUME NEW i \in 1..m PROVE (g \o k)[Len(g) + i] = k[i]
    BY <1>2, <1>5, <2>1
  <2> QED BY <1>2, <1>5, <2>1, <2>2, <2>3
<1>8. \A i \in DOMAIN (g \o k) : i \in DOMAIN g \/ \E j \in 1..m : i = Len(g) + j
  <2> TAKE i \in DOMAIN (g \o k)
  <2>1. CASE i > Len(g)
    <3>1. i - Len(g) \in 1..m /\ i = Len(g) + (i - Len(g))
      BY <1>2, <1>7, <2>1
    <3> QED BY <3>1
  <2> QED BY <1>2, <1>7, <2>1
<1>9. \A i, j \in 1..m : i < j => u[2 * i].of < u[2 * j].of
  <2> SUFFICES ASSUME NEW i \in 1..m, NEW j \in 1..m, i < j PROVE u[2 * i].of < u[2 * j].of
    OBVIOUS
  <2>1. 2 * i \in DOMAIN u /\ 2 * j \in DOMAIN u /\ 2 * i < 2 * j /\ 2 * j # 2 * i + 1
    BY <1>4
  <2> QED BY <2>1 DEF Line, Rising
<1>10. \A i \in 1..m, j \in DOMAIN u : j > 2 * m => u[2 * i].of < u[j].of
  <2> SUFFICES ASSUME NEW i \in 1..m, NEW j \in DOMAIN u, j > 2 * m PROVE u[2 * i].of < u[j].of
    OBVIOUS
  <2>1. 2 * i \in DOMAIN u /\ 2 * i < j
    BY <1>2, <1>4
  <2>2. ~(j = 2 * i + 1 /\ j % 2 = 0)
    BY <1>2
  <2> QED BY <2>1, <2>2 DEF Line, Rising
<1>11. Ordered(g \o k)
  <2> SUFFICES ASSUME NEW i \in DOMAIN (g \o k), NEW j \in DOMAIN (g \o k), i < j
               PROVE  (g \o k)[i] < (g \o k)[j]
    BY DEF Ordered
  <2>1. CASE j \in DOMAIN g
    <3>1. i \in DOMAIN g
      BY <1>2, <1>7, <2>1
    <3>2. g[i] < g[j]
      BY <2>1, <3>1 DEF Line, Ordered
    <3> QED BY <1>7, <2>1, <3>1, <3>2
  <2>2. ASSUME NEW b \in 1..m, j = Len(g) + b PROVE (g \o k)[i] < (g \o k)[j]
    <3>1. (g \o k)[j] = u[2 * b].of
      BY <1>7, <2>2
    <3>2. CASE i \in DOMAIN g
      BY <1>4, <1>7, <3>1, <3>2 DEF Line
    <3>3. ASSUME NEW a \in 1..m, i = Len(g) + a PROVE (g \o k)[i] < (g \o k)[j]
      <4>1. (g \o k)[i] = u[2 * a].of /\ a < b
        BY <1>2, <1>7, <2>2, <3>3
      <4> QED BY <1>9, <3>1, <4>1
    <3> QED BY <1>8, <3>2, <3>3
  <2> QED BY <1>8, <2>1, <2>2
<1>12. Framed(v)
  <2> SUFFICES ASSUME NEW i \in DOMAIN v
               PROVE  /\ v[i].part = IF i % 2 = 1 THEN "header" ELSE "payload"
                      /\ i % 2 = 0 => v[i].of = v[i - 1].of
    BY DEF Framed
  <2>1. i + 2 * m \in DOMAIN u /\ v[i] = u[i + 2 * m] /\ i \in Nat /\ (i + 2 * m) % 2 = i % 2
    BY <1>2, <1>6, Shifted
  <2>2. /\ u[i + 2 * m].part = IF i % 2 = 1 THEN "header" ELSE "payload"
        /\ i % 2 = 0 => u[i + 2 * m].of = u[(i + 2 * m) - 1].of
    BY <2>1 DEF Line, Framed
  <2>3. i % 2 = 0 => i - 1 \in DOMAIN v /\ (i - 1) + 2 * m = (i + 2 * m) - 1
    <3>1. i >= 1 /\ i <= Len(u) - 2 * m /\ i \in Nat
      <4>1. i \in 1..(Len(u) - 2 * m)
        BY <1>6
      <4> QED BY <1>2, <4>1
    <3>2. i % 2 = 0 => i >= 2
      BY <3>1, Even
    <3>3. i >= 2 => i - 1 \in 1..(Len(u) - 2 * m)
      BY <1>2, <3>1
    <3>4. (i - 1) + 2 * m = (i + 2 * m) - 1
      BY <3>1
    <3> QED BY <1>6, <3>2, <3>3, <3>4
  <2>4. i % 2 = 0 => v[i - 1] = u[(i + 2 * m) - 1]
    BY <1>6, <2>3
  <2> QED BY <2>1, <2>2, <2>4
<1>13. Rising(v)
  <2> SUFFICES ASSUME NEW i \in DOMAIN v, NEW j \in DOMAIN v, i < j
               PROVE  v[i].of < v[j].of \/ (j = i + 1 /\ j % 2 = 0)
    BY DEF Rising
  <2>1. /\ i + 2 * m \in DOMAIN u /\ v[i] = u[i + 2 * m] /\ j + 2 * m \in DOMAIN u /\ v[j] = u[j + 2 * m]
        /\ i \in Nat /\ j \in Nat /\ (j + 2 * m) % 2 = j % 2 /\ i + 2 * m < j + 2 * m
    <3>1. i \in Nat /\ j \in Nat
      <4>1. i \in 1..(Len(u) - 2 * m) /\ j \in 1..(Len(u) - 2 * m)
        BY <1>6
      <4> QED BY <1>2, <4>1
    <3>2. i + 2 * m < j + 2 * m
      BY <3>1
    <3> QED BY <1>6, <3>1, <3>2, Shifted
  <2>2. u[i + 2 * m].of < u[j + 2 * m].of \/ (j + 2 * m = (i + 2 * m) + 1 /\ (j + 2 * m) % 2 = 0)
    BY <2>1 DEF Line, Rising
  <2>3. CASE u[i + 2 * m].of < u[j + 2 * m].of
    BY <2>1, <2>3
  <2>4. CASE j + 2 * m = (i + 2 * m) + 1 /\ (j + 2 * m) % 2 = 0
    <3>1. j = i + 1
      <4>1. i \in Nat /\ j \in Nat
        BY <2>1
      <4>2. j + 2 * m = (i + 2 * m) + 1
        BY <2>4
      <4> QED BY <4>1, <4>2
    <3> QED BY <2>1, <2>4, <3>1
  <2> QED BY <2>2, <2>3, <2>4
<1>14. \A i \in DOMAIN (g \o k), j \in DOMAIN v : (g \o k)[i] < v[j].of
  <2> TAKE i \in DOMAIN (g \o k), j \in DOMAIN v
  <2>1. j + 2 * m \in DOMAIN u /\ v[j] = u[j + 2 * m] /\ j + 2 * m > 2 * m
    <3>1. j \in 1..(Len(u) - 2 * m)
      <4>1. DOMAIN v = 1..(Len(u) - 2 * m)
        BY <1>6
      <4> QED BY <4>1
    <3>2. j + 2 * m \in DOMAIN u /\ v[j] = u[j + 2 * m]
      BY <1>6
    <3>3. j + 2 * m > 2 * m
      BY <3>1
    <3> QED BY <3>2, <3>3
  <2>2. CASE i \in DOMAIN g
    BY <1>7, <2>1, <2>2 DEF Line
  <2>3. ASSUME NEW a \in 1..m, i = Len(g) + a PROVE (g \o k)[i] < v[j].of
    BY <1>7, <1>10, <2>1, <2>3
  <2> QED BY <1>8, <2>2, <2>3
<1>15. \A i \in DOMAIN (g \o k), j \in DOMAIN q : (g \o k)[i] < q[j]
  <2> TAKE i \in DOMAIN (g \o k), j \in DOMAIN q
  <2>2. CASE i \in DOMAIN g
    BY <1>7, <2>2 DEF Line
  <2>3. ASSUME NEW a \in 1..m, i = Len(g) + a PROVE (g \o k)[i] < q[j]
    BY <1>4, <1>7, <2>3 DEF Line
  <2> QED BY <1>8, <2>2, <2>3
<1>16. \A i \in DOMAIN v, j \in DOMAIN q : v[i].of < q[j]
  BY <1>6 DEF Line
<1> QED BY <1>1, <1>6, <1>7, <1>11, <1>12, <1>13, <1>14, <1>15, <1>16 DEF Line, Moved

(* What the reader thread makes of whole frames and the beginning of one.     *)
LEMMA DecodedFrames ==
    ASSUME NEW n \in Nat, NEW x \in Seq(Unit(n)), Framed(x), NEW m, m = Len(x) \div 2
    PROVE  /\ m \in Nat /\ 2 * m <= Len(x)
           /\ Decoded(x).msgs = [i \in 1..m |-> x[2 * i].of]
           /\ Decoded(x).rest = SubSeq(x, 2 * m + 1, Len(x))
<1>1. Len(x) \in Nat /\ DOMAIN x = 1..Len(x)
  BY LenProperties
<1>2. m \in Nat /\ 2 * m <= Len(x)
  BY <1>1, Halves
<1>3. ASSUME NEW i \in 1..m PROVE Decode(SubSeq(x, 2 * i - 1, 2 * i)).is = "message"
  <2>1. 2 * i - 1 \in DOMAIN x /\ 2 * i \in DOMAIN x /\ (2 * i) % 2 = 0 /\ (2 * i - 1) % 2 = 1
    BY <1>1, <1>2
  <2>2. x[2 * i - 1].part = "header" /\ x[2 * i].part = "payload" /\ x[2 * i].of = x[2 * i - 1].of
    <3>1. x[2 * i - 1].part = "header"
      BY <2>1 DEF Framed
    <3>2. x[2 * i].part = "payload" /\ x[2 * i].of = x[2 * i - 1].of
      <4>1. PICK e : e = 2 * i /\ e \in DOMAIN x /\ e % 2 = 0
        BY <2>1
      <4>2. /\ x[e].part = IF e % 2 = 1 THEN "header" ELSE "payload"
            /\ e % 2 = 0 => x[e].of = x[e - 1].of
        BY <4>1 DEF Framed
      <4> QED BY <4>1, <4>2
    <3> QED BY <3>1, <3>2
  <2>3. x[2 * i - 1] \in Unit(n) /\ x[2 * i] \in Unit(n)
    BY <2>1
  <2>4. x[2 * i] = [of |-> x[2 * i - 1].of, part |-> "payload"]
    BY <2>2, <2>3 DEF Unit
  <2>5. PICK s : s = SubSeq(x, 2 * i - 1, 2 * i)
    OBVIOUS
  <2>6. Len(s) = 2 /\ s[1] = x[2 * i - 1] /\ s[2] = x[2 * i]
    <3>1. \A j \in (2 * i - 1)..(2 * i) : x[j] \in Unit(n)
      <4> TAKE j \in (2 * i - 1)..(2 * i)
      <4>1. j = 2 * i - 1 \/ j = 2 * i
        OBVIOUS
      <4> QED BY <2>3, <4>1
    <3>2. /\ Len(s) = IF 2 * i - 1 <= 2 * i THEN 2 * i - (2 * i - 1) + 1 ELSE 0
          /\ \A j \in 1..(2 * i - (2 * i - 1) + 1) : s[j] = x[(2 * i - 1) + j - 1]
      <4>1. 2 * i - 1 \in Int /\ 2 * i \in Int
        OBVIOUS
      <4> QED BY <2>5, <3>1, <4>1, SubSeqProperties
    <3>3. /\ 2 * i - (2 * i - 1) + 1 = 2 /\ 2 * i - 1 <= 2 * i
          /\ (2 * i - 1) + 1 - 1 = 2 * i - 1 /\ (2 * i - 1) + 2 - 1 = 2 * i
      OBVIOUS
    <3>4. 1 \in 1..2 /\ 2 \in 1..2
      OBVIOUS
    <3> QED BY <3>2, <3>3, <3>4
  <2> QED BY <2>2, <2>4, <2>5, <2>6 DEF Decode
<1>4. /\ Decoded(x).msgs = [i \in 1..m |-> x[2 * i].of]
      /\ Decoded(x).rest = SubSeq(x, 2 * m + 1, Len(x))
  BY <1>3 DEF Decoded
<1> QED BY <1>2, <1>4

(* Joining and parting sequences, by name.                                   *)
Join(s, t) == s \o t
Begin(s, n) == SubSeq(s, 1, n)
Beyond(s, n) == SubSeq(s, n + 1, Len(s))

(* A sequence falls into its beginning and the rest.                         *)
LEMMA Parts ==
    \A S : \A s \in Seq(S) : \A n \in 0..Len(s) :
        /\ SubSeq(s, 1, n) \in Seq(S) /\ Len(SubSeq(s, 1, n)) = n
        /\ SubSeq(s, n + 1, Len(s)) \in Seq(S) /\ Len(SubSeq(s, n + 1, Len(s))) = Len(s) - n
        /\ SubSeq(s, 1, n) \o SubSeq(s, n + 1, Len(s)) = s
<1> TAKE S
<1> TAKE s \in Seq(S)
<1> TAKE n \in 0..Len(s)
<1>0. PICK a, b : a = SubSeq(s, 1, n) /\ b = SubSeq(s, n + 1, Len(s))
  OBVIOUS
<1>1. Len(s) \in Nat /\ \A i \in 1..Len(s) : s[i] \in S
  BY LenProperties, ElementOfSeq
<1>2. a \in Seq(S) /\ Len(a) = n
  <2>1. n \in Nat /\ \A i \in 1..n : s[i] \in S
    BY <1>1
  <2>2. a \in Seq(S) /\ Len(a) = IF 1 <= n THEN n - 1 + 1 ELSE 0
    BY <1>0, <2>1, SubSeqProperties
  <2> QED BY <2>1, <2>2
<1>3. b \in Seq(S) /\ Len(b) = Len(s) - n
  <2>1. n \in Nat /\ \A i \in (n + 1)..Len(s) : s[i] \in S
    BY <1>1
  <2>2. b \in Seq(S) /\ Len(b) = IF n + 1 <= Len(s) THEN Len(s) - (n + 1) + 1 ELSE 0
    BY <1>0, <1>1, <2>1, SubSeqProperties
  <2> QED BY <1>1, <2>1, <2>2
<1>4. a \o b = SubSeq(s, 1, Len(s))
  <2>1. 1 \in 1..(Len(s) + 1) /\ n \in (1 - 1)..Len(s) /\ Len(s) \in n..Len(s)
    BY <1>1
  <2> QED BY <1>0, <2>1, ConcatAdjacentSubSeq
<1>5. SubSeq(s, 1, Len(s)) = s
  BY SubSeqFull
<1> QED BY <1>0, <1>2, <1>3, <1>4, <1>5

(* The same parts, said the other way round.                                 *)
LEMMA Joined ==
    \A S : \A s, t, u \in Seq(S) : u = s \o t =>
        /\ Len(u) = Len(s) + Len(t) /\ SubSeq(u, Len(s) + 1, Len(u)) = t
        /\ \A i \in 1..Len(s) : u[i] = s[i]
<1> TAKE S
<1> TAKE s, t, u \in Seq(S)
<1> HAVE u = s \o t
<1>1. /\ u \in Seq(S) /\ Len(u) = Len(s) + Len(t)
      /\ \A i \in 1..(Len(s) + Len(t)) : u[i] = IF i <= Len(s) THEN s[i] ELSE t[i - Len(s)]
  BY ConcatProperties
<1>2. Len(s) \in Nat /\ Len(t) \in Nat
  BY LenProperties
<1>3. PICK b : b = SubSeq(u, Len(s) + 1, Len(u))
  OBVIOUS
<1>4. b \in Seq(S) /\ Len(b) = Len(t) /\ \A i \in 1..Len(t) : b[i] = u[Len(s) + i]
  <2>1. PICK k, n : k = Len(s) /\ n = Len(u) /\ k \in Nat /\ n \in Nat /\ n = k + Len(t)
    BY <1>1, <1>2
  <2>2. \A i \in (k + 1)..n : u[i] \in S
    BY <1>1, <2>1, ElementOfSeq
  <2>3. b = SubSeq(u, k + 1, n)
    BY <1>3, <2>1
  <2>4. /\ b \in Seq(S) /\ Len(b) = IF k + 1 <= n THEN n - (k + 1) + 1 ELSE 0
        /\ \A i \in 1..(n - (k + 1) + 1) : b[i] = u[(k + 1) + i - 1]
    BY <2>1, <2>2, <2>3, SubSeqProperties
  <2>5. n - (k + 1) + 1 = Len(t) /\ \A i \in 1..Len(t) : (k + 1) + i - 1 = k + i
    BY <1>2, <2>1
  <2>6. ASSUME NEW i \in 1..Len(t) PROVE b[i] = u[k + i]
    <3>1. i \in 1..(n - (k + 1) + 1) /\ (k + 1) + i - 1 = k + i
      BY <2>5
    <3> QED BY <2>4, <3>1
  <2> QED BY <1>2, <2>1, <2>4, <2>5, <2>6
<1>5. \A i \in 1..Len(b) : b[i] = t[i]
  BY <1>1, <1>2, <1>4
<1>6. b = t
  BY <1>4, <1>5, SeqEqual
<1> QED BY <1>1, <1>2, <1>3, <1>6

LEMMA JoinParts ==
    \A S : \A s \in Seq(S) : \A n \in 0..Len(s) :
        /\ Begin(s, n) \in Seq(S) /\ Len(Begin(s, n)) = n
        /\ Beyond(s, n) \in Seq(S) /\ Len(Beyond(s, n)) = Len(s) - n
        /\ Join(Begin(s, n), Beyond(s, n)) = s
BY Parts DEF Join, Begin, Beyond

LEMMA JoinOf ==
    \A S : \A s, t \in Seq(S) :
        /\ Join(s, t) \in Seq(S) /\ Len(Join(s, t)) = Len(s) + Len(t)
        /\ Beyond(Join(s, t), Len(s)) = t
        /\ \A i \in 1..Len(s) : Join(s, t)[i] = s[i]
<1> TAKE S
<1> TAKE s, t \in Seq(S)
<1>1. PICK u : u = s \o t
  OBVIOUS
<1>2. u \in Seq(S)
  BY <1>1, ConcatProperties
<1>3. Len(u) = Len(s) + Len(t) /\ SubSeq(u, Len(s) + 1, Len(u)) = t /\ \A i \in 1..Len(s) : u[i] = s[i]
  BY <1>1, <1>2, Joined
<1> QED BY <1>1, <1>2, <1>3 DEF Join, Beyond

LEMMA JoinAssoc ==
    \A S : \A s, t, v \in Seq(S) : Join(Join(s, t), v) = Join(s, Join(t, v))
BY ConcatAssociative DEF Join

(* A read of some of what has arrived: it is the beginning of the line, and   *)
(* what is not consumed stays where it was.                                  *)
LEMMA ReadOfLine ==
    ASSUME NEW S, NEW b \in Seq(S), NEW p \in Seq(S), NEW w \in Seq(S), NEW k \in 0..Len(p),
           NEW x, x = Join(b, Begin(p, k)), NEW u, u = Join(Join(b, p), w),
           NEW m \in Nat, 2 * m <= Len(x)
    PROVE  /\ x \in Seq(S) /\ Beyond(x, 2 * m) \in Seq(S) /\ Beyond(p, k) \in Seq(S)
           /\ Len(x) <= Len(u) /\ \A i \in 1..Len(x) : u[i] = x[i]
           /\ Join(Join(Beyond(x, 2 * m), Beyond(p, k)), w) = Beyond(u, 2 * m)
<1>1. PICK a, y : a = Begin(p, k) /\ y = Beyond(p, k)
  OBVIOUS
<1>2. a \in Seq(S) /\ y \in Seq(S) /\ Join(a, y) = p
  BY <1>1, JoinParts
<1>3. x \in Seq(S) /\ Len(x) \in Nat /\ x = Join(b, a)
  BY <1>1, <1>2, JoinOf, LenProperties
<1>4. PICK h, r : h = Begin(x, 2 * m) /\ r = Beyond(x, 2 * m)
  OBVIOUS
<1>5. h \in Seq(S) /\ r \in Seq(S) /\ Join(h, r) = x /\ Len(h) = 2 * m
  <2>1. 2 * m \in 0..Len(x)
    BY <1>3
  <2> QED BY <1>3, <1>4, <2>1, JoinParts
<1>6. Join(y, w) \in Seq(S) /\ Join(r, y) \in Seq(S) /\ Join(Join(r, y), w) \in Seq(S)
  BY <1>2, <1>5, JoinOf
<1>7. u = Join(x, Join(y, w))
  <2>1. Join(Join(b, a), y) = Join(b, Join(a, y))
    BY <1>2, JoinAssoc
  <2>2. Join(Join(x, y), w) = Join(x, Join(y, w))
    BY <1>2, <1>3, JoinAssoc
  <2> QED BY <1>2, <1>3, <2>1, <2>2
<1>8. u = Join(h, Join(Join(r, y), w))
  <2>1. Join(Join(r, y), w) = Join(r, Join(y, w))
    BY <1>2, <1>5, JoinAssoc
  <2>2. Join(Join(h, r), Join(y, w)) = Join(h, Join(r, Join(y, w)))
    BY <1>5, <1>6, JoinAssoc
  <2> QED BY <1>5, <1>7, <2>1, <2>2
<1>9. Len(u) = Len(x) + Len(Join(y, w)) /\ \A i \in 1..Len(x) : u[i] = x[i]
  <2>1. PICK v : v = Join(y, w)
    OBVIOUS
  <2>2. v \in Seq(S) /\ u = Join(x, v)
    BY <1>6, <1>7, <2>1
  <2>3. Len(Join(x, v)) = Len(x) + Len(v) /\ \A i \in 1..Len(x) : Join(x, v)[i] = x[i]
    BY <1>3, <2>2, JoinOf
  <2> QED BY <2>1, <2>2, <2>3, Zenon
<1>10. Beyond(u, 2 * m) = Join(Join(r, y), w)
  <2>1. PICK z : z = Join(Join(r, y), w)
    OBVIOUS
  <2>2. Beyond(Join(h, z), Len(h)) = z
    <3>1. z \in Seq(S)
      BY <1>6, <2>1
    <3> QED BY <1>5, <3>1, JoinOf
  <2> QED BY <1>5, <1>8, <2>1, <2>2
<1>11. Len(x) <= Len(u)
  <2>1. Len(Join(y, w)) \in Nat
    BY <1>6, LenProperties
  <2> QED BY <1>3, <1>9, <2>1
<1> QED BY <1>1, <1>2, <1>3, <1>4, <1>5, <1>9, <1>10, <1>11, Zenon

-----------------------------------------------------------------------------
(* One client's channel, as a relation between the values it is made of.     *)
Good(sd, d, b, p, w, g, q, on) ==
    /\ sd \in Seq(Nat) /\ \A i \in DOMAIN sd : sd[i] = i
    /\ d \in 0..Len(sd)
    /\ b \in Seq(Unit(Len(sd))) /\ p \in Seq(Unit(Len(sd))) /\ w \in Seq(Unit(Len(sd)))
    /\ Line(g, Join(Join(b, p), w), q, Len(sd))
    /\ on => /\ Len(Join(Join(b, p), w)) % 2 = 0
             /\ Len(sd) = Len(g) + Len(q) + d + (Len(Join(Join(b, p), w)) \div 2)

(* Server::broadcast: the message is queued, or counted as dropped.          *)
LEMMA GoodSaid ==
    ASSUME NEW sd, NEW d, NEW b, NEW p, NEW w, NEW g, NEW q, NEW on, Good(sd, d, b, p, w, g, q, on)
    PROVE  /\ Good(Append(sd, Len(sd) + 1), d, b, p, w, g, Append(q, Len(sd) + 1), on)
           /\ Good(Append(sd, Len(sd) + 1), d + 1, b, p, w, g, q, on)
<1>1. PICK n, u, e : n = Len(sd) /\ u = Join(Join(b, p), w) /\ e = Append(sd, Len(sd) + 1)
  OBVIOUS
<1>2. n \in Nat /\ Line(g, u, q, n) /\ sd \in Seq(Nat) /\ d \in 0..n
  BY <1>1, LenProperties DEF Good
<1>3. e \in Seq(Nat) /\ Len(e) = n + 1 /\ \A i \in DOMAIN e : e[i] = i
  <2>1. e = Append(sd, n + 1)
    BY <1>1
  <2>2. /\ e \in Seq(Nat) /\ Len(e) = Len(sd) + 1
        /\ \A i \in 1..Len(sd) : e[i] = sd[i]
        /\ e[Len(sd) + 1] = n + 1
    BY <1>2, <2>1, AppendProperties
  <2>3. \A i \in 1..n : e[i] = i
    <3>1. DOMAIN sd = 1..n
      BY <1>1, <1>2, LenProperties
    <3> QED BY <1>1, <2>2, <3>1 DEF Good
  <2>4. DOMAIN e = 1..(n + 1)
    BY <1>1, <2>2, LenProperties
  <2>5. \A i \in 1..(n + 1) : i \in 1..n \/ i = n + 1
    BY <1>2
  <2> QED BY <1>1, <2>2, <2>3, <2>4, <2>5
<1>4. b \in Seq(Unit(n + 1)) /\ p \in Seq(Unit(n + 1)) /\ w \in Seq(Unit(n + 1))
  <2>1. Unit(n) \subseteq Unit(n + 1)
    BY <1>2 DEF Unit
  <2>2. b \in Seq(Unit(n)) /\ p \in Seq(Unit(n)) /\ w \in Seq(Unit(n))
    BY <1>1 DEF Good
  <2> QED BY <2>1, <2>2, SeqMonotonic
<1>5. Line(g, u, q, n + 1) /\ Line(g, u, Append(q, n + 1), n + 1)
  BY <1>2, LineSaid
<1>6. q \in Seq(1..n) /\ Len(q) \in Nat /\ Len(Append(q, n + 1)) = Len(q) + 1 /\ Len(g) \in Nat /\ Len(u) \in Nat
  <2>1. q \in Seq(1..n) /\ g \in Seq(1..n) /\ u \in Seq(Unit(n))
    BY <1>2 DEF Line
  <2>2. q \in Seq(Nat) /\ n + 1 \in Nat
    BY <1>2, <2>1, SeqMonotonic
  <2> QED BY <2>1, <2>2, AppendProperties, LenProperties
<1>7. on => Len(u) % 2 = 0 /\ n = Len(g) + Len(q) + d + (Len(u) \div 2)
  BY <1>1 DEF Good
<1>8. Len(u) \div 2 \in Nat
  BY <1>6, Halves
<1>9. on => /\ n + 1 = Len(g) + (Len(q) + 1) + d + (Len(u) \div 2)
            /\ n + 1 = Len(g) + Len(q) + (d + 1) + (Len(u) \div 2)
  BY <1>2, <1>6, <1>7, <1>8
<1>10. d \in 0..(n + 1) /\ d + 1 \in 0..(n + 1)
  BY <1>2
<1>11. on => n + 1 = Len(g) + Len(Append(q, n + 1)) + d + (Len(u) \div 2)
  BY <1>6, <1>9
<1>12. Good(e, d, b, p, w, g, Append(q, n + 1), on)
  BY <1>1, <1>3, <1>4, <1>5, <1>7, <1>10, <1>11, Zenon DEF Good
<1>13. Good(e, d + 1, b, p, w, g, q, on)
  BY <1>1, <1>3, <1>4, <1>5, <1>7, <1>9, <1>10, Zenon DEF Good
<1> QED BY <1>1, <1>12, <1>13, Zenon

(* The writer thread takes the next message.                                 *)
LEMMA GoodTaken ==
    ASSUME NEW sd, NEW d, NEW b, NEW p, NEW g, NEW q, Good(sd, d, b, p, <<>>, g, q, TRUE), q # <<>>
    PROVE  Good(sd, d, b, p, Encode(Head(q)), g, Tail(q), TRUE)
<1>1. PICK n, u, e, t : n = Len(sd) /\ u = Join(Join(b, p), <<>>) /\ e = Encode(Head(q)) /\ t = Tail(q)
  OBVIOUS
<1>2. PICK v : v = Join(Join(b, p), e)
  OBVIOUS
<1>3. /\ n \in Nat /\ Line(g, u, q, n) /\ b \in Seq(Unit(n)) /\ p \in Seq(Unit(n)) /\ Len(u) % 2 = 0
      /\ n = Len(g) + Len(q) + d + (Len(u) \div 2)
  BY <1>1, LenProperties DEF Good
<1>4. u = b \o p /\ v = u \o Encode(Head(q))
  <2>1. b \o p \in Seq(Unit(n))
    BY <1>3, ConcatProperties
  <2>2. (b \o p) \o <<>> = b \o p
    BY <2>1, ConcatEmptySeq
  <2> QED BY <1>1, <1>2, <2>2, Zenon DEF Join
<1>5. Line(g, v, t, n) /\ Len(v) = Len(u) + 2 /\ e \in Seq(Unit(n)) /\ Len(t) = Len(q) - 1
  <2>1. Line(g, u, q, n) /\ Len(u) % 2 = 0 /\ n \in Nat
    BY <1>3, Zenon
  <2>2. Line(g, v, Tail(q), n)
    BY <1>4, <2>1, LineTaken, Zenon
  <2>3. Encode(Head(q)) \in Seq(Unit(n))
    BY <1>4, <2>1, LineTaken, Zenon
  <2>4. Len(v) = Len(u) + 2
    <3>1. PICK f : f = Encode(Head(q))
      OBVIOUS
    <3>2. Len(f) = 2
      BY <3>1 DEF Encode
    <3>3. u \in Seq(Unit(n)) /\ f \in Seq(Unit(n)) /\ v = u \o f
      BY <1>4, <2>1, <2>3, <3>1 DEF Line
    <3>4. Len(u \o f) = Len(u) + Len(f)
      BY <3>3, ConcatProperties
    <3> QED BY <3>2, <3>3, <3>4
  <2>5. Len(Tail(q)) = Len(q) - 1
    BY <1>4, <2>1, LineTaken, Zenon
  <2> QED BY <1>1, <2>2, <2>3, <2>4, <2>5, Zenon
<1>6. Len(u) \in Nat /\ Len(q) \in Nat /\ Len(g) \in Nat /\ d \in Nat
  <2>1. u \in Seq(Unit(n)) /\ q \in Seq(1..n) /\ g \in Seq(1..n)
    BY <1>3 DEF Line
  <2>2. d \in 0..n
    BY <1>1 DEF Good
  <2> QED BY <1>3, <2>1, <2>2, LenProperties
<1>7. Len(v) % 2 = 0 /\ Len(v) \div 2 = (Len(u) \div 2) + 1
  BY <1>3, <1>5, <1>6
<1>8. n = Len(g) + Len(t) + d + (Len(v) \div 2)
  <2>1. Len(u) \div 2 \in Nat
    BY <1>6, Halves
  <2> QED BY <1>3, <1>5, <1>6, <1>7, <2>1
<1>9. Good(sd, d, b, p, e, g, t, TRUE)
  BY <1>1, <1>2, <1>3, <1>5, <1>7, <1>8 DEF Good
<1> QED BY <1>1, <1>9

(* The writer thread writes the next unit.                                   *)
LEMMA GoodWritten ==
    ASSUME NEW sd, NEW d, NEW b, NEW p, NEW w, NEW g, NEW q, NEW on, Good(sd, d, b, p, w, g, q, on),
           w # <<>>
    PROVE  Good(sd, d, b, Append(p, Head(w)), Tail(w), g, q, on)
<1>1. PICK S, h, t, a : S = Unit(Len(sd)) /\ h = Head(w) /\ t = Tail(w) /\ a = Append(p, Head(w))
  OBVIOUS
<1>2. b \in Seq(S) /\ p \in Seq(S) /\ w \in Seq(S)
  BY <1>1 DEF Good
<1>3. h \in S /\ t \in Seq(S) /\ a \in Seq(S)
  BY <1>1, <1>2
<1>4. w = Join(<<h>>, t) /\ a = Join(p, <<h>>) /\ <<h>> \in Seq(S)
  <2>1. w = <<h>> \o t /\ <<h>> \in Seq(S)
    BY <1>1, <1>2, <1>3
  <2>2. a = p \o <<h>>
    BY <1>1, <1>2, <1>3, AppendIsConcat
  <2> QED BY <2>1, <2>2 DEF Join
<1>5. Join(Join(b, a), t) = Join(Join(b, p), w)
  <2>1. PICK o : o = <<h>>
    OBVIOUS
  <2>2. w = Join(o, t) /\ a = Join(p, o) /\ o \in Seq(S)
    BY <1>4, <2>1
  <2>3. Join(b, p) \in Seq(S) /\ Join(b, a) = Join(Join(b, p), o)
    BY <1>2, <2>2, JoinOf, JoinAssoc
  <2>4. Join(Join(Join(b, p), o), t) = Join(Join(b, p), Join(o, t))
    BY <1>3, <2>2, <2>3, JoinAssoc
  <2> QED BY <2>2, <2>3, <2>4
<1>6. Good(sd, d, b, a, t, g, q, on)
  BY <1>1, <1>3, <1>5, Zenon DEF Good
<1>7. h = Head(w) /\ t = Tail(w) /\ a = Append(p, Head(w))
  BY <1>1, Zenon
<1> QED BY <1>6, <1>7, Zenon

(* The reader thread: what it hands on comes off the front of the line.      *)
LEMMA GoodRead ==
    ASSUME NEW sd, NEW d, NEW b, NEW p, NEW w, NEW g, NEW q, NEW on, Good(sd, d, b, p, w, g, q, on),
           NEW k \in 0..Len(p), NEW x, x = Join(b, Begin(p, k))
    PROVE  Good(sd, d, Decoded(x).rest, Beyond(p, k), w, g \o Decoded(x).msgs, q, on)
<1>1. PICK n, u, m : n = Len(sd) /\ u = Join(Join(b, p), w) /\ m = Len(x) \div 2
  OBVIOUS
<1>2. /\ n \in Nat /\ Line(g, u, q, n)
      /\ b \in Seq(Unit(n)) /\ p \in Seq(Unit(n)) /\ w \in Seq(Unit(n))
  BY <1>1, LenProperties DEF Good
<1>4. x \in Seq(Unit(n)) /\ Len(x) \in Nat
  <2>1. Begin(p, k) \in Seq(Unit(n))
    BY <1>2, JoinParts
  <2>2. Join(b, Begin(p, k)) \in Seq(Unit(n))
    BY <1>2, <2>1, JoinOf
  <2>3. x \in Seq(Unit(n))
    BY <2>2
  <2> QED BY <2>3, LenProperties
<1>5. m \in Nat /\ 2 * m <= Len(x)
  BY <1>1, <1>4, Halves
<1>6. /\ Beyond(x, 2 * m) \in Seq(Unit(n)) /\ Beyond(p, k) \in Seq(Unit(n))
      /\ Len(x) <= Len(u) /\ \A i \in 1..Len(x) : u[i] = x[i]
      /\ Join(Join(Beyond(x, 2 * m), Beyond(p, k)), w) = Beyond(u, 2 * m)
  BY <1>1, <1>2, <1>5, ReadOfLine
<1>7. u \in Seq(Unit(n)) /\ Len(u) \in Nat /\ DOMAIN u = 1..Len(u) /\ DOMAIN x = 1..Len(x)
  BY <1>2, <1>4, LenProperties DEF Line
<1>8. Framed(x)
  <2> SUFFICES ASSUME NEW i \in DOMAIN x
               PROVE  /\ x[i].part = IF i % 2 = 1 THEN "header" ELSE "payload"
                      /\ i % 2 = 0 => x[i].of = x[i - 1].of
    BY DEF Framed
  <2>1. i \in DOMAIN u /\ u[i] = x[i]
    BY <1>4, <1>6, <1>7
  <2>2. /\ u[i].part = IF i % 2 = 1 THEN "header" ELSE "payload"
        /\ i % 2 = 0 => u[i].of = u[i - 1].of
    BY <1>2, <2>1 DEF Line, Framed
  <2>3. i % 2 = 0 => i - 1 \in 1..Len(x)
    <3>1. i \in Nat /\ i >= 1 /\ i <= Len(x)
      BY <1>4, <1>7
    <3>2. i % 2 = 0 => i >= 2
      BY <3>1
    <3> QED BY <1>4, <3>1, <3>2
  <2> QED BY <1>6, <2>1, <2>2, <2>3
<1>9. /\ Decoded(x).msgs = [i \in 1..m |-> x[2 * i].of]
      /\ Decoded(x).rest = Beyond(x, 2 * m)
  BY <1>1, <1>2, <1>4, <1>8, DecodedFrames DEF Beyond
<1>10. [i \in 1..m |-> x[2 * i].of] = [i \in 1..m |-> u[2 * i].of]
  <2>1. \A i \in 1..m : 2 * i \in 1..Len(x)
    BY <1>4, <1>5
  <2>2. \A i \in 1..m : x[2 * i].of = u[2 * i].of
    BY <1>6, <2>1
  <2> QED BY <2>2
<1>11. PICK h, v : h = [i \in 1..m |-> u[2 * i].of] /\ v = SubSeq(u, 2 * m + 1, Len(u))
  OBVIOUS
<1>12. Line(g \o h, v, q, n) /\ Len(v) = Len(u) - 2 * m /\ Len(g \o h) = Len(g) + m
  <2>1. 2 * m <= Len(u)
    BY <1>4, <1>5, <1>6, <1>7
  <2>2. Line(g \o h, v, q, n)
    BY <1>2, <1>5, <1>11, <2>1, LineHanded, Zenon
  <2>3. Moved(g, h, u, v, m)
    BY <1>2, <1>5, <1>11, <2>1, LineHanded, Zenon
  <2> QED BY <2>2, <2>3 DEF Moved
<1>13. ASSUME on
       PROVE  /\ Len(v) % 2 = 0
              /\ n = Len(g \o h) + Len(q) + d + (Len(v) \div 2)
  <2>1. Len(u) % 2 = 0 /\ n = Len(g) + Len(q) + d + (Len(u) \div 2) /\ d \in 0..n
    BY <1>1, <1>13 DEF Good
  <2>2. Len(g) \in Nat /\ Len(q) \in Nat
    BY <1>2, LenProperties DEF Line
  <2>3. PICK z : z = Len(u) \div 2 /\ z \in Nat /\ Len(u) = 2 * z
    BY <1>7, <2>1
  <2>4. z - m \in Nat /\ Len(v) = 2 * (z - m)
    BY <1>4, <1>5, <1>6, <1>7, <1>12, <2>3
  <2>5. Len(v) % 2 = 0 /\ Len(v) \div 2 = z - m
    BY <2>4, Doubled
  <2>6. n = (Len(g) + m) + Len(q) + d + (z - m)
    BY <1>2, <1>5, <2>1, <2>2, <2>3
  <2> QED BY <1>12, <2>5, <2>6
<1>14. PICK r, y, t : r = Beyond(x, 2 * m) /\ y = Beyond(p, k) /\ t = g \o h
  OBVIOUS
<1>15. /\ r \in Seq(Unit(n)) /\ y \in Seq(Unit(n)) /\ Line(t, Join(Join(r, y), w), q, n)
       /\ on => Len(Join(Join(r, y), w)) % 2 = 0
                /\ n = Len(t) + Len(q) + d + (Len(Join(Join(r, y), w)) \div 2)
  <2>1. Join(Join(r, y), w) = v
    BY <1>6, <1>11, <1>14, Zenon DEF Beyond
  <2> QED BY <1>6, <1>12, <1>13, <1>14, <2>1, Zenon
<1>16. Good(sd, d, r, y, w, t, q, on)
  BY <1>1, <1>2, <1>15, Zenon DEF Good
<1>17. r = Decoded(x).rest /\ y = Beyond(p, k) /\ t = g \o Decoded(x).msgs
  BY <1>9, <1>10, <1>11, <1>14, Zenon
<1> QED BY <1>16, <1>17, Zenon

(* A connection ends: what the writer and the queue still held is gone.      *)
LEMMA GoodCut ==
    ASSUME NEW sd, NEW d, NEW b, NEW p, NEW w, NEW g, NEW q, NEW on, Good(sd, d, b, p, w, g, q, on)
    PROVE  Good(sd, d, b, p, <<>>, g, <<>>, FALSE)
<1>1. PICK n, a : n = Len(sd) /\ a = Join(b, p)
  OBVIOUS
<1>2. n \in Nat /\ b \in Seq(Unit(n)) /\ p \in Seq(Unit(n)) /\ w \in Seq(Unit(n)) /\ Line(g, Join(a, w), q, n)
  BY <1>1, LenProperties DEF Good
<1>3. a \in Seq(Unit(n))
  BY <1>1, <1>2, JoinOf
<1>4. Line(g, a, <<>>, n)
  BY <1>2, <1>3, LineCut DEF Join
<1>5. Join(a, <<>>) = a /\ <<>> \in Seq(Unit(n))
  BY <1>3, ConcatEmptySeq, EmptySeq DEF Join
<1> QED BY <1>1, <1>2, <1>4, <1>5, Zenon DEF Good

LEMMA GoodLeft ==
    ASSUME NEW sd, NEW d, NEW b, NEW p, NEW w, NEW g, NEW q, NEW on, Good(sd, d, b, p, w, g, q, on)
    PROVE  Good(sd, d, b, p, w, g, q, FALSE)
BY DEF Good

(* A client that connects has been said nothing yet.                         *)
LEMMA GoodMet ==
    ASSUME NEW d, NEW b, NEW p, NEW w, NEW g, NEW q, NEW on, Good(<<>>, d, b, p, w, g, q, on)
    PROVE  Good(<<>>, d, b, p, w, g, q, TRUE)
<1>1. PICK e, u : e = <<>> /\ u = Join(Join(b, p), w)
  OBVIOUS
<1>2. Len(e) = 0
  BY <1>1
<1>3. ASSUME NEW S, S = {}, NEW s \in Seq(S) PROVE Len(s) = 0
  <2>1. Len(s) \in Nat /\ \A i \in 1..Len(s) : s[i] \in S
    BY LenProperties, ElementOfSeq
  <2>2. ~(1 \in 1..Len(s))
    BY <1>3, <2>1
  <2> QED BY <2>1, <2>2
<1>4. Line(g, u, q, 0) /\ d \in 0..0
  BY <1>1, <1>2 DEF Good
<1>5. 1..0 = {} /\ Unit(0) = {}
  BY DEF Unit
<1>6. Len(g) = 0 /\ Len(q) = 0 /\ Len(u) = 0
  BY <1>3, <1>4, <1>5 DEF Line
<1>7. d = 0 /\ 0 % 2 = 0 /\ 0 = 0 + 0 + 0 + (0 \div 2)
  BY <1>4
<1>8. Good(e, d, b, p, w, g, q, TRUE)
  <2>1. Len(u) % 2 = 0 /\ Len(e) = Len(g) + Len(q) + d + (Len(u) \div 2)
    BY <1>2, <1>6, <1>7
  <2>2. Good(e, d, b, p, w, g, q, on)
    BY <1>1, Zenon
  <2> QED BY <1>1, <2>1, <2>2, Zenon DEF Good
<1> QED BY <1>1, <1>8, Zenon

-----------------------------------------------------------------------------
(* The same for the state: every client's channel is good.                   *)
ChanGood(e) == Good(said[e], dropped[e], buf[e], pipe[e], writing[e], handed[e], queue[e], conn[e] # {})
ChanFns ==
    /\ DOMAIN conn = Clients /\ DOMAIN queue = Clients /\ DOMAIN writing = Clients
    /\ DOMAIN pipe = Clients /\ DOMAIN buf = Clients /\ DOMAIN handed = Clients
    /\ DOMAIN dropped = Clients /\ DOMAIN said = Clients

LEMMA ChannelsAre == ChannelsInv <=> ChanFns /\ \A e \in Clients : ChanGood(e)
<1>1. ASSUME NEW e \in Clients PROVE ChannelOK(e) <=> ChanGood(e)
  BY DEF ChannelOK, ChanGood, Good, OnWay, Join
<1> QED BY <1>1 DEF ChannelsInv, ChanFns

LEMMA ChannelsAreNext == ChannelsInv' <=> ChanFns' /\ \A e \in Clients : ChanGood(e)'
<1>1. ASSUME NEW e \in Clients PROVE ChannelOK(e)' <=> ChanGood(e)'
  BY DEF ChannelOK, ChanGood, Good, OnWay, Join
<1> QED BY <1>1 DEF ChannelsInv, ChanFns

LEMMA ChannelsInit == IpcInit => ChannelsInv
<1> SUFFICES ASSUME IpcInit PROVE ChannelsInv
  OBVIOUS
<1>1. PICK z : z = <<>>
  OBVIOUS
<1>2. Len(z) = 0 /\ DOMAIN z = {} /\ z \in Seq(Nat) /\ z \in Seq(1..0) /\ z \in Seq(Unit(0)) /\ z \o z = z
  BY <1>1
<1>3. Line(z, z, z, 0)
  BY <1>2 DEF Line, Ordered, Rising, Framed
<1>4. Good(z, 0, z, z, z, z, z, FALSE)
  <2>1. Join(Join(z, z), z) = z
    BY <1>2 DEF Join
  <2>2. 0 \in 0..0
    OBVIOUS
  <2> QED BY <1>2, <1>3, <2>1, <2>2, Zenon DEF Good
<1>5. ChanFns
  BY DEF IpcInit, ChanFns
<1>6. ASSUME NEW e \in Clients PROVE ChanGood(e)
  <2>1. /\ said[e] = z /\ dropped[e] = 0 /\ buf[e] = z /\ pipe[e] = z /\ writing[e] = z
        /\ handed[e] = z /\ queue[e] = z /\ conn[e] = {}
    BY <1>1 DEF IpcInit
  <2>2. (conn[e] # {}) = FALSE
    BY <2>1
  <2> QED BY <1>4, <2>1, <2>2, Zenon DEF ChanGood
<1> QED BY <1>5, <1>6, ChannelsAre

\* what a step leaves alone of client e
Untouched(e) ==
    /\ said[e]' = said[e] /\ dropped[e]' = dropped[e] /\ buf[e]' = buf[e] /\ pipe[e]' = pipe[e]
    /\ writing[e]' = writing[e] /\ handed[e]' = handed[e] /\ queue[e]' = queue[e]

LEMMA UntouchedGood ==
    ASSUME NEW e \in Clients, ChanGood(e), Untouched(e), conn'[e] \in {conn[e], {}}
    PROVE  ChanGood(e)'
<1>1. Good(said[e], dropped[e], buf[e], pipe[e], writing[e], handed[e], queue[e], FALSE)
  BY GoodLeft, Zenon DEF ChanGood
<1>2. CASE conn'[e] = conn[e]
  BY <1>2, Zenon DEF ChanGood, Untouched
<1>3. CASE conn'[e] = {}
  <2>1. (conn'[e] # {}) = FALSE
    BY <1>3
  <2>2. Good(said'[e], dropped'[e], buf'[e], pipe'[e], writing'[e], handed'[e], queue'[e], FALSE)
    BY <1>1, Zenon DEF Untouched
  <2> QED BY <2>1, <2>2, Zenon DEF ChanGood
<1> QED BY <1>2, <1>3

LEMMA ChanSay ==
    ASSUME ChanFns, \A e \in Clients : ChanGood(e), NEW cs, Say(cs)
    PROVE  ChanFns' /\ \A e \in Clients : ChanGood(e)'
<1>1. ChanFns'
  BY DEF ChanFns, Say
<1>2. ASSUME NEW e \in Clients PROVE ChanGood(e)'
  <2>1. /\ buf'[e] = buf[e] /\ pipe'[e] = pipe[e] /\ writing'[e] = writing[e] /\ handed'[e] = handed[e]
        /\ conn'[e] = conn[e]
    BY DEF Say
  <2>2. CASE e \notin cs
    <3>1. Untouched(e)
      BY <2>1, <2>2 DEF Say, Untouched
    <3> QED BY <2>1, <3>1, UntouchedGood
  <2>3. CASE e \in cs
    <3>1. said'[e] = Append(said[e], Len(said[e]) + 1)
      BY <2>3 DEF Say
    <3>2. \/ queue'[e] = Append(queue[e], Len(said[e]) + 1) /\ dropped'[e] = dropped[e]
          \/ queue'[e] = queue[e] /\ dropped'[e] = dropped[e] + 1
      <4>1. /\ queue'[e] = IF HasRoom(e) THEN Append(queue[e], Len(said[e]) + 1) ELSE queue[e]
            /\ dropped'[e] = IF ~HasRoom(e) THEN dropped[e] + 1 ELSE dropped[e]
        BY <2>3 DEF Say
      <4> QED BY <4>1
    <3>3. Good(said[e], dropped[e], buf[e], pipe[e], writing[e], handed[e], queue[e], conn[e] # {})
      BY DEF ChanGood
    <3>4. /\ Good(said'[e], dropped[e], buf[e], pipe[e], writing[e], handed[e],
                  Append(queue[e], Len(said[e]) + 1), conn[e] # {})
          /\ Good(said'[e], dropped[e] + 1, buf[e], pipe[e], writing[e], handed[e], queue[e], conn[e] # {})
      BY <3>1, <3>3, GoodSaid, Zenon
    <3>5. CASE queue'[e] = Append(queue[e], Len(said[e]) + 1) /\ dropped'[e] = dropped[e]
      BY <2>1, <3>4, <3>5, Zenon DEF ChanGood
    <3>6. CASE queue'[e] = queue[e] /\ dropped'[e] = dropped[e] + 1
      BY <2>1, <3>4, <3>6, Zenon DEF ChanGood
    <3> QED BY <3>2, <3>5, <3>6
  <2> QED BY <2>2, <2>3
<1> QED BY <1>1, <1>2

LEMMA ChanTake ==
    ASSUME ChanFns, \A e \in Clients : ChanGood(e), NEW c \in Clients, Take(c)
    PROVE  ChanFns' /\ \A e \in Clients : ChanGood(e)'
<1>1. ChanFns'
  BY DEF ChanFns, Take
<1>2. ASSUME NEW e \in Clients PROVE ChanGood(e)'
  <2>1. CASE e # c
    <3>1. Untouched(e) /\ conn'[e] = conn[e]
      BY <2>1 DEF Take, Untouched, ChanFns
    <3> QED BY <3>1, UntouchedGood
  <2>2. CASE e = c
    <3>1. /\ writing[e] = <<>> /\ queue[e] # <<>> /\ (conn[e] # {}) = TRUE
          /\ writing'[e] = Encode(Head(queue[e])) /\ queue'[e] = Tail(queue[e])
      BY <2>2 DEF Take, ChanFns
    <3>2. /\ said'[e] = said[e] /\ dropped'[e] = dropped[e] /\ buf'[e] = buf[e] /\ pipe'[e] = pipe[e]
          /\ handed'[e] = handed[e] /\ conn'[e] = conn[e]
      BY DEF Take
    <3>3. Good(said[e], dropped[e], buf[e], pipe[e], <<>>, handed[e], queue[e], TRUE)
      BY <3>1, Zenon DEF ChanGood
    <3>4. Good(said[e], dropped[e], buf[e], pipe[e], Encode(Head(queue[e])), handed[e], Tail(queue[e]), TRUE)
      BY <3>1, <3>3, GoodTaken, Zenon
    <3> QED BY <3>1, <3>2, <3>4, Zenon DEF ChanGood
  <2> QED BY <2>1, <2>2
<1> QED BY <1>1, <1>2

LEMMA ChanWrite ==
    ASSUME ChanFns, \A e \in Clients : ChanGood(e), NEW c \in Clients, Write(c)
    PROVE  ChanFns' /\ \A e \in Clients : ChanGood(e)'
<1>1. ChanFns'
  BY DEF ChanFns, Write
<1>2. ASSUME NEW e \in Clients PROVE ChanGood(e)'
  <2>1. CASE e # c
    <3>1. Untouched(e) /\ conn'[e] = conn[e]
      BY <2>1 DEF Write, Untouched, ChanFns
    <3> QED BY <3>1, UntouchedGood
  <2>2. CASE e = c
    <3>1. /\ writing[e] # <<>>
          /\ writing'[e] = Tail(writing[e]) /\ pipe'[e] = Append(pipe[e], Head(writing[e]))
      BY <2>2 DEF Write, ChanFns
    <3>2. /\ said'[e] = said[e] /\ dropped'[e] = dropped[e] /\ buf'[e] = buf[e] /\ queue'[e] = queue[e]
          /\ handed'[e] = handed[e] /\ conn'[e] = conn[e]
      BY DEF Write
    <3>3. Good(said[e], dropped[e], buf[e], pipe[e], writing[e], handed[e], queue[e], conn[e] # {})
      BY DEF ChanGood
    <3>4. Good(said[e], dropped[e], buf[e], Append(pipe[e], Head(writing[e])), Tail(writing[e]),
               handed[e], queue[e], conn[e] # {})
      BY <3>1, <3>3, GoodWritten, Zenon
    <3> QED BY <3>1, <3>2, <3>4, Zenon DEF ChanGood
  <2> QED BY <2>1, <2>2
<1> QED BY <1>1, <1>2

LEMMA ChanReads ==
    ASSUME ChanFns, \A e \in Clients : ChanGood(e), NEW c \in Clients, Reads(c)
    PROVE  ChanFns' /\ \A e \in Clients : ChanGood(e)'
<1>1. ChanFns'
  BY DEF ChanFns, Reads
<1>2. ASSUME NEW e \in Clients PROVE ChanGood(e)'
  <2>1. CASE e # c
    <3>1. Untouched(e) /\ conn'[e] = conn[e]
      BY <2>1 DEF Reads, Untouched, ChanFns
    <3> QED BY <3>1, UntouchedGood
  <2>2. CASE e = c
    <3>1. PICK k \in 1..Len(pipe[e]) :
             LET d == Decoded(buf[e] \o SubSeq(pipe[e], 1, k))
             IN  /\ pipe' = [pipe EXCEPT ![e] = SubSeq(@, k + 1, Len(@))]
                 /\ buf' = [buf EXCEPT ![e] = d.rest]
                 /\ handed' = [handed EXCEPT ![e] = @ \o d.msgs]
      BY <2>2 DEF Reads
    <3>2. PICK x : x = buf[e] \o SubSeq(pipe[e], 1, k)
      OBVIOUS
    <3>3. /\ pipe'[e] = SubSeq(pipe[e], k + 1, Len(pipe[e]))
          /\ buf'[e] = Decoded(x).rest /\ handed'[e] = handed[e] \o Decoded(x).msgs
      BY <3>1, <3>2, Zenon DEF ChanFns
    <3>4. /\ said'[e] = said[e] /\ dropped'[e] = dropped[e] /\ writing'[e] = writing[e] /\ queue'[e] = queue[e]
          /\ conn'[e] = conn[e]
      BY DEF Reads
    <3>5. Good(said[e], dropped[e], buf[e], pipe[e], writing[e], handed[e], queue[e], conn[e] # {})
      BY DEF ChanGood
    <3>6. x = Join(buf[e], Begin(pipe[e], k)) /\ pipe'[e] = Beyond(pipe[e], k)
      BY <3>2, <3>3, Zenon DEF Join, Begin, Beyond
    <3>7. k \in 0..Len(pipe[e])
      <4>1. Len(pipe[e]) \in Nat
        BY <3>5, LenProperties DEF Good
      <4> QED BY <4>1
    <3>8. Good(said[e], dropped[e], Decoded(x).rest, Beyond(pipe[e], k), writing[e],
               handed[e] \o Decoded(x).msgs, queue[e], conn[e] # {})
      BY <3>5, <3>6, <3>7, GoodRead, Zenon
    <3> QED BY <3>3, <3>4, <3>6, <3>8, Zenon DEF ChanGood
  <2> QED BY <2>1, <2>2
<1> QED BY <1>1, <1>2

\* what a step that ends e's connection does to its channel
Cut(e) ==
    /\ said[e]' = said[e] /\ dropped[e]' = dropped[e] /\ buf[e]' = buf[e] /\ pipe[e]' = pipe[e]
    /\ handed[e]' = handed[e] /\ writing[e]' = <<>> /\ queue[e]' = <<>> /\ conn[e]' = {}

LEMMA CutGood ==
    ASSUME NEW e \in Clients, ChanGood(e), Cut(e)
    PROVE  ChanGood(e)'
<1>1. Good(said[e], dropped[e], buf[e], pipe[e], writing[e], handed[e], queue[e], conn[e] # {})
  BY DEF ChanGood
<1>2. Good(said[e], dropped[e], buf[e], pipe[e], <<>>, handed[e], <<>>, FALSE)
  BY <1>1, GoodCut, Zenon
<1>3. (conn'[e] # {}) = FALSE
  BY DEF Cut
<1> QED BY <1>2, <1>3, Zenon DEF ChanGood, Cut

LEMMA ChanNext ==
    ASSUME ChanFns, \A e \in Clients : ChanGood(e), [IpcNext]_ipcVars
    PROVE  ChanFns' /\ \A e \in Clients : ChanGood(e)'
<1> DEFINE Kept == ChanFns' /\ \A e \in Clients : ChanGood(e)'
<1>1. CASE UNCHANGED <<conn, queue, writing, pipe, buf, handed, dropped, said>>
  BY <1>1, UntouchedGood DEF ChanFns, Untouched
<1>2. ASSUME NEW h \in Hubs, HubEnds(h) PROVE Kept
  <2>1. ChanFns'
    BY <1>2 DEF ChanFns, HubEnds
  <2>2. ASSUME NEW e \in Clients PROVE ChanGood(e)'
    <3>1. CASE conn[e] = {h}
      <4>1. Cut(e)
        BY <1>2, <3>1 DEF HubEnds, Cut
      <4> QED BY <4>1, CutGood
    <3>2. CASE conn[e] # {h}
      <4>1. Untouched(e) /\ conn'[e] = conn[e]
        BY <1>2, <3>2 DEF HubEnds, Untouched
      <4> QED BY <4>1, UntouchedGood
    <3> QED BY <3>1, <3>2
  <2> QED BY <2>1, <2>2
<1>3. ASSUME NEW c \in Clients, Leaves(c) PROVE Kept
  <2>1. ChanFns'
    BY <1>3 DEF ChanFns, Leaves
  <2>2. ASSUME NEW e \in Clients PROVE ChanGood(e)'
    <3>1. CASE e = c
      <4>1. Cut(e)
        BY <1>3, <3>1 DEF Leaves, Cut, ChanFns
      <4> QED BY <4>1, CutGood
    <3>2. CASE e # c
      <4>1. Untouched(e) /\ conn'[e] = conn[e]
        BY <1>3, <3>2 DEF Leaves, Untouched, ChanFns
      <4> QED BY <4>1, UntouchedGood
    <3> QED BY <3>1, <3>2
  <2> QED BY <2>1, <2>2
<1>4. ASSUME NEW c \in Clients, Shutdown(c) PROVE Kept
  <2>1. ChanFns'
    BY <1>4 DEF ChanFns, Shutdown
  <2>2. ASSUME NEW e \in Clients PROVE ChanGood(e)'
    <3>1. Untouched(e) /\ conn'[e] \in {conn[e], {}}
      BY <1>4 DEF Shutdown, Untouched, ChanFns
    <3> QED BY <3>1, UntouchedGood
  <2> QED BY <2>1, <2>2
<1>5. ASSUME NEW c \in Clients, Connect(c) PROVE Kept
  <2>1. ChanFns'
    BY <1>5 DEF ChanFns, Connect
  <2>2. ASSUME NEW e \in Clients PROVE ChanGood(e)'
    <3>1. Untouched(e)
      BY <1>5 DEF Connect, Untouched
    <3>2. CASE e = c
      <4>1. said[e] = <<>> /\ (conn'[e] # {}) = TRUE
        BY <1>5, <3>2 DEF Connect, ChanFns
      <4>2. Good(<<>>, dropped[e], buf[e], pipe[e], writing[e], handed[e], queue[e], conn[e] # {})
        BY <4>1, Zenon DEF ChanGood
      <4>3. Good(<<>>, dropped[e], buf[e], pipe[e], writing[e], handed[e], queue[e], TRUE)
        BY <4>2, GoodMet, Zenon
      <4> QED BY <3>1, <4>1, <4>3, Zenon DEF ChanGood, Untouched
    <3>3. CASE e # c
      <4>1. conn'[e] = conn[e]
        BY <1>5, <3>3 DEF Connect, ChanFns
      <4> QED BY <3>1, <4>1, UntouchedGood
    <3> QED BY <3>2, <3>3
  <2> QED BY <2>1, <2>2
<1>6. CASE \E h \in Hubs : HubStarts(h) \/ Bind(h) \/ Probe(h) \/ Unlink(h) \/ BindAgain(h) \/ HubQuits(h) \/ HubEnds(h)
  <2>1. ASSUME NEW h \in Hubs, HubStarts(h) \/ Bind(h) \/ Probe(h) \/ Unlink(h) \/ BindAgain(h) \/ HubQuits(h)
        PROVE  UNCHANGED <<conn, queue, writing, pipe, buf, handed, dropped, said>>
    BY <2>1 DEF HubStarts, Bind, Probe, Unlink, BindAgain, HubQuits, streamVars
  <2> QED BY <1>1, <1>2, <1>6, <2>1
<1>7. CASE \E c \in Clients : Connect(c) \/ Take(c) \/ Write(c) \/ Reads(c) \/ Leaves(c)
                               \/ Garbles(c) \/ Reap(c) \/ Shutdown(c)
  <2>1. ASSUME NEW c \in Clients, Garbles(c) \/ Reap(c)
        PROVE  UNCHANGED <<conn, queue, writing, pipe, buf, handed, dropped, said>>
    BY <2>1 DEF Garbles, Reap
  <2> QED BY <1>1, <1>3, <1>4, <1>5, <1>7, <2>1, ChanTake, ChanWrite, ChanReads
<1>8. CASE \E cs \in SUBSET Clients : Say(cs)
  BY <1>8, ChanSay
<1>9. CASE UNCHANGED ipcVars
  BY <1>1, <1>9 DEF ipcVars
<1> QED BY <1>6, <1>7, <1>8, <1>9 DEF IpcNext

LEMMA ChannelsNext == ASSUME ChannelsInv, [IpcNext]_ipcVars PROVE ChannelsInv'
BY ChannelsAre, ChannelsAreNext, ChanNext

LEMMA ChannelsTell == ChannelsInv => WholeInOrder
<1> SUFFICES ASSUME ChannelsInv, NEW c \in Clients
             PROVE  /\ \A i, j \in DOMAIN handed[c] : i < j => handed[c][i] < handed[c][j]
                    /\ \A i \in DOMAIN handed[c] : handed[c][i] \in ToSet(said[c])
                    /\ conn[c] # {} =>
                         Len(said[c]) = Len(handed[c]) + Len(queue[c]) + dropped[c]
                                        + ((Len(writing[c]) + Len(pipe[c]) + Len(buf[c])) \div 2)
  BY DEF WholeInOrder
<1>1. ChannelOK(c)
  BY DEF ChannelsInv
<1>2. Line(handed[c], OnWay(c), queue[c], Len(said[c])) /\ said[c] \in Seq(Nat) /\ Len(said[c]) \in Nat
  BY <1>1, LenProperties DEF ChannelOK
<1>3. \A i, j \in DOMAIN handed[c] : i < j => handed[c][i] < handed[c][j]
  BY <1>2 DEF Line, Ordered
<1>4. ASSUME NEW i \in DOMAIN handed[c] PROVE handed[c][i] \in ToSet(said[c])
  <2>1. PICK a : a = handed[c][i] /\ a \in 1..Len(said[c])
    <3>1. handed[c] \in Seq(1..Len(said[c]))
      BY <1>2 DEF Line
    <3>2. handed[c][i] \in 1..Len(said[c])
      BY <3>1
    <3> QED BY <3>2
  <2>2. a \in DOMAIN said[c] /\ said[c][a] = a
    BY <1>1, <1>2, <2>1, LenProperties DEF ChannelOK
  <2> QED BY <2>1, <2>2 DEF ToSet
<1>5. Len(OnWay(c)) = Len(writing[c]) + Len(pipe[c]) + Len(buf[c])
  <2>1. PICK S, b, p, w : S = Unit(Len(said[c])) /\ b = buf[c] /\ p = pipe[c] /\ w = writing[c]
    OBVIOUS
  <2>2. b \in Seq(S) /\ p \in Seq(S) /\ w \in Seq(S)
    BY <1>1, <2>1 DEF ChannelOK
  <2>a. PICK a : a = Join(b, p)
    OBVIOUS
  <2>3. a \in Seq(S) /\ Len(a) = Len(b) + Len(p)
    BY <2>2, <2>a, JoinOf
  <2>4. Len(Join(a, w)) = Len(a) + Len(w)
    BY <2>2, <2>3, JoinOf
  <2>5. Len(b) \in Nat /\ Len(p) \in Nat /\ Len(w) \in Nat
    BY <2>2, LenProperties
  <2>6. (Len(b) + Len(p)) + Len(w) = Len(w) + Len(p) + Len(b)
    BY <2>5
  <2> QED BY <2>1, <2>a, <2>3, <2>4, <2>6, Zenon DEF OnWay, Join
<1>6. conn[c] # {} =>
         Len(said[c]) = Len(handed[c]) + Len(queue[c]) + dropped[c]
                        + ((Len(writing[c]) + Len(pipe[c]) + Len(buf[c])) \div 2)
  BY <1>1, <1>5, Zenon DEF ChannelOK
<1> QED BY <1>3, <1>4, <1>6

(* What a client is handed are whole messages, in the order they were said,   *)
(* none twice, and none is lost uncounted while the connection lasts           *)
(* (Server::broadcast, spawn_writer, the reader thread's Decoder).            *)
THEOREM IpcWholeInOrder == IpcSpec => []WholeInOrder
BY ChannelsInit, ChannelsNext, ChannelsTell, PTL DEF IpcSpec

-----------------------------------------------------------------------------
(* Commands: each command that talks to the tracker. *)

LEMMA CalProbeSteps ==
    /\ Len(CalProbe) = 4 /\ DOMAIN CalProbe = 1..4
    /\ CalProbe[1] = [op |-> "area", arg |-> "saved", silent |-> 1, failed |-> 1]
    /\ CalProbe[2] = [op |-> "start", arg |-> "none", silent |-> 99, failed |-> 99]
    /\ CalProbe[3] = [op |-> "read", arg |-> "deadline", silent |-> 1, failed |-> 1]
    /\ CalProbe[4] = [op |-> "stop", arg |-> "none", silent |-> 1, failed |-> 1]
BY DEF CalProbe, ReapplyDisplayArea, ReadUntil, SetDisplayArea, StartCalibration, StopCalibration, RetrieveCalibration, SubscribeStream, UnsubscribeStream, Must, May, Step, Abort, QuitNow

LEMMA CalProbeSound == Timed(CalProbe) /\ Saveless(CalProbe) /\ Balanced(CalProbe)
BY CalProbeSteps DEF Timed, Saveless, Balanced, LookOps, Stops, Unsubscribes

LEMMA CalPointsSteps ==
    /\ Len(CalPoints) = 5 /\ DOMAIN CalPoints = 1..5
    /\ CalPoints[1] = [op |-> "area", arg |-> "saved", silent |-> 1, failed |-> 1]
    /\ CalPoints[2] = [op |-> "points", arg |-> "none", silent |-> 1, failed |-> 1]
    /\ CalPoints[3] = [op |-> "start", arg |-> "none", silent |-> 99, failed |-> 99]
    /\ CalPoints[4] = [op |-> "points", arg |-> "none", silent |-> 1, failed |-> 1]
    /\ CalPoints[5] = [op |-> "stop", arg |-> "none", silent |-> 1, failed |-> 1]
BY DEF CalPoints, ReapplyDisplayArea, ReadUntil, SetDisplayArea, StartCalibration, StopCalibration, RetrieveCalibration, SubscribeStream, UnsubscribeStream, Must, May, Step, Abort, QuitNow

LEMMA CalPointsSound == Timed(CalPoints) /\ Saveless(CalPoints) /\ Balanced(CalPoints)
BY CalPointsSteps DEF Timed, Saveless, Balanced, LookOps, Stops, Unsubscribes

LEMMA DeviceLogSteps ==
    /\ Len(DeviceLog) = 4 /\ DOMAIN DeviceLog = 1..4
    /\ DeviceLog[1] = [op |-> "area", arg |-> "saved", silent |-> 1, failed |-> 1]
    /\ DeviceLog[2] = [op |-> "subscribe", arg |-> "log", silent |-> 0, failed |-> 0]
    /\ DeviceLog[3] = [op |-> "read", arg |-> "deadline", silent |-> 1, failed |-> 1]
    /\ DeviceLog[4] = [op |-> "unsubscribe", arg |-> "log", silent |-> 1, failed |-> 1]
BY DEF DeviceLog, ReapplyDisplayArea, ReadUntil, SetDisplayArea, StartCalibration, StopCalibration, RetrieveCalibration, SubscribeStream, UnsubscribeStream, Must, May, Step, Abort, QuitNow

LEMMA DeviceLogSound == Timed(DeviceLog) /\ Saveless(DeviceLog) /\ Balanced(DeviceLog)
BY DeviceLogSteps DEF Timed, Saveless, Balanced, LookOps, Stops, Unsubscribes

LEMMA CameraBothSteps ==
    /\ Len(CameraBoth) = 6 /\ DOMAIN CameraBoth = 1..6
    /\ CameraBoth[1] = [op |-> "area", arg |-> "saved", silent |-> 1, failed |-> 1]
    /\ CameraBoth[2] = [op |-> "subscribe", arg |-> "left", silent |-> 1, failed |-> 0]
    /\ CameraBoth[3] = [op |-> "subscribe", arg |-> "right", silent |-> 1, failed |-> 0]
    /\ CameraBoth[4] = [op |-> "read", arg |-> "deadline", silent |-> 1, failed |-> 1]
    /\ CameraBoth[5] = [op |-> "unsubscribe", arg |-> "left", silent |-> 1, failed |-> 1]
    /\ CameraBoth[6] = [op |-> "unsubscribe", arg |-> "right", silent |-> 1, failed |-> 1]
BY DEF CameraBoth, ReapplyDisplayArea, ReadUntil, SetDisplayArea, StartCalibration, StopCalibration, RetrieveCalibration, SubscribeStream, UnsubscribeStream, Must, May, Step, Abort, QuitNow

LEMMA CameraBothSound == Timed(CameraBoth) /\ Saveless(CameraBoth) /\ Balanced(CameraBoth)
BY CameraBothSteps DEF Timed, Saveless, Balanced, LookOps, Stops, Unsubscribes

LEMMA StreamCatalogSteps ==
    /\ Len(StreamCatalog) = 1 /\ DOMAIN StreamCatalog = 1..1
    /\ StreamCatalog[1] = [op |-> "catalog", arg |-> "none", silent |-> 1, failed |-> 0]
BY DEF StreamCatalog, ReapplyDisplayArea, ReadUntil, SetDisplayArea, StartCalibration, StopCalibration, RetrieveCalibration, SubscribeStream, UnsubscribeStream, Must, May, Step, Abort, QuitNow

LEMMA StreamCatalogSound == Timed(StreamCatalog) /\ Saveless(StreamCatalog) /\ Balanced(StreamCatalog)
BY StreamCatalogSteps DEF Timed, Saveless, Balanced, LookOps, Stops, Unsubscribes

LEMMA DisplayGetSteps ==
    /\ Len(DisplayGet) = 1 /\ DOMAIN DisplayGet = 1..1
    /\ DisplayGet[1] = [op |-> "get_area", arg |-> "none", silent |-> 0, failed |-> 0]
BY DEF DisplayGet, ReapplyDisplayArea, ReadUntil, SetDisplayArea, StartCalibration, StopCalibration, RetrieveCalibration, SubscribeStream, UnsubscribeStream, Must, May, Step, Abort, QuitNow

LEMMA DisplayGetSound == Timed(DisplayGet) /\ Saveless(DisplayGet) /\ Balanced(DisplayGet)
BY DisplayGetSteps DEF Timed, Saveless, Balanced, LookOps, Stops, Unsubscribes

LEMMA CalBlobSteps ==
    /\ Len(CalBlob) = 4 /\ DOMAIN CalBlob = 1..4
    /\ CalBlob[1] = [op |-> "area", arg |-> "saved", silent |-> 1, failed |-> 1]
    /\ CalBlob[2] = [op |-> "retrieve", arg |-> "none", silent |-> 0, failed |-> 0]
    /\ CalBlob[3] = [op |-> "apply", arg |-> "as-is", silent |-> 1, failed |-> 1]
    /\ CalBlob[4] = [op |-> "apply", arg |-> "stripped", silent |-> 1, failed |-> 1]
BY DEF CalBlob, ReapplyDisplayArea, ReadUntil, SetDisplayArea, StartCalibration, StopCalibration, RetrieveCalibration, SubscribeStream, UnsubscribeStream, Must, May, Step, Abort, QuitNow

LEMMA CalBlobSound == Timed(CalBlob) /\ Saveless(CalBlob)
BY CalBlobSteps DEF Timed, Saveless

LEMMA ProbeStreamSteps ==
    /\ Len(ProbeStream("left")) = 3 /\ DOMAIN ProbeStream("left") = 1..3
    /\ ProbeStream("left")[1] = [op |-> "area", arg |-> "saved", silent |-> 1, failed |-> 1]
    /\ ProbeStream("left")[2] = [op |-> "subscribe", arg |-> "left", silent |-> 1, failed |-> 0]
    /\ ProbeStream("left")[3] = [op |-> "read", arg |-> "deadline", silent |-> 1, failed |-> 1]
BY DEF ProbeStream, ReapplyDisplayArea, ReadUntil, SetDisplayArea, StartCalibration, StopCalibration, RetrieveCalibration, SubscribeStream, UnsubscribeStream, Must, May, Step, Abort, QuitNow

LEMMA ProbeStreamSound == Timed(ProbeStream("left")) /\ Saveless(ProbeStream("left"))
BY ProbeStreamSteps DEF Timed, Saveless

LEMMA CameraSteps ==
    /\ Len(Camera("left")) = 3 /\ DOMAIN Camera("left") = 1..3
    /\ Camera("left")[1] = [op |-> "area", arg |-> "saved", silent |-> 1, failed |-> 1]
    /\ Camera("left")[2] = [op |-> "subscribe", arg |-> "left", silent |-> 1, failed |-> 0]
    /\ Camera("left")[3] = [op |-> "read", arg |-> "count", silent |-> 1, failed |-> 1]
BY DEF Camera, ReapplyDisplayArea, ReadUntil, SetDisplayArea, StartCalibration, StopCalibration, RetrieveCalibration, SubscribeStream, UnsubscribeStream, Must, May, Step, Abort, QuitNow

LEMMA CameraSound == Timed(Camera("left")) /\ Saveless(Camera("left"))
BY CameraSteps DEF Timed, Saveless

LEMMA DumpStreamSteps ==
    /\ Len(DumpStream("log")) = 3 /\ DOMAIN DumpStream("log") = 1..3
    /\ DumpStream("log")[1] = [op |-> "area", arg |-> "saved", silent |-> 1, failed |-> 1]
    /\ DumpStream("log")[2] = [op |-> "subscribe", arg |-> "log", silent |-> 1, failed |-> 0]
    /\ DumpStream("log")[3] = [op |-> "read", arg |-> "count", silent |-> 1, failed |-> 1]
BY DEF DumpStream, ReapplyDisplayArea, ReadUntil, SetDisplayArea, StartCalibration, StopCalibration, RetrieveCalibration, SubscribeStream, UnsubscribeStream, Must, May, Step, Abort, QuitNow

LEMMA DumpStreamSound == Timed(DumpStream("log")) /\ Saveless(DumpStream("log"))
BY DumpStreamSteps DEF Timed, Saveless

LEMMA ColumnsCmdSteps ==
    /\ Len(ColumnsCmd) = 2 /\ DOMAIN ColumnsCmd = 1..2
    /\ ColumnsCmd[1] = [op |-> "area", arg |-> "saved", silent |-> 1, failed |-> 1]
    /\ ColumnsCmd[2] = [op |-> "read", arg |-> "forever", silent |-> 1, failed |-> 1]
BY DEF ColumnsCmd, ReapplyDisplayArea, ReadUntil, SetDisplayArea, StartCalibration, StopCalibration, RetrieveCalibration, SubscribeStream, UnsubscribeStream, Must, May, Step, Abort, QuitNow

LEMMA ColumnsCmdSound == Timed(ColumnsCmd) /\ Saveless(ColumnsCmd)
BY ColumnsCmdSteps DEF Timed, Saveless

LEMMA StreamSteps ==
    /\ Len(Stream) = 2 /\ DOMAIN Stream = 1..2
    /\ Stream[1] = [op |-> "area", arg |-> "saved", silent |-> 1, failed |-> 1]
    /\ Stream[2] = [op |-> "read", arg |-> "forever", silent |-> 1, failed |-> 1]
BY DEF Stream, ReapplyDisplayArea, ReadUntil, SetDisplayArea, StartCalibration, StopCalibration, RetrieveCalibration, SubscribeStream, UnsubscribeStream, Must, May, Step, Abort, QuitNow

LEMMA StreamSound == Timed(Stream) /\ Saveless(Stream)
BY StreamSteps DEF Timed, Saveless

LEMMA DisplaySetSteps ==
    /\ Len(DisplaySet) = 1 /\ DOMAIN DisplaySet = 1..1
    /\ DisplaySet[1] = [op |-> "area", arg |-> "saved", silent |-> 1, failed |-> 0]
BY DEF DisplaySet, ReapplyDisplayArea, ReadUntil, SetDisplayArea, StartCalibration, StopCalibration, RetrieveCalibration, SubscribeStream, UnsubscribeStream, Must, May, Step, Abort, QuitNow

LEMMA DisplaySetSound == Timed(DisplaySet) /\ Saveless(DisplaySet)
BY DisplaySetSteps DEF Timed, Saveless

LEMMA SetupAppliesSteps ==
    /\ Len(SetupApplies) = 1 /\ DOMAIN SetupApplies = 1..1
    /\ SetupApplies[1] = [op |-> "area", arg |-> "saved", silent |-> 1, failed |-> 99]
BY DEF SetupApplies, ReapplyDisplayArea, ReadUntil, SetDisplayArea, StartCalibration, StopCalibration, RetrieveCalibration, SubscribeStream, UnsubscribeStream, Must, May, Step, Abort, QuitNow

LEMMA SetupAppliesSound == Timed(SetupApplies) /\ Saveless(SetupApplies)
BY SetupAppliesSteps DEF Timed, Saveless
LEMMA CalibrateSound == Timed(Calibrate) /\ Saveless(Calibrate)
<1>1. [i \in 1..2 |-> AddCalibrationPoint(i)] = <<AddCalibrationPoint(1), AddCalibrationPoint(2)>>
  OBVIOUS
<1>2. /\ Len(Calibrate) = 11 /\ DOMAIN Calibrate = 1..11
      /\ \A i \in 1..11 : Calibrate[i].op # "save" /\ Calibrate[i].silent \in Nat /\ Calibrate[i].failed \in Nat
  BY <1>1 DEF Calibrate, AddCalibrationPoint, ClearCalibration, ComputeCalibration, ReapplyDisplayArea, ReadUntil, SetDisplayArea, StartCalibration, StopCalibration, RetrieveCalibration, SubscribeStream, UnsubscribeStream, Must, May, Step, Abort, QuitNow
<1> QED BY <1>2 DEF Timed, Saveless

LEMMA EnabledEyeSound == ASSUME NEW e PROVE Timed(EnabledEyeCmd(e)) /\ Saveless(EnabledEyeCmd(e))
<1>1. CASE e = "none"
  <2>1. Len(EnabledEyeCmd(e)) = 1 /\ DOMAIN EnabledEyeCmd(e) = 1..1
    BY <1>1 DEF EnabledEyeCmd, GetEnabledEye
  <2>2. EnabledEyeCmd(e)[1] = [op |-> "get_eye", arg |-> "none", silent |-> 1, failed |-> 0]
    BY <1>1 DEF EnabledEyeCmd, GetEnabledEye, May, Step, Abort
  <2> QED BY <2>1, <2>2 DEF Timed, Saveless
<1>2. CASE e # "none"
  <2>1. Len(EnabledEyeCmd(e)) = 2 /\ DOMAIN EnabledEyeCmd(e) = 1..2
    BY <1>2 DEF EnabledEyeCmd
  <2>2. /\ EnabledEyeCmd(e)[1] = [op |-> "eye", arg |-> e, silent |-> 1, failed |-> 0]
        /\ EnabledEyeCmd(e)[2] = [op |-> "get_eye", arg |-> "none", silent |-> 1, failed |-> 0]
    BY <1>2 DEF EnabledEyeCmd, GetEnabledEye, SetEnabledEye, May, Step, Abort
  <2> QED BY <2>1, <2>2 DEF Timed, Saveless
<1> QED BY <1>1, <1>2

LEMMA HeadposeSound == ASSUME NEW c PROVE Timed(Headpose(c)) /\ Saveless(Headpose(c))
<1> DEFINE until == IF "--calibrate-pitch" \in c.args THEN "pitch" ELSE "forever"
<1>1. CASE OpenModel(c)
  <2>1. Headpose(c) = ReapplyDisplayArea \o <<SubscribeStream("left")>> \o <<ReadUntil(until)>>
    BY <1>1 DEF Headpose
  <2> HIDE DEF until
  <2>2. /\ Len(Headpose(c)) = 3 /\ DOMAIN Headpose(c) = 1..3
        /\ Headpose(c)[1] = [op |-> "area", arg |-> "saved", silent |-> 1, failed |-> 1]
        /\ Headpose(c)[2] = [op |-> "subscribe", arg |-> "left", silent |-> 1, failed |-> 0]
        /\ Headpose(c)[3] = [op |-> "read", arg |-> until, silent |-> 1, failed |-> 1]
    BY <2>1 DEF ReapplyDisplayArea, ReadUntil, SetDisplayArea, SubscribeStream, May, Step, Abort
  <2> QED BY <2>2 DEF Timed, Saveless
<1>2. CASE ~OpenModel(c)
  <2>1. Headpose(c) = ReapplyDisplayArea \o <<>> \o <<ReadUntil(until)>>
    BY <1>2 DEF Headpose
  <2> HIDE DEF until
  <2>2. /\ Len(Headpose(c)) = 2 /\ DOMAIN Headpose(c) = 1..2
        /\ Headpose(c)[1] = [op |-> "area", arg |-> "saved", silent |-> 1, failed |-> 1]
        /\ Headpose(c)[2] = [op |-> "read", arg |-> until, silent |-> 1, failed |-> 1]
    BY <2>1 DEF ReapplyDisplayArea, ReadUntil, SetDisplayArea, SubscribeStream, May, Step, Abort
  <2> QED BY <2>2 DEF Timed, Saveless
<1> QED BY <1>1, <1>2

LEMMA ApplySound == Timed(<<ApplyCalibration("saved")>>) /\ Saveless(<<ApplyCalibration("saved")>>)
BY DEF ApplyCalibration, Must, Step, Abort, Timed, Saveless

(* A recording saves under its own name, last, and one of a calibration      *)
(* retrieves it third, where only an answer leads on.                        *)
LEMMA RecordingSteps ==
    ASSUME NEW a
    PROVE  /\ Timed(RecordSession(a))
           /\ \A i \in DOMAIN RecordSession(a) :
                 RecordSession(a)[i].op = "save" => /\ RecordSession(a)[i].arg = [path |-> PathOf(a), by |-> a]
                                                    /\ i = Len(RecordSession(a))
           /\ \A i \in DOMAIN RecordSession(a) :
                 /\ RecordSession(a)[i].silent \in {0, 1} /\ RecordSession(a)[i].failed \in {0, 1}
                 /\ RecordSession(a)[i].op \notin {"quit", "abort"}
           /\ WithCalibration(a) =>
                 /\ Len(RecordSession(a)) = 4 
                 /\ RecordSession(a)[3].op = "retrieve" /\ RecordSession(a)[3].silent = 0 /\ RecordSession(a)[3].failed = 0
<1> DEFINE p == RecordSession(a)
           last == [path |-> PathOf(a), by |-> a]
<1>1. CASE WithCalibration(a)
  <2>1. ~FramesOf(a)
    BY <1>1 DEF FramesOf
  <2>2. p = ReapplyDisplayArea \o <<GetEnabledEye>> \o <<RetrieveCalibration(Abort)>> \o <<>> \o <<Step("save", last, 1, Abort)>>
    BY <1>1, <2>1 DEF RecordSession
  <2> HIDE DEF p, last
  <2>3. /\ Len(p) = 4 /\ DOMAIN p = 1..4
        /\ p[1] = [op |-> "area", arg |-> "saved", silent |-> 1, failed |-> 1]
        /\ p[2] = [op |-> "get_eye", arg |-> "none", silent |-> 1, failed |-> 0]
        /\ p[3] = [op |-> "retrieve", arg |-> "none", silent |-> 0, failed |-> 0]
        /\ p[4] = [op |-> "save", arg |-> last, silent |-> 1, failed |-> 0]
    BY <2>2 DEF ReapplyDisplayArea, SetDisplayArea, GetEnabledEye, RetrieveCalibration, Must, May, Step, Abort
  <2>4. /\ Timed(p) /\ Len(p) = 4 /\ p[3].op = "retrieve" /\ p[3].silent = 0 /\ p[3].failed = 0
        /\ \A i \in DOMAIN p : /\ p[i].op = "save" => p[i].arg = last /\ i = Len(p)
                              /\ p[i].silent \in {0, 1} /\ p[i].failed \in {0, 1} /\ p[i].op \notin {"quit", "abort"}
    BY <2>3 DEF Timed
  <2> QED BY <1>1, <2>4 DEF p, last
<1>2. CASE ~WithCalibration(a) /\ FramesOf(a)
  <2>1. p = ReapplyDisplayArea \o <<GetEnabledEye>> \o <<>> \o
            <<SubscribeStream(GazeStream), ReadUntil("count"), UnsubscribeStream(GazeStream)>> \o
            <<Step("save", last, 1, Abort)>>
    BY <1>2 DEF RecordSession
  <2> HIDE DEF p, last
  <2>2. /\ Len(p) = 6 /\ DOMAIN p = 1..6
        /\ p[1] = [op |-> "area", arg |-> "saved", silent |-> 1, failed |-> 1]
        /\ p[2] = [op |-> "get_eye", arg |-> "none", silent |-> 1, failed |-> 0]
        /\ p[3] = [op |-> "subscribe", arg |-> GazeStream, silent |-> 1, failed |-> 0]
        /\ p[4] = [op |-> "read", arg |-> "count", silent |-> 1, failed |-> 1]
        /\ p[5] = [op |-> "unsubscribe", arg |-> GazeStream, silent |-> 1, failed |-> 1]
        /\ p[6] = [op |-> "save", arg |-> last, silent |-> 1, failed |-> 0]
    BY <2>1 DEF ReapplyDisplayArea, SetDisplayArea, GetEnabledEye, SubscribeStream, ReadUntil, UnsubscribeStream, May, Step, Abort
  <2>3. /\ Timed(p)
        /\ \A i \in DOMAIN p : /\ p[i].op = "save" => p[i].arg = last /\ i = Len(p)
                              /\ p[i].silent \in {0, 1} /\ p[i].failed \in {0, 1} /\ p[i].op \notin {"quit", "abort"}
    BY <2>2 DEF Timed
  <2> QED BY <1>2, <2>3 DEF p, last
<1>3. CASE ~WithCalibration(a) /\ ~FramesOf(a)
  <2>1. p = ReapplyDisplayArea \o <<GetEnabledEye>> \o <<>> \o <<>> \o <<Step("save", last, 1, Abort)>>
    BY <1>3 DEF RecordSession
  <2> HIDE DEF p, last
  <2>2. /\ Len(p) = 3 /\ DOMAIN p = 1..3
        /\ p[1] = [op |-> "area", arg |-> "saved", silent |-> 1, failed |-> 1]
        /\ p[2] = [op |-> "get_eye", arg |-> "none", silent |-> 1, failed |-> 0]
        /\ p[3] = [op |-> "save", arg |-> last, silent |-> 1, failed |-> 0]
    BY <2>1 DEF ReapplyDisplayArea, SetDisplayArea, GetEnabledEye, May, Step, Abort
  <2>3. /\ Timed(p)
        /\ \A i \in DOMAIN p : /\ p[i].op = "save" => p[i].arg = last /\ i = Len(p)
                              /\ p[i].silent \in {0, 1} /\ p[i].failed \in {0, 1} /\ p[i].op \notin {"quit", "abort"}
    BY <2>2 DEF Timed
  <2> QED BY <1>3, <2>3 DEF p, last
<1> QED BY <1>1, <1>2, <1>3
LEMMA SingleStep == ASSUME NEW S, NEW x \in S PROVE <<x>> \in Seq(S) /\ Len(<<x>>) = 1 /\ <<x>>[1] = x
<1>1. <<x>> \in Seq(S)
  OBVIOUS
<1>2. Len(<<x>>) = 1
  OBVIOUS
<1>3. <<x>>[1] = x
  OBVIOUS
<1> QED BY <1>1, <1>2, <1>3

(* What a sequence put together from two is. *)
MadeOf(s, a, b, m, n) ==
    /\ Len(s) = m + n
    /\ \A i \in 1..m : s[i] = a[i]
    /\ \A i \in 1..n : s[m + i] = b[i]

LEMMA Concatenated ==
    \A S : \A a, b \in Seq(S) : \A m, n \in Nat :
        Len(a) = m /\ Len(b) = n => a \o b \in Seq(S) /\ MadeOf(a \o b, a, b, m, n)
<1> SUFFICES ASSUME NEW S, NEW a \in Seq(S), NEW b \in Seq(S), NEW m \in Nat, NEW n \in Nat, Len(a) = m, Len(b) = n
             PROVE  a \o b \in Seq(S) /\ MadeOf(a \o b, a, b, m, n)
  OBVIOUS
<1>1. a \o b \in Seq(S) /\ Len(a \o b) = m + n
  BY ConcatProperties
<1>2. \A i \in 1..m : (a \o b)[i] = a[i]
  BY ConcatProperties
<1>3. ASSUME NEW i \in 1..n PROVE (a \o b)[m + i] = b[i]
  <2>1. m + i \in 1..(m + n) /\ ~(m + i <= m) /\ (m + i) - m = i
    OBVIOUS
  <2>2. (a \o b)[m + i] = b[(m + i) - m]
    BY <2>1, ConcatProperties
  <2> QED BY <2>1, <2>2
<1> QED BY <1>1, <1>2, <1>3 DEF MadeOf

Five(s, a, b, c, d, n) ==
    /\ Len(s) = n + n + 3
    /\ s[1] = a[1] /\ s[2] = b[1] /\ s[n + 3] = b[1]
    /\ \A i \in 1..n : s[2 + i] = c[i] /\ s[n + 3 + i] = d[i]

LEMMA FiveParts ==
    \A S : \A n \in Nat : \A a, b, c, d \in Seq(S) :
        Len(a) = 1 /\ Len(b) = 1 /\ Len(c) = n /\ Len(d) = n =>
            a \o b \o c \o b \o d \in Seq(S) /\ Five(a \o b \o c \o b \o d, a, b, c, d, n)
<1> TAKE S
<1> TAKE n \in Nat
<1> TAKE a, b, c, d \in Seq(S)
<1> HAVE Len(a) = 1 /\ Len(b) = 1 /\ Len(c) = n /\ Len(d) = n
<1>1. 1 \in Nat /\ 2 \in Nat /\ n + 2 \in Nat /\ n + 3 \in Nat
  OBVIOUS
<1>2. PICK two : two = a \o b
  OBVIOUS
<1>3. two \in Seq(S) /\ MadeOf(two, a, b, 1, 1)
  BY <1>1, <1>2, Concatenated, Zenon
<1>4. Len(two) = 2 /\ two[1] = a[1] /\ two[2] = b[1]
  <2>1. two[1 + 1] = b[1]
    BY <1>3 DEF MadeOf
  <2>2. two[1] = a[1]
    BY <1>3 DEF MadeOf
  <2>3. Len(two) = 1 + 1
    BY <1>3 DEF MadeOf
  <2> QED BY <2>1, <2>2, <2>3
<1>5. PICK three : three = two \o c
  OBVIOUS
<1>6. three \in Seq(S) /\ MadeOf(three, two, c, 2, n)
  BY <1>1, <1>3, <1>4, <1>5, Concatenated, Zenon
<1>7. Len(three) = n + 2 /\ three[1] = two[1] /\ three[2] = two[2] /\ \A i \in 1..n : three[2 + i] = c[i]
  BY <1>6 DEF MadeOf
<1>8. PICK four : four = three \o b
  OBVIOUS
<1>9. four \in Seq(S) /\ MadeOf(four, three, b, n + 2, 1)
  BY <1>1, <1>6, <1>7, <1>8, Concatenated, Zenon
<1>10. Len(four) = n + 3 /\ four[n + 3] = b[1] /\ \A i \in 1..(n + 2) : four[i] = three[i]
  <2>1. four[(n + 2) + 1] = b[1]
    BY <1>9 DEF MadeOf
  <2>2. (n + 2) + 1 = n + 3
    OBVIOUS
  <2>3. Len(four) = (n + 2) + 1 /\ \A i \in 1..(n + 2) : four[i] = three[i]
    BY <1>9 DEF MadeOf
  <2> QED BY <2>1, <2>2, <2>3
<1>11. PICK five : five = four \o d
  OBVIOUS
<1>12. five \in Seq(S) /\ MadeOf(five, four, d, n + 3, n)
  BY <1>1, <1>9, <1>10, <1>11, Concatenated, Zenon
<1>13. /\ Len(five) = n + n + 3
       /\ \A i \in 1..(n + 3) : five[i] = four[i]
       /\ \A i \in 1..n : five[n + 3 + i] = d[i]
  BY <1>12 DEF MadeOf
<1>14. a \o b \o c \o b \o d = five
  BY <1>2, <1>5, <1>8, <1>11, Zenon
<1>15. 1 \in 1..(n + 2) /\ 2 \in 1..(n + 2) /\ 1 \in 1..(n + 3) /\ 2 \in 1..(n + 3) /\ n + 3 \in 1..(n + 3)
  OBVIOUS
<1>16. five[1] = a[1] /\ five[2] = b[1] /\ five[n + 3] = b[1]
  BY <1>4, <1>7, <1>10, <1>13, <1>15
<1>17. ASSUME NEW i \in 1..n PROVE five[2 + i] = c[i]
  <2>1. 2 + i \in 1..(n + 2) /\ 2 + i \in 1..(n + 3)
    OBVIOUS
  <2> QED BY <1>7, <1>10, <1>13, <2>1
<1>18. five \in Seq(S) /\ Five(five, a, b, c, d, n)
  BY <1>12, <1>13, <1>16, <1>17 DEF Five
<1> QED BY <1>14, <1>18, Zenon
LEMMA ProbeStreamsSound ==
    ASSUME CommandsAssumption PROVE Timed(ProbeStreams) /\ Saveless(ProbeStreams) /\ Balanced(ProbeStreams)
<1> DEFINE n == Len(Probed)
           subs == [i \in DOMAIN Probed |-> May("subscribe", Probed[i], 1)]
           unsubs == [i \in DOMAIN Probed |-> UnsubscribeStream(Probed[i])]
           first == <<SetDisplayArea(1)>>
           read == <<ReadUntil("deadline")>>
<1>1. n \in Nat /\ DOMAIN Probed = 1..n
  BY DEF CommandsAssumption
<1>2. /\ Len(subs) = n /\ Len(unsubs) = n /\ DOMAIN subs = 1..n /\ DOMAIN unsubs = 1..n
      /\ \A i \in 1..n : /\ subs[i].op = "subscribe" /\ subs[i].arg = Probed[i]
                         /\ unsubs[i].op = "unsubscribe" /\ unsubs[i].arg = Probed[i]
                         /\ subs[i].silent = 1 /\ subs[i].failed = 1
                         /\ unsubs[i].silent = 1 /\ unsubs[i].failed = 1
  BY <1>1 DEF May, UnsubscribeStream, Step
<1>3. /\ Len(first) = 1 /\ first[1].op = "area" /\ DOMAIN first = 1..1
      /\ Len(read) = 1 /\ read[1].op = "read" /\ DOMAIN read = 1..1
      /\ first[1].silent = 1 /\ first[1].failed = 1 /\ read[1].silent = 1 /\ read[1].failed = 1
  BY DEF SetDisplayArea, ReadUntil, May, Step
<1>4. ProbeStreams = first \o read \o subs \o read \o unsubs
  BY DEF ProbeStreams, ReapplyDisplayArea
<1> DEFINE all == {first[1], read[1]} \cup {subs[i] : i \in 1..n} \cup {unsubs[i] : i \in 1..n}
           five == first \o read \o subs \o read \o unsubs
<1>5. first \in Seq(all) /\ read \in Seq(all) /\ subs \in Seq(all) /\ unsubs \in Seq(all)
  <2>1. subs = [i \in 1..n |-> subs[i]] /\ unsubs = [i \in 1..n |-> unsubs[i]]
    BY <1>1
  <2>2. SetDisplayArea(1) \in all /\ ReadUntil("deadline") \in all
    OBVIOUS
  <2>3. \A i \in 1..n : subs[i] \in all /\ unsubs[i] \in all
    OBVIOUS
  <2> HIDE DEF subs, unsubs, all
  <2>4. first \in Seq(all) /\ read \in Seq(all)
    BY <2>2, SingleStep
  <2>5. subs \in Seq(all) /\ unsubs \in Seq(all)
    BY <1>1, <2>1, <2>3
  <2> QED BY <2>4, <2>5
<1>6. ProbeStreams = five
  BY <1>4
<1> HIDE DEF subs, unsubs, first, read, all, n
<1>7. five \in Seq(all) /\ Five(five, first, read, subs, unsubs, n)
  BY <1>1, <1>2, <1>3, <1>5, FiveParts, Zenon
<1>8. /\ five \in Seq(all) /\ Len(five) = n + n + 3
      /\ five[1] = first[1] /\ five[2] = read[1] /\ five[n + 3] = read[1]
      /\ \A i \in 1..n : five[2 + i] = subs[i] /\ five[n + 3 + i] = unsubs[i]
  BY <1>7 DEF Five
<1> HIDE DEF five
<1>9. DOMAIN five = 1..(n + n + 3)
  BY <1>1, <1>8
<1>10. five[1].op = "area" /\ five[2].op = "read" /\ five[n + 3].op = "read"
  BY <1>3, <1>8
<1>11. \A i \in 1..n : /\ five[2 + i].op = "subscribe" /\ five[2 + i].arg = Probed[i]
                       /\ five[n + 3 + i].op = "unsubscribe" /\ five[n + 3 + i].arg = Probed[i]
  BY <1>2, <1>8
<1>12. /\ five[1].silent = 1 /\ five[1].failed = 1 /\ five[2].silent = 1 /\ five[2].failed = 1
        /\ five[n + 3].silent = 1 /\ five[n + 3].failed = 1
  BY <1>3, <1>8
<1>13. \A i \in 1..n : /\ five[2 + i].silent = 1 /\ five[2 + i].failed = 1
                        /\ five[n + 3 + i].silent = 1 /\ five[n + 3 + i].failed = 1
  BY <1>2, <1>8
<1>14. \A k \in 1..(n + n + 3) : k = 1 \/ k = 2 \/ k = n + 3 \/ (\E i \in 1..n : k = 2 + i) \/ \E i \in 1..n : k = n + 3 + i
  <2> SUFFICES ASSUME NEW k \in 1..(n + n + 3), k # 1, k # 2, k # n + 3
               PROVE  (\E i \in 1..n : k = 2 + i) \/ \E i \in 1..n : k = n + 3 + i
    OBVIOUS
  <2>1. CASE k < n + 3
    <3>1. k - 2 \in 1..n /\ k = 2 + (k - 2)
      BY <1>1, <2>1
    <3> QED BY <3>1
  <2>2. CASE k > n + 3
    <3>1. k - (n + 3) \in 1..n /\ k = n + 3 + (k - (n + 3))
      BY <1>1, <2>2
    <3> QED BY <3>1
  <2> QED BY <1>1, <2>1, <2>2
<1>15. ASSUME NEW k \in DOMAIN five
       PROVE  /\ five[k].op \in LookOps /\ five[k].op # "start"
              /\ five[k].op = "subscribe" => Unsubscribes(five, k + 1, five[k].arg)
              /\ five[k].silent = 1 /\ five[k].failed = 1
  <2>1. CASE k = 1 \/ k = 2 \/ k = n + 3
    BY <1>10, <1>12, <2>1 DEF LookOps
  <2>2. ASSUME NEW i \in 1..n, k = 2 + i
        PROVE  /\ five[k].op \in LookOps /\ five[k].op # "start" /\ Unsubscribes(five, k + 1, five[k].arg)
               /\ five[k].silent = 1 /\ five[k].failed = 1
    <3>1. five[k].op = "subscribe" /\ five[k].arg = Probed[i]
      BY <1>11, <2>2
    <3>2. n + 3 + i \in DOMAIN five /\ n + 3 + i >= k + 1
      BY <1>1, <1>9, <2>2
    <3>3. five[n + 3 + i].op = "unsubscribe" /\ five[n + 3 + i].arg = Probed[i]
      BY <1>11
    <3>4. five[k].silent = 1 /\ five[k].failed = 1
      BY <1>13, <2>2
    <3> QED BY <3>1, <3>2, <3>3, <3>4 DEF LookOps, Unsubscribes
  <2>3. ASSUME NEW i \in 1..n, k = n + 3 + i
        PROVE  /\ five[k].op \in LookOps /\ five[k].op # "start" /\ five[k].op # "subscribe"
               /\ five[k].silent = 1 /\ five[k].failed = 1
    BY <1>11, <1>13, <2>3 DEF LookOps
  <2> QED BY <1>9, <1>14, <2>1, <2>2, <2>3
<1>16. Len(five) \in Nat /\ DOMAIN five = 1..Len(five)
  BY <1>1, <1>8, <1>9
<1>17. Balanced(five)
  BY <1>15, <1>16 DEF Balanced
<1>18. Timed(five)
  BY <1>15, <1>16 DEF Timed
<1>19. Saveless(five)
  BY <1>15 DEF Saveless, LookOps
<1> QED BY <1>6, <1>17, <1>18, <1>19

(* What every program is. *)
Sound(p) ==
    /\ Timed(p.prog)
    /\ p.name \in Looks => Balanced(p.prog)
    /\ Saveless(p.prog) \/ \E a \in ArgLists : ~RefusesArgs(a) /\ p.prog = RecordSession(a)

LEMMA ProgramsSound == ASSUME CommandsAssumption PROVE \A p \in Programs : Sound(p)
<1>1. \A e : Sound([name |-> "enabled-eye", prog |-> EnabledEyeCmd(e)])
  BY EnabledEyeSound DEF Sound, Looks
<1>2. \A a \in ArgLists : ~RefusesArgs(a) => Sound([name |-> "record", prog |-> RecordSession(a)])
  BY RecordingSteps DEF Sound, Looks
<1>3. \A c : Sound([name |-> "headpose", prog |-> Headpose(ApplyGamesOptIn(c))])
  BY HeadposeSound DEF Sound, Looks
<1>4. /\ Sound([name |-> "cal-probe", prog |-> CalProbe])
      /\ Sound([name |-> "cal-points", prog |-> CalPoints])
      /\ Sound([name |-> "cal-blob", prog |-> CalBlob])
      /\ Sound([name |-> "probe-stream", prog |-> ProbeStream("left")])
      /\ Sound([name |-> "probe-streams", prog |-> ProbeStreams])
      /\ Sound([name |-> "streams", prog |-> StreamCatalog])
  BY CalProbeSound, CalPointsSound, CalBlobSound, ProbeStreamSound, ProbeStreamsSound, StreamCatalogSound DEF Sound, Looks
<1>5. /\ Sound([name |-> "log", prog |-> DeviceLog])
      /\ Sound([name |-> "camera-both", prog |-> CameraBoth])
      /\ Sound([name |-> "camera", prog |-> Camera("left")])
      /\ Sound([name |-> "dump-stream", prog |-> DumpStream("log")])
      /\ Sound([name |-> "columns", prog |-> ColumnsCmd])
      /\ Sound([name |-> "stream", prog |-> Stream])
  BY DeviceLogSound, CameraBothSound, CameraSound, DumpStreamSound, ColumnsCmdSound, StreamSound DEF Sound, Looks
<1>6. /\ Sound([name |-> "display-get", prog |-> DisplayGet])
      /\ Sound([name |-> "calibrate", prog |-> Calibrate])
      /\ Sound([name |-> "calibrate-apply", prog |-> <<ApplyCalibration("saved")>>])
      /\ Sound([name |-> "display-set", prog |-> DisplaySet])
  BY DisplayGetSound, CalibrateSound, ApplySound, DisplaySetSound DEF Sound, Looks
<1> QED BY <1>1, <1>2, <1>3, <1>4, <1>5, <1>6 DEF Programs
LEMMA SetupSound == Sound([name |-> "setup", prog |-> SetupApplies])
BY SetupAppliesSound DEF Sound, Looks
(* The programs as they begin. *)
LEMMA InitInv == ASSUME CommandsInit PROVE CommandsInv
<1>1. cli = [name |-> "none", prog |-> <<>>, at |-> 0, base |-> <<>>, seen |-> <<>>, took |-> {},
             age |-> 0, frame |-> "none", recentring |-> FALSE]
  BY DEF CommandsInit, NoCommand
<1>2. ~Running
  BY <1>1 DEF Running
<1>3. DeviceShape(et5) /\ CommandShape(cli) /\ flawed \in BOOLEAN
  BY <1>1 DEF CommandsInit, DeviceShape, CommandShape
<1>4. FixturesCover
  <2>1. /\ WithCalibration(<<"--calibration">>) /\ OptionsOf(<<>>) = {}
    BY DEF WithCalibration, OptionsOf, Contains, ToSet
  <2>2. ASSUME NEW f \in files
        PROVE  /\ f.path = "calibration.tobiicap" => f.blob
               /\ f.path = "session.tobiicap" => OptionsOf(f.by) = {}
               /\ IsNumber(f.path) => ~WithCalibration(f.by)
    <3>1. CASE f = Fixture("calibration.tobiicap", <<"--calibration">>)
      <4>1. f.path = "calibration.tobiicap" /\ f.blob = WithCalibration(<<"--calibration">>)
        BY <3>1 DEF Fixture
      <4> QED BY <2>1, <4>1 DEF IsNumber
    <3>2. CASE f = Fixture("session.tobiicap", <<>>)
      <4>1. f.path = "session.tobiicap" /\ f.by = <<>>
        BY <3>2 DEF Fixture
      <4> QED BY <2>1, <4>1 DEF IsNumber
    <3> QED BY <3>1, <3>2 DEF CommandsInit
  <2> QED BY <2>2 DEF FixturesCover
<1> QED BY <1>2, <1>3, <1>4 DEF CommandsInv, ShapeInv, LookInv, SaveInv

(* A command that begins, one that ends, and one that goes on. *)
LEMMA ConnectsInv ==
    ASSUME CommandsInv, NEW p, Sound(p), CommandConnects(p), files' = files PROVE CommandsInv'
<1>1. cli' = [name |-> p.name, prog |-> p.prog, at |-> 1, base |-> <<>>, seen |-> <<>>, took |-> {},
              age |-> 0, frame |-> "none", recentring |-> FALSE]
  BY DEF CommandConnects, NoCommand
<1>2. et5' = [et5 EXCEPT !.streams = @ \cup {GazeStream}] /\ found' = et5' /\ flawed' = FALSE
  BY DEF CommandConnects
<1>3. DeviceShape(et5')
  BY <1>2 DEF CommandsInv, ShapeInv, DeviceShape
<1>4. Timed(p.prog) /\ (p.name \in Looks => Balanced(p.prog))
      /\ (Saveless(p.prog) \/ \E a \in ArgLists : ~RefusesArgs(a) /\ p.prog = RecordSession(a))
  BY DEF Sound
<1>5. cli'.name = p.name /\ cli'.prog = p.prog /\ cli'.at = 1 /\ CommandShape(cli')
  BY <1>1 DEF CommandShape
<1>6. ShapeInv'
  <2>0. flawed' \in BOOLEAN
    BY <1>2
  <2>1. cli'.at \in Nat /\ cli'.at >= 1
    BY <1>5
  <2>2. Timed(cli'.prog)
    BY <1>4, <1>5
  <2> QED BY <1>3, <1>5, <2>0, <2>1, <2>2 DEF ShapeInv
<1>7. LookInv'
  BY <1>2, <1>4, <1>5 DEF LookInv
<1>8. SaveInv'
  BY <1>4, <1>5 DEF SaveInv
<1>9. FixturesCover'
  BY DEF CommandsInv, FixturesCover
<1> QED BY <1>6, <1>7, <1>8, <1>9 DEF CommandsInv

LEMMA EndsInv ==
    ASSUME NEW word, NEW d, DeviceShape(d), CommandEnds(word, d), FixturesCover' PROVE CommandsInv'
<1>1. cli' = [name |-> "none", prog |-> <<>>, at |-> 0, base |-> <<>>, seen |-> <<>>, took |-> {},
              age |-> 0, frame |-> "none", recentring |-> FALSE]
  BY DEF CommandEnds, NoCommand
<1>2. et5' = [d EXCEPT !.open = FALSE, !.streams = {}, !.area = "stub"] /\ flawed' = FALSE
  BY DEF CommandEnds, Rebooted
<1>3. DeviceShape(et5') /\ CommandShape(cli') /\ ~Running'
  BY <1>1, <1>2 DEF DeviceShape, CommandShape, Running
<1> QED BY <1>2, <1>3 DEF CommandsInv, ShapeInv, LookInv, SaveInv

LEMMA GoesInv ==
    ASSUME CommandsInv, Running, FixturesCover',
           NEW by \in Nat, NEW d, NEW c, NEW unanswered \in BOOLEAN, Goes(by, d, c, unanswered),
           DeviceShape(d), CommandShape(c), c.name = cli.name, c.prog = cli.prog, c.at = cli.at,
           cli.name \in Looks /\ Balanced(cli.prog) /\ ~flawed /\ ~unanswered /\ by # Abort =>
              /\ d.cal = found.cal
              /\ \A id \in d.streams : id \in found.streams \/ Unsubscribes(cli.prog, cli.at + by, id)
              /\ d.open => found.open \/ Stops(cli.prog, cli.at + by),
           \A a \in ArgLists :
              cli.prog = RecordSession(a) /\ WithCalibration(a) /\ (cli.at > 3 => "retrieve" \in cli.took)
                 /\ by # Abort /\ cli.at + by > 3 => "retrieve" \in c.took
    PROVE  CommandsInv'
<1>1. CASE by = Abort
  <2>1. CommandEnds("error", d)
    BY <1>1 DEF Goes
  <2> QED BY <2>1, EndsInv
<1>2. CASE by # Abort
  <2>1. /\ et5' = d /\ cli' = [c EXCEPT !.at = @ + by] /\ flawed' = (flawed \/ unanswered)
        /\ found' = found
    BY <1>2 DEF Goes
  <2>2. cli' = [name |-> c.name, prog |-> c.prog, at |-> c.at + by, base |-> c.base, seen |-> c.seen,
                took |-> c.took, age |-> c.age, frame |-> c.frame, recentring |-> c.recentring]
    BY <2>1 DEF CommandShape
  <2>3. CommandShape(cli') /\ cli'.name = cli.name /\ cli'.prog = cli.prog /\ cli'.at = cli.at + by
        /\ cli'.took = c.took
    BY <2>2 DEF CommandShape
  <2>4. cli'.at \in Nat /\ cli'.at >= 1
    BY <2>3 DEF CommandsInv, ShapeInv
  <2>5. ShapeInv'
    <3>1. flawed' \in BOOLEAN
      BY <2>1 DEF CommandsInv, ShapeInv
    <3> QED BY <2>1, <2>3, <2>4, <3>1 DEF CommandsInv, ShapeInv
  <2>6. LookInv'
    <3> SUFFICES ASSUME cli.name \in Looks PROVE LookInv'
      BY <2>3 DEF LookInv
    <3>1. Balanced(cli.prog)
      BY DEF CommandsInv, LookInv
    <3>2. CASE flawed \/ unanswered
      <4>1. flawed'
        BY <2>1, <3>2
      <4> QED BY <2>3, <3>1, <4>1 DEF LookInv
    <3>3. CASE ~flawed /\ ~unanswered
      <4>1. /\ d.cal = found.cal
            /\ \A id \in d.streams : id \in found.streams \/ Unsubscribes(cli.prog, cli.at + by, id)
            /\ d.open => found.open \/ Stops(cli.prog, cli.at + by)
        BY <1>2, <3>1, <3>3
      <4> QED BY <2>1, <2>3, <3>1, <4>1 DEF LookInv
    <3> QED BY <3>2, <3>3
  <2>7. SaveInv'
    <3> SUFFICES ASSUME ~Saveless(cli.prog)
                 PROVE  \E a \in ArgLists : /\ ~RefusesArgs(a) /\ cli.prog = RecordSession(a)
                                            /\ WithCalibration(a) /\ cli.at + by > 3 => "retrieve" \in c.took
      BY <2>3 DEF SaveInv
    <3>1. PICK a \in ArgLists : /\ ~RefusesArgs(a) /\ cli.prog = RecordSession(a)
                                /\ WithCalibration(a) /\ cli.at > 3 => "retrieve" \in cli.took
      BY DEF CommandsInv, SaveInv
    <3> QED BY <1>2, <3>1
  <2> QED BY <2>5, <2>6, <2>7 DEF CommandsInv
<1> QED BY <1>1, <1>2

(* What the tracker does with a request. *)
LEMMA DoesShape == ASSUME NEW d, DeviceShape(d), NEW op, NEW arg PROVE DeviceShape(Does(op, arg, d))
<1>1. /\ \A x : DeviceShape([d EXCEPT !.open = x])
      /\ \A x : DeviceShape([d EXCEPT !.area = x])
      /\ \A x : DeviceShape([d EXCEPT !.eye = x])
  BY DEF DeviceShape
<1>2. /\ DeviceShape([d EXCEPT !.open = TRUE]) /\ DeviceShape([d EXCEPT !.open = FALSE])
      /\ DeviceShape([d EXCEPT !.area = "set"]) /\ DeviceShape([d EXCEPT !.eye = arg])
  BY <1>1
<1>3. /\ DeviceShape([d EXCEPT !.cal = "cleared"]) /\ DeviceShape([d EXCEPT !.cal = "other"])
      /\ DeviceShape([d EXCEPT !.cal = "short"]) /\ DeviceShape([d EXCEPT !.cal = "own"])
  BY DEF DeviceShape
<1>4. /\ DeviceShape([d EXCEPT !.streams = @ \cup {arg}]) /\ DeviceShape([d EXCEPT !.streams = @ \ {arg}])
  BY DEF DeviceShape
<1> QED BY <1>2, <1>3, <1>4 DEF Does

LEMMA LookDoes ==
    ASSUME NEW d, DeviceShape(d), NEW op \in LookOps, NEW arg
    PROVE  /\ Does(op, arg, d).cal = d.cal
           /\ Does(op, arg, d).streams = IF op = "subscribe" THEN d.streams \cup {arg}
                                         ELSE IF op = "unsubscribe" THEN d.streams \ {arg} ELSE d.streams
           /\ op = "stop" => ~Does(op, arg, d).open
           /\ op \notin {"start", "stop"} => Does(op, arg, d).open = d.open
<1>1. CASE op = "start"
  BY <1>1 DEF Does, DeviceShape
<1>2. CASE op = "stop"
  BY <1>2 DEF Does, DeviceShape
<1>3. CASE op = "subscribe"
  BY <1>3 DEF Does, DeviceShape
<1>4. CASE op = "unsubscribe"
  BY <1>4 DEF Does, DeviceShape
<1>5. CASE op = "area"
  BY <1>5 DEF Does, DeviceShape
<1>6. CASE op \in {"points", "catalog", "get_area", "read"}
  BY <1>6 DEF Does
<1> QED BY <1>1, <1>2, <1>3, <1>4, <1>5, <1>6 DEF LookOps

(* The step at hand. *)
LEMMA NowIs ==
    ASSUME CommandsInv, Running, cli.at <= Len(cli.prog)
    PROVE  /\ cli.at \in DOMAIN cli.prog /\ Now.silent \in Nat /\ Now.failed \in Nat
           /\ cli.at \in Nat /\ cli.at + 1 \in Nat
<1>1. Timed(cli.prog) /\ cli.at \in Nat /\ cli.at >= 1
  BY DEF CommandsInv, ShapeInv
<1>2. cli.at \in DOMAIN cli.prog
  BY <1>1 DEF Timed
<1> QED BY <1>1, <1>2 DEF Timed, Now

(* What is still to be undone after a step that is not its undoing. *)
LEMMA StillToUndo ==
    ASSUME CommandsInv, Running, cli.at <= Len(cli.prog)
    PROVE  /\ \A id : Unsubscribes(cli.prog, cli.at, id) /\ ~(Now.op = "unsubscribe" /\ Now.arg = id)
                         => Unsubscribes(cli.prog, cli.at + 1, id)
           /\ Stops(cli.prog, cli.at) /\ Now.op # "stop" => Stops(cli.prog, cli.at + 1)
<1>1. cli.at \in Nat /\ DOMAIN cli.prog \subseteq Nat
  BY DEF CommandsInv, ShapeInv, Timed
<1>2. ASSUME NEW id, Unsubscribes(cli.prog, cli.at, id), ~(Now.op = "unsubscribe" /\ Now.arg = id)
      PROVE  Unsubscribes(cli.prog, cli.at + 1, id)
  <2>1. PICK j \in DOMAIN cli.prog : j >= cli.at /\ cli.prog[j].op = "unsubscribe" /\ cli.prog[j].arg = id
    BY <1>2 DEF Unsubscribes
  <2>2. j # cli.at
    BY <1>2, <2>1 DEF Now
  <2>3. j >= cli.at + 1
    BY <1>1, <2>1, <2>2
  <2> QED BY <2>1, <2>3 DEF Unsubscribes
<1>3. ASSUME Stops(cli.prog, cli.at), Now.op # "stop" PROVE Stops(cli.prog, cli.at + 1)
  <2>1. PICK j \in DOMAIN cli.prog : j >= cli.at /\ cli.prog[j].op = "stop"
    BY <1>3 DEF Stops
  <2>2. j # cli.at
    BY <1>3, <2>1 DEF Now
  <2>3. j >= cli.at + 1
    BY <1>1, <2>1, <2>2
  <2> QED BY <2>1, <2>3 DEF Stops
<1> QED BY <1>2, <1>3

(* An answered step of a command that looks. *)
LEMMA LookStep ==
    ASSUME CommandsInv, Running, cli.at <= Len(cli.prog), cli.name \in Looks, ~flawed
    PROVE  /\ LET d == Does(Now.op, Now.arg, et5) IN
              /\ d.cal = found.cal
              /\ \A id \in d.streams : id \in found.streams \/ Unsubscribes(cli.prog, cli.at + 1, id)
              /\ d.open => found.open \/ Stops(cli.prog, cli.at + 1)
           /\ Now.op \in LookOps
<1> DEFINE d == Does(Now.op, Now.arg, et5)
<1>1. /\ Balanced(cli.prog) /\ et5.cal = found.cal
      /\ \A id \in et5.streams : id \in found.streams \/ Unsubscribes(cli.prog, cli.at, id)
      /\ et5.open => found.open \/ Stops(cli.prog, cli.at)
  BY DEF CommandsInv, LookInv
<1>2. /\ Now.op \in LookOps
      /\ Now.op = "subscribe" => Unsubscribes(cli.prog, cli.at + 1, Now.arg)
      /\ Now.op = "start" => Stops(cli.prog, cli.at + 1)
  BY <1>1, NowIs DEF Balanced, Now
<1>3. DeviceShape(et5)
  BY DEF CommandsInv, ShapeInv
<1>4. /\ d.cal = et5.cal
      /\ d.streams = IF Now.op = "subscribe" THEN et5.streams \cup {Now.arg}
                     ELSE IF Now.op = "unsubscribe" THEN et5.streams \ {Now.arg} ELSE et5.streams
      /\ Now.op = "stop" => ~d.open
      /\ Now.op \notin {"start", "stop"} => d.open = et5.open
  BY <1>2, <1>3, LookDoes
<1> HIDE DEF d
<1>5. ASSUME NEW id \in d.streams PROVE id \in found.streams \/ Unsubscribes(cli.prog, cli.at + 1, id)
  <2>1. CASE Now.op = "subscribe" /\ id = Now.arg
    BY <1>2, <2>1
  <2>2. CASE ~(Now.op = "subscribe" /\ id = Now.arg)
    <3>1. id \in et5.streams /\ ~(Now.op = "unsubscribe" /\ Now.arg = id)
      BY <1>4, <1>5, <2>2
    <3> QED BY <1>1, <3>1, StillToUndo
  <2> QED BY <2>1, <2>2
<1>6. ASSUME d.open PROVE found.open \/ Stops(cli.prog, cli.at + 1)
  <2>1. CASE Now.op = "start"
    BY <1>2, <2>1
  <2>2. CASE Now.op # "start"
    <3>1. Now.op # "stop" /\ et5.open
      BY <1>4, <1>6, <2>2
    <3> QED BY <1>1, <3>1, StillToUndo
  <2> QED BY <2>1, <2>2
<1> QED BY <1>1, <1>2, <1>4, <1>5, <1>6 DEF d

(* A recording goes past its retrieving with the calibration in hand, or     *)
(* not at all.                                                               *)
LEMMA RecordGoes ==
    ASSUME CommandsInv, Running, cli.at <= Len(cli.prog), NEW by \in Nat, NEW took, cli.took \subseteq took,
           Now.op = "retrieve" => "retrieve" \in took \/ by = Now.silent \/ by = Now.failed,
           by = 1 \/ by = Now.silent \/ by = Now.failed \/ Now.op \in {"quit", "abort"}
    PROVE  \A a \in ArgLists :
              cli.prog = RecordSession(a) /\ WithCalibration(a) /\ (cli.at > 3 => "retrieve" \in cli.took)
                 /\ by # Abort /\ cli.at + by > 3 => "retrieve" \in took
<1> SUFFICES ASSUME NEW a \in ArgLists, cli.prog = RecordSession(a), WithCalibration(a),
                    cli.at > 3 => "retrieve" \in cli.took, by # Abort, cli.at + by > 3
             PROVE  "retrieve" \in took
  OBVIOUS
<1>1. cli.at \in Nat /\ cli.at \in DOMAIN cli.prog
  BY NowIs
<1>2. /\ cli.prog[cli.at].silent \in {0, 1} /\ cli.prog[cli.at].failed \in {0, 1}
      /\ cli.prog[cli.at].op \notin {"quit", "abort"}
      /\ cli.prog[3].op = "retrieve" /\ cli.prog[3].silent = 0 /\ cli.prog[3].failed = 0
  <2>1. /\ RecordSession(a)[cli.at].silent \in {0, 1} /\ RecordSession(a)[cli.at].failed \in {0, 1}
        /\ RecordSession(a)[cli.at].op \notin {"quit", "abort"}
    BY <1>1, RecordingSteps
  <2>2. /\ RecordSession(a)[3].op = "retrieve" /\ RecordSession(a)[3].silent = 0
        /\ RecordSession(a)[3].failed = 0
    BY RecordingSteps
  <2> QED BY <2>1, <2>2
<1>3. by = 0 \/ by = 1
  BY <1>2 DEF Now
<1>4. CASE cli.at > 3
  BY <1>4
<1>5. CASE ~(cli.at > 3)
  <2>1. cli.at = 3
    BY <1>1, <1>3, <1>5 DEF Abort
  <2>2. Now.op = "retrieve" /\ Now.silent = 0 /\ Now.failed = 0
    BY <1>2, <2>1 DEF Now
  <2> QED BY <2>2 DEF Abort
<1> QED BY <1>4, <1>5

LEMMA FilesKept == ASSUME CommandsInv, files' = files PROVE FixturesCover'
BY DEF CommandsInv, FixturesCover

LEMMA Shaped ==
    ASSUME CommandsInv
    PROVE  /\ DeviceShape(et5) /\ CommandShape(cli) /\ flawed \in BOOLEAN
           /\ \A op, arg : DeviceShape(Does(op, arg, et5))
<1>1. DeviceShape(et5) /\ CommandShape(cli) /\ flawed \in BOOLEAN
  BY DEF CommandsInv, ShapeInv
<1> QED BY <1>1, DoesShape

LEMMA ReplyInv == ASSUME CommandsInv, ReplyComes PROVE CommandsInv'
<1> DEFINE took == IF Now.op \in {"subscribe", "retrieve"} THEN cli.took \cup {Now.op} ELSE cli.took
           c == [cli EXCEPT !.took = IF Now.op \in {"subscribe", "retrieve"} THEN @ \cup {Now.op} ELSE @]
           d == Does(Now.op, Now.arg, et5)
<1>1. Running /\ cli.at <= Len(cli.prog) /\ Goes(1, d, c, FALSE) /\ files' = files
  BY DEF ReplyComes, IsRequest
<1>2. c = [cli EXCEPT !.took = took]
  OBVIOUS
<1>3. cli.took \subseteq took /\ (Now.op = "retrieve" => "retrieve" \in took)
  OBVIOUS
<1> HIDE DEF took, c
<1>4. CommandShape(c) /\ c.name = cli.name /\ c.prog = cli.prog /\ c.at = cli.at /\ c.took = took
  BY <1>2, Shaped DEF CommandShape
<1>5. \A a \in ArgLists :
         cli.prog = RecordSession(a) /\ WithCalibration(a) /\ (cli.at > 3 => "retrieve" \in cli.took)
            /\ 1 # Abort /\ cli.at + 1 > 3 => "retrieve" \in c.took
  BY <1>1, <1>3, <1>4, RecordGoes
<1>6. ASSUME cli.name \in Looks, ~flawed
      PROVE  /\ d.cal = found.cal
             /\ \A id \in d.streams : id \in found.streams \/ Unsubscribes(cli.prog, cli.at + 1, id)
             /\ d.open => found.open \/ Stops(cli.prog, cli.at + 1)
  BY <1>1, <1>6, LookStep
<1>7. DeviceShape(d) /\ FixturesCover'
  BY <1>1, Shaped, FilesKept
<1> HIDE DEF d
<1> QED BY <1>1, <1>4, <1>5, <1>6, <1>7, GoesInv

LEMMA UnansweredInv == ASSUME CommandsInv, Silent \/ Failed PROVE CommandsInv'
<1>1. PICK d, by : /\ Goes(by, d, cli, TRUE) /\ DeviceShape(d) /\ by \in {Now.silent, Now.failed}
                   /\ Running /\ cli.at <= Len(cli.prog) /\ files' = files
  BY Shaped DEF Silent, Failed, IsRequest
<1>2. by \in Nat
  BY <1>1, NowIs
<1>3. \A a \in ArgLists :
         cli.prog = RecordSession(a) /\ WithCalibration(a) /\ (cli.at > 3 => "retrieve" \in cli.took)
            /\ by # Abort /\ cli.at + by > 3 => "retrieve" \in cli.took
  BY <1>1, <1>2, RecordGoes
<1>4. CommandShape(cli) /\ FixturesCover' /\ TRUE \in BOOLEAN
  BY <1>1, Shaped, FilesKept
<1> QED BY <1>1, <1>2, <1>3, <1>4, GoesInv

(* A step that asks the tracker for nothing. *)
LEMMA LookKept ==
    ASSUME CommandsInv, Running, cli.at <= Len(cli.prog), cli.name \in Looks, ~flawed, 
           Now.op \notin {"stop", "unsubscribe"}
    PROVE  /\ et5.cal = found.cal
           /\ \A id \in et5.streams : id \in found.streams \/ Unsubscribes(cli.prog, cli.at + 1, id)
           /\ et5.open => found.open \/ Stops(cli.prog, cli.at + 1)
<1>1. /\ et5.cal = found.cal
      /\ \A id \in et5.streams : id \in found.streams \/ Unsubscribes(cli.prog, cli.at, id)
      /\ et5.open => found.open \/ Stops(cli.prog, cli.at)
  BY DEF CommandsInv, LookInv
<1> QED BY <1>1, StillToUndo

LEMMA QuietGoes ==
    ASSUME CommandsInv, Running, cli.at <= Len(cli.prog), FixturesCover',
           NEW by \in {1, Abort}, NEW c, Goes(by, et5, c, FALSE),
           CommandShape(c), c.name = cli.name, c.prog = cli.prog, c.at = cli.at, c.took = cli.took,
           Now.op \in {"area", "read", "save"}
    PROVE  CommandsInv'
<1>1. by \in Nat
  BY DEF Abort
<1>2. CASE by = Abort
  <2>1. CommandEnds("error", et5)
    BY <1>2 DEF Goes
  <2> QED BY <2>1, EndsInv, Shaped
<1>3. CASE by = 1
  <2>1. \A a \in ArgLists :
           cli.prog = RecordSession(a) /\ WithCalibration(a) /\ (cli.at > 3 => "retrieve" \in cli.took)
              /\ by # Abort /\ cli.at + by > 3 => "retrieve" \in c.took
    BY <1>1, <1>3, RecordGoes
  <2>2. ASSUME cli.name \in Looks, ~flawed
        PROVE  /\ et5.cal = found.cal
               /\ \A id \in et5.streams : id \in found.streams \/ Unsubscribes(cli.prog, cli.at + by, id)
               /\ et5.open => found.open \/ Stops(cli.prog, cli.at + by)
    BY <1>3, <2>2, LookKept
  <2>3. DeviceShape(et5)
    BY Shaped
  <2> QED BY <1>1, <2>1, <2>2, <2>3, GoesInv
<1> QED BY <1>2, <1>3

LEMMA SkipInv == ASSUME CommandsInv, SkipArea PROVE CommandsInv'
<1>1. /\ Running /\ cli.at <= Len(cli.prog) /\ Now.op = "area" /\ Goes(1, et5, cli, FALSE) /\ files' = files
  BY DEF SkipArea, IsRequest, NothingToApply
<1>2. FixturesCover' /\ CommandShape(cli)
  BY <1>1, Shaped, FilesKept
<1> QED BY <1>1, <1>2, QuietGoes

LEMMA LeaveInv == ASSUME CommandsInv, Leave PROVE CommandsInv'
<1>1. PICK by : /\ by \in {QuitNow, Abort} /\ Goes(by, et5, cli, FALSE) /\ Now.op \in {"quit", "abort"}
                /\ Running /\ cli.at <= Len(cli.prog) /\ files' = files
  BY DEF Leave
<1>2. by \in Nat
  BY <1>1 DEF QuitNow, Abort
<1>3. \A a \in ArgLists :
         cli.prog = RecordSession(a) /\ WithCalibration(a) /\ (cli.at > 3 => "retrieve" \in cli.took)
            /\ by # Abort /\ cli.at + by > 3 => "retrieve" \in cli.took
  BY <1>1, <1>2, RecordGoes
<1>4. ~(cli.name \in Looks /\ Balanced(cli.prog))
  <2>1. cli.at \in DOMAIN cli.prog
    BY <1>1, NowIs
  <2> QED BY <1>1, <2>1 DEF Balanced, Now, LookOps
<1>5. CommandShape(cli) /\ DeviceShape(et5) /\ FixturesCover' /\ FALSE \in BOOLEAN
  BY <1>1, Shaped, FilesKept
<1> QED BY <1>1, <1>2, <1>3, <1>4, <1>5, GoesInv

LEMMA ReadEndsInv == ASSUME CommandsInv, ReadEnds PROVE CommandsInv'
<1>1. Running /\ cli.at <= Len(cli.prog) /\ Now.op = "read" /\ files' = files
  BY DEF ReadEnds, Reading
<1>2. FixturesCover' /\ CommandShape(cli)
  BY <1>1, Shaped, FilesKept
<1>3. PICK taken, none : taken = cli.seen /\ none = <<>>
  OBVIOUS
<1>4. PICK based : based = [cli EXCEPT !.base = taken, !.seen = none]
  OBVIOUS
<1>5. CommandShape(based)
  BY <1>2, <1>4 DEF CommandShape
<1>6. based.name = cli.name /\ based.prog = cli.prog /\ based.at = cli.at /\ based.took = cli.took
  BY <1>2, <1>4 DEF CommandShape
<1>7. Goes(Abort, et5, cli, FALSE) \/ Goes(1, et5, based, FALSE) \/ Goes(1, et5, cli, FALSE)
  BY <1>3, <1>4 DEF ReadEnds
<1>8. CASE Goes(Abort, et5, cli, FALSE)
  BY <1>1, <1>2, <1>8, QuietGoes
<1>9. CASE Goes(1, et5, based, FALSE)
  BY <1>1, <1>2, <1>5, <1>6, <1>9, QuietGoes
<1>10. CASE Goes(1, et5, cli, FALSE)
  BY <1>1, <1>2, <1>10, QuietGoes
<1> QED BY <1>7, <1>8, <1>9, <1>10

(* Notifications and poses: the command stays where it is. *)
LEMMA ReadsInv ==
    ASSUME CommandsInv, Running, UNCHANGED <<et5, files, found, flawed>>, CommandShape(cli'),
           cli'.name = cli.name, cli'.prog = cli.prog, cli'.at = cli.at, cli'.took = cli.took
    PROVE  CommandsInv'
<1>1. FixturesCover'
  BY FilesKept
<1>2. ShapeInv'
  BY DEF CommandsInv, ShapeInv, Running
<1>3. LookInv'
  BY DEF CommandsInv, LookInv, Running
<1>4. SaveInv'
  BY DEF CommandsInv, SaveInv, Running
<1> QED BY <1>1, <1>2, <1>3, <1>4 DEF CommandsInv

LEMMA ReadingInv == ASSUME CommandsInv, Notify \/ HeadposeGaze \/ HeadposeCamera PROVE CommandsInv'
<1>1. Running /\ UNCHANGED <<et5, files, found, flawed>> /\ CommandShape(cli)
  BY Shaped DEF Notify, HeadposeGaze, HeadposeCamera, Reading
<1>2. CASE Notify
  <2>1. PICK x : cli' = [cli EXCEPT !.seen = Append(cli.seen, x)]
    BY <1>2 DEF Notify
  <2>2. CommandShape(cli') /\ cli'.name = cli.name /\ cli'.prog = cli.prog /\ cli'.at = cli.at /\ cli'.took = cli.took
    BY <1>1, <2>1 DEF CommandShape
  <2> QED BY <1>1, <2>2, ReadsInv
<1>3. CASE HeadposeGaze
  <2>1. PICK eyes \in BOOLEAN :
           cli' = [cli EXCEPT !.recentring = @ \/ cli.frame # "none",
                      !.frame = IF PoseInHand THEN "model" ELSE IF eyes THEN "eyes" ELSE "none",
                      !.age = IF @ > 0 THEN @ - 1 ELSE 0]
    BY <1>3 DEF HeadposeGaze
  <2>2. CommandShape(cli') /\ cli'.name = cli.name /\ cli'.prog = cli.prog /\ cli'.at = cli.at /\ cli'.took = cli.took
    BY <1>1, <2>1 DEF CommandShape
  <2> QED BY <1>1, <2>2, ReadsInv
<1>4. CASE HeadposeCamera
  <2>1. cli' = [cli EXCEPT !.age = MaxAge]
    BY <1>4 DEF HeadposeCamera
  <2>2. CommandShape(cli') /\ cli'.name = cli.name /\ cli'.prog = cli.prog /\ cli'.at = cli.at /\ cli'.took = cli.took
    BY <1>1, <2>1 DEF CommandShape
  <2> QED BY <1>1, <2>2, ReadsInv
<1> QED BY <1>2, <1>3, <1>4

(* What is written is what was asked for. *)
LEMMA SavedCovers ==
    ASSUME CommandsAssumption, CommandsInv, Running, cli.at <= Len(cli.prog), Now.op = "save"
    PROVE  LET f == [path |-> Now.arg.path, blob |-> "retrieve" \in cli.took, by |-> Now.arg.by]
           IN  /\ f.path = "calibration.tobiicap" => f.blob
               /\ f.path = "session.tobiicap" => OptionsOf(f.by) = {}
               /\ IsNumber(f.path) => ~WithCalibration(f.by)
<1> DEFINE f == [path |-> Now.arg.path, blob |-> "retrieve" \in cli.took, by |-> Now.arg.by]
<1> SUFFICES /\ f.path = "calibration.tobiicap" => f.blob
             /\ f.path = "session.tobiicap" => OptionsOf(f.by) = {}
             /\ IsNumber(f.path) => ~WithCalibration(f.by)
  OBVIOUS
<1>1. f.path = Now.arg.path /\ f.by = Now.arg.by /\ (f.blob <=> "retrieve" \in cli.took)
  OBVIOUS
<1> HIDE DEF f
<1>2. cli.at \in Nat /\ cli.at \in DOMAIN cli.prog /\ ~Saveless(cli.prog)
  BY NowIs DEF Saveless, Now
<1>3. PICK a \in ArgLists : /\ ~RefusesArgs(a) /\ cli.prog = RecordSession(a)
                            /\ WithCalibration(a) /\ cli.at > 3 => "retrieve" \in cli.took
  BY <1>2 DEF CommandsInv, SaveInv
<1>4. Now.arg = [path |-> PathOf(a), by |-> a] /\ cli.at = Len(RecordSession(a))
  BY <1>2, <1>3, RecordingSteps DEF Now
<1>5. WithCalibration(a) => "retrieve" \in cli.took
  BY <1>2, <1>3, <1>4, RecordingSteps
<1>6. f.path = PathOf(a) /\ f.by = a /\ (f.blob <=> "retrieve" \in cli.took)
  BY <1>1, <1>4
<1>7. CASE Positional(a) # <<>>
  <2>1. PathOf(a) = Positional(a)[1]
    BY <1>7 DEF PathOf
  <2>2. PathOf(a) \notin {"calibration.tobiicap", "session.tobiicap"}
    BY <1>7, <2>1 DEF CommandsAssumption
  <2>3. IsNumber(PathOf(a)) => ~WithCalibration(a)
    BY <1>3, <1>7, <2>1 DEF RefusesArgs
  <2> QED BY <1>6, <2>2, <2>3
<1>8. CASE Positional(a) = <<>> /\ WithCalibration(a)
  <2>1. PathOf(a) = "calibration.tobiicap"
    BY <1>8 DEF PathOf
  <2> QED BY <1>5, <1>8, <1>6, <2>1 DEF IsNumber
<1>9. CASE Positional(a) = <<>> /\ ~WithCalibration(a)
  <2>1. PathOf(a) = "session.tobiicap"
    BY <1>9 DEF PathOf
  <2>2. OptionsOf(a) = {}
    <3>1. ~Contains(a, "--calibration") /\ ~Contains(a, "--calibraton")
      BY <1>3, <1>9 DEF RefusesArgs, WithCalibration
    <3>2. a \in Seq(STRING)
      BY DEF CommandsAssumption
    <3>3. "--calibration" \notin ToSet(a) /\ "--calibraton" \notin ToSet(a)
      BY <3>1, <3>2 DEF Contains, ToSet
    <3> QED BY <3>3 DEF OptionsOf
  <2> QED BY <1>9, <1>6, <2>1, <2>2 DEF IsNumber
<1> QED BY <1>7, <1>8, <1>9

LEMMA SaveCaptureInv == ASSUME CommandsAssumption, CommandsInv, SaveCapture PROVE CommandsInv'
<1>1. Running /\ cli.at <= Len(cli.prog) /\ Now.op = "save" /\ CommandShape(cli)
  BY Shaped DEF SaveCapture
<1> DEFINE new == [path |-> Now.arg.path, blob |-> "retrieve" \in cli.took, by |-> Now.arg.by]
<1>2. CASE files' = {f \in files : f.path # Now.arg.path} \cup {new} /\ Goes(1, et5, cli, FALSE)
  <2>1. /\ new.path = "calibration.tobiicap" => new.blob
        /\ new.path = "session.tobiicap" => OptionsOf(new.by) = {}
        /\ IsNumber(new.path) => ~WithCalibration(new.by)
    BY <1>1, SavedCovers
  <2> HIDE DEF new
  <2>2. FixturesCover'
    BY <1>2, <2>1 DEF CommandsInv, FixturesCover
  <2> QED BY <1>1, <1>2, <2>2, QuietGoes
<1>3. CASE Goes(Abort, et5, cli, FALSE) /\ files' = files
  <2>1. FixturesCover'
    BY <1>3, FilesKept
  <2> QED BY <1>1, <1>3, <2>1, QuietGoes
<1> QED BY <1>2, <1>3 DEF SaveCapture

LEMMA OthersInv ==
    ASSUME CommandsAssumption, CommandsInv, NEW p \in Programs, CommandStarts(p) \/ Setup \/ CommandFinishes \/ Interrupt
    PROVE  CommandsInv'
<1>1. CASE CommandStarts(p)
  <2>1. files' = files
    BY <1>1 DEF CommandStarts
  <2>2. CASE CommandConnects(p)
    BY <2>1, <2>2, ConnectsInv, ProgramsSound
  <2>3. CASE UNCHANGED <<et5, cli, found, flawed>>
    BY <2>1, <2>3 DEF CommandsInv, ShapeInv, LookInv, SaveInv, FixturesCover, Running
  <2> QED BY <1>1, <2>2, <2>3 DEF CommandStarts
<1>2. CASE Setup
  <2>1. files' = files
    BY <1>2 DEF Setup
  <2>2. CASE CommandConnects([name |-> "setup", prog |-> SetupApplies])
    BY <2>1, <2>2, ConnectsInv, SetupSound
  <2>3. CASE UNCHANGED <<et5, cli, found, flawed>>
    BY <2>1, <2>3 DEF CommandsInv, ShapeInv, LookInv, SaveInv, FixturesCover, Running
  <2> QED BY <1>2, <2>2, <2>3 DEF Setup
<1>3. CASE CommandFinishes
  <2>1. CommandEnds(Report(cli), et5) /\ files' = files
    BY <1>3 DEF CommandFinishes
  <2>2. DeviceShape(et5) /\ FixturesCover'
    BY <2>1, Shaped, FilesKept
  <2> QED BY <2>1, <2>2, EndsInv
<1>4. CASE Interrupt
  <2>1. cli' = NoCommand /\ flawed' = FALSE /\ et5' = et5 /\ files' = files
    BY <1>4 DEF Interrupt
  <2>2. CommandShape(cli') /\ ~Running'
    BY <2>1 DEF NoCommand, CommandShape, Running
  <2>3. DeviceShape(et5') /\ FixturesCover'
    BY <2>1, Shaped, FilesKept
  <2> QED BY <2>1, <2>2, <2>3 DEF CommandsInv, ShapeInv, LookInv, SaveInv
<1> QED BY <1>1, <1>2, <1>3, <1>4

LEMMA CommandsInvKept == ASSUME CommandsAssumption, CommandsInv, [CommandsNext]_cmdVars PROVE CommandsInv'
<1>1. CASE \E p \in Programs : CommandStarts(p)
  BY <1>1, OthersInv
<1>2. CASE Setup \/ CommandFinishes \/ Interrupt
  <2>1. [name |-> "stream", prog |-> Stream] \in Programs
    BY DEF Programs
  <2> QED BY <1>2, <2>1, OthersInv
<1>3. CASE UNCHANGED cmdVars
  BY <1>3 DEF cmdVars, CommandsInv, ShapeInv, LookInv, SaveInv, FixturesCover, Running
<1> QED BY <1>1, <1>2, <1>3, ReplyInv, UnansweredInv, SkipInv, LeaveInv, ReadEndsInv, ReadingInv, SaveCaptureInv DEF CommandsNext

LEMMA NothingLeft == ASSUME CommandsInv PROVE CommandsAreClean
<1>1. FixturesCover
  BY DEF CommandsInv
<1>2. ASSUME Running, cli.at > Len(cli.prog), cli.name \in Looks, ~flawed
      PROVE  /\ et5.cal = found.cal /\ et5.streams \subseteq found.streams
             /\ et5.open => found.open
  <2>1. /\ et5.cal = found.cal
        /\ \A id \in et5.streams : id \in found.streams \/ Unsubscribes(cli.prog, cli.at, id)
        /\ et5.open => found.open \/ Stops(cli.prog, cli.at)
    BY <1>2 DEF CommandsInv, LookInv
  <2>2. \A j \in DOMAIN cli.prog : ~(j >= cli.at)
    BY <1>2 DEF CommandsInv, ShapeInv, Timed
  <2>3. ~Stops(cli.prog, cli.at) /\ \A id : ~Unsubscribes(cli.prog, cli.at, id)
    BY <2>2 DEF Stops, Unsubscribes
  <2> QED BY <2>1, <2>3
<1> QED BY <1>1, <1>2 DEF CommandsAreClean, LeavesAsFound

(* A command leaves the tracker as it found it (cal_probe, cal_points,         *)
(* probe_streams, device_log, camera_both, whatever streams are probed and    *)
(* however many notifications come), and no `tobii record` that was not asked *)
(* to writes over the two recordings the tests replay.                        *)
THEOREM CommandsClean == ASSUME CommandsAssumption PROVE CommandsSpec => []CommandsAreClean
<1>1. CommandsInit => CommandsInv
  BY InitInv
<1>2. CommandsInv /\ [CommandsNext]_cmdVars => CommandsInv'
  BY CommandsInvKept
<1>3. CommandsInv => CommandsAreClean
  BY NothingLeft
<1> QED BY <1>1, <1>2, <1>3, PTL DEF CommandsSpec
=============================================================================
