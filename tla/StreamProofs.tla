---------------------------- MODULE StreamProofs ----------------------------
(***************************************************************************)
(* Theorems about ClientStream, for any handshake, packets and sizes: no   *)
(* byte is lost or out of order on its way to the WebSocket, each frame is *)
(* a packet, and a packet is sent as soon as it is there.                  *)
(***************************************************************************)
EXTENDS ClientStream, SequenceTheorems, WellFoundedInduction, TLAPS

-----------------------------------------------------------------------------
(* Induction, and what a fold of sequences into one gives.                 *)

\* A set of numbers that has 0 and every successor has them all.
LEMMA Successors ==
    ASSUME NEW S, 0 \in S, \A n \in Nat : n \in S => n + 1 \in S
    PROVE  \A n \in Nat : n \in S
  <1> SUFFICES ASSUME Nat \ S # {} PROVE FALSE
    OBVIOUS
  <1>1. IsWellFoundedOn(OpToRel(<, Nat), Nat)
    BY NatLessThanWellFounded
  <1> DEFINE T == Nat \ S
  <1>2. T \subseteq Nat /\ T # {}
    OBVIOUS
  <1> HIDE DEF T
  <1>3. PICK m \in T : \A n \in T : ~(<<n, m>> \in OpToRel(<, Nat))
    BY <1>1, <1>2, WFMin
  <1>4. m \in Nat /\ m \notin S /\ \A n \in T : ~(n < m)
    BY <1>2, <1>3 DEF OpToRel, T
  <1>5. m # 0
    BY <1>4
  <1>6. m - 1 \in Nat /\ m - 1 < m /\ (m - 1) + 1 = m
    BY <1>4, <1>5
  <1>7. m - 1 \notin T
    BY <1>4, <1>6
  <1>8. m - 1 \in S
    BY <1>6, <1>7 DEF T
  <1>9. QED
    BY <1>4, <1>6, <1>8

\* The function behind FlattenSeq.
Joined(s, f) == [i \in 1 .. Len(s) |-> IF i = 1 THEN s[i] ELSE f[i - 1] \o s[i]]
Flat(s) == CHOOSE f : f = Joined(s, f)

LEMMA FlattenIs ==
    ASSUME NEW s
    PROVE  FlattenSeq(s) = IF Len(s) = 0 THEN s ELSE Flat(s)[Len(s)]
  BY DEF FlattenSeq, Flat, Joined

LEMMA FlatExists ==
    ASSUME NEW B, NEW s \in Seq(B)
    PROVE  Flat(s) = Joined(s, Flat(s))
  <1> DEFINE Begun(n) == \E f : /\ DOMAIN f = 1 .. n
                                /\ \A i \in 1 .. n : f[i] = IF i = 1 THEN s[i] ELSE f[i - 1] \o s[i]
             S == {n \in Nat : n <= Len(s) => Begun(n)}
  <1>1. 0 \in S
    <2>1. DOMAIN [i \in 1 .. 0 |-> 0] = 1 .. 0 /\ \A i \in 1 .. 0 : FALSE
      OBVIOUS
    <2>2. QED
      BY <2>1
  <1>2. ASSUME NEW n \in Nat, n \in S
        PROVE  n + 1 \in S
    <2> SUFFICES ASSUME n + 1 <= Len(s) PROVE Begun(n + 1)
      OBVIOUS
    <2>1. PICK f : /\ DOMAIN f = 1 .. n
                   /\ \A i \in 1 .. n : f[i] = IF i = 1 THEN s[i] ELSE f[i - 1] \o s[i]
      BY <1>2
    <2> DEFINE g == [i \in 1 .. n + 1 |->
                        IF i <= n THEN f[i] ELSE IF i = 1 THEN s[i] ELSE f[i - 1] \o s[i]]
    <2>2. ASSUME NEW i \in 1 .. n + 1
          PROVE  g[i] = IF i = 1 THEN s[i] ELSE g[i - 1] \o s[i]
      <3>1. CASE i <= n
        <4>1. i \in 1 .. n /\ g[i] = f[i]
          BY <3>1
        <4>2. i # 1 => i - 1 \in 1 .. n + 1 /\ i - 1 <= n /\ g[i - 1] = f[i - 1]
          BY <3>1
        <4>3. QED
          BY <2>1, <4>1, <4>2
      <3>2. CASE i > n
        <4>1. i = n + 1 /\ (i # 1 => i - 1 \in 1 .. n + 1 /\ i - 1 <= n /\ g[i - 1] = f[i - 1])
          BY <3>2
        <4>2. QED
          BY <3>2, <4>1
      <3>3. QED
        BY <3>1, <3>2
    <2>3. DOMAIN g = 1 .. n + 1
      OBVIOUS
    <2> HIDE DEF g
    <2>4. QED
      BY <2>2, <2>3
  <1> HIDE DEF S
  <1>3. Len(s) \in Nat /\ Len(s) \in S
    BY <1>1, <1>2, Successors
  <1>4. PICK f : /\ DOMAIN f = 1 .. Len(s)
                 /\ \A i \in 1 .. Len(s) : f[i] = IF i = 1 THEN s[i] ELSE f[i - 1] \o s[i]
    BY <1>3 DEF S
  <1> DEFINE g == [i \in 1 .. Len(s) |-> f[i]]
  <1>5. g = Joined(s, g)
    <2>1. ASSUME NEW i \in 1 .. Len(s)
          PROVE  g[i] = Joined(s, g)[i]
      <3>1. i # 1 => i - 1 \in 1 .. Len(s)
        BY <1>3
      <3>2. QED
        BY <1>4, <3>1 DEF Joined
    <2>2. g = [i \in 1 .. Len(s) |-> g[i]] /\ Joined(s, g) = [i \in 1 .. Len(s) |-> Joined(s, g)[i]]
      BY DEF Joined
    <2> HIDE DEF g
    <2>3. QED
      BY <2>1, <2>2
  <1> HIDE DEF g
  <1>6. QED
    BY <1>5 DEF Flat

\* What that function gives, place by place.
LEMMA FlatUnfolds ==
    ASSUME NEW B, NEW s \in Seq(Seq(B)), NEW i \in 1 .. Len(s)
    PROVE  Flat(s)[i] = IF i = 1 THEN s[i] ELSE Flat(s)[i - 1] \o s[i]
  <1>1. Flat(s) = Joined(s, Flat(s))
    BY FlatExists
  <1>2. Joined(s, Flat(s))[i] = IF i = 1 THEN s[i] ELSE Flat(s)[i - 1] \o s[i]
    BY DEF Joined
  <1>3. QED
    BY <1>1, <1>2

LEMMA FlatTyped ==
    ASSUME NEW B, NEW s \in Seq(Seq(B))
    PROVE  \A i \in 1 .. Len(s) : Flat(s)[i] \in Seq(B)
  <1> DEFINE S == {n \in Nat : n \in 1 .. Len(s) => Flat(s)[n] \in Seq(B)}
  <1>1. 0 \in S
    OBVIOUS
  <1>2. ASSUME NEW n \in Nat, n \in S
        PROVE  n + 1 \in S
    <2> SUFFICES ASSUME n + 1 \in 1 .. Len(s) PROVE Flat(s)[n + 1] \in Seq(B)
      OBVIOUS
    <2>1. Flat(s)[n + 1] = IF n + 1 = 1 THEN s[n + 1] ELSE Flat(s)[(n + 1) - 1] \o s[n + 1]
      BY FlatUnfolds
    <2>2. s[n + 1] \in Seq(B)
      OBVIOUS
    <2>3. n + 1 # 1 => n \in 1 .. Len(s) /\ Flat(s)[n] \in Seq(B) /\ (n + 1) - 1 = n
      BY <1>2
    <2>4. QED
      BY <2>1, <2>2, <2>3
  <1> HIDE DEF S
  <1>3. \A n \in Nat : n \in S
    BY <1>1, <1>2, Successors
  <1>4. QED
    BY <1>3 DEF S

LEMMA FlattenTyped ==
    ASSUME NEW B, NEW s \in Seq(Seq(B))
    PROVE  FlattenSeq(s) \in Seq(B)
  <1>1. Len(s) # 0 => Len(s) \in 1 .. Len(s)
    OBVIOUS
  <1>2. Len(s) = 0 => s \in Seq(B)
    OBVIOUS
  <1>3. QED
    BY <1>1, <1>2, FlattenIs, FlatTyped

LEMMA FlattenEmpty == FlattenSeq(<<>>) = <<>>
  BY FlattenIs

LEMMA FlattenOne ==
    ASSUME NEW B, NEW x \in Seq(B)
    PROVE  FlattenSeq(<<x>>) = x
  <1>1. <<x>> \in Seq(Seq(B)) /\ Len(<<x>>) = 1 /\ <<x>>[1] = x /\ 1 \in 1 .. Len(<<x>>)
    OBVIOUS
  <1>2. Flat(<<x>>)[1] = x
    BY <1>1, FlatUnfolds
  <1>3. FlattenSeq(<<x>>) = IF Len(<<x>>) = 0 THEN <<x>> ELSE Flat(<<x>>)[Len(<<x>>)]
    BY FlattenIs
  <1>4. QED
    BY <1>1, <1>2, <1>3

LEMMA Regroup == \A B : \A u, v, w \in Seq(B) : (u \o v) \o w = u \o (v \o w)
  BY ConcatAssociative

\* Flattening distributes over concatenation.
LEMMA FlattenConcat ==
    ASSUME NEW B, NEW s \in Seq(Seq(B)), NEW t \in Seq(Seq(B))
    PROVE  FlattenSeq(s \o t) = FlattenSeq(s) \o FlattenSeq(t)
  <1> DEFINE st == s \o t
             P == {n \in Nat : n \in 1 .. Len(s) => Flat(st)[n] = Flat(s)[n]}
             Q == {n \in Nat : n \in 1 .. Len(t) =>
                                 Flat(st)[Len(s) + n] = FlattenSeq(s) \o Flat(t)[n]}
  <1>1. /\ st \in Seq(Seq(B)) /\ Len(st) = Len(s) + Len(t)
        /\ \A i \in 1 .. Len(s) : st[i] = s[i]
        /\ \A i \in 1 .. Len(t) : st[Len(s) + i] = t[i]
        /\ Len(s) \in Nat /\ Len(t) \in Nat
    OBVIOUS
  <1>2. FlattenSeq(s) \in Seq(B) /\ FlattenSeq(t) \in Seq(B)
    BY FlattenTyped
  <1>b. \A u, v, w \in Seq(B) : (u \o v) \o w = u \o (v \o w)
    BY Regroup
  <1>a. s = <<>> => st = t
    BY ConcatEmptySeq
  <1> HIDE DEF st
  <1>3. 0 \in P /\ 0 \in Q
    OBVIOUS
  <1>4. ASSUME NEW n \in Nat, n \in P
        PROVE  n + 1 \in P
    <2> SUFFICES ASSUME n + 1 \in 1 .. Len(s) PROVE Flat(st)[n + 1] = Flat(s)[n + 1]
      OBVIOUS
    <2>1. n + 1 \in 1 .. Len(st) /\ st[n + 1] = s[n + 1] /\ (n + 1) - 1 = n
      BY <1>1
    <2>2. Flat(st)[n + 1] = IF n + 1 = 1 THEN st[n + 1] ELSE Flat(st)[n] \o st[n + 1]
      <3>1. Flat(st)[n + 1] = IF n + 1 = 1 THEN st[n + 1] ELSE Flat(st)[(n + 1) - 1] \o st[n + 1]
        BY <1>1, <2>1, FlatUnfolds
      <3>2. QED
        BY <2>1, <3>1
    <2>3. Flat(s)[n + 1] = IF n + 1 = 1 THEN s[n + 1] ELSE Flat(s)[n] \o s[n + 1]
      BY <2>1, FlatUnfolds
    <2>4. n + 1 # 1 => Flat(st)[n] = Flat(s)[n]
      BY <1>4
    <2>5. QED
      BY <2>1, <2>2, <2>3, <2>4
  <1> HIDE DEF P
  <1>5. \A n \in Nat : n \in P
    BY <1>3, <1>4, Successors
  <1>6. Len(s) # 0 => Flat(st)[Len(s)] = FlattenSeq(s)
    <2>1. Len(s) # 0 => Len(s) \in 1 .. Len(s)
      BY <1>1
    <2>2. Len(s) # 0 => Flat(st)[Len(s)] = Flat(s)[Len(s)]
      BY <1>1, <1>5, <2>1 DEF P
    <2>3. QED
      BY <2>2, FlattenIs
  <1>7. ASSUME NEW n \in Nat, n \in Q
        PROVE  n + 1 \in Q
    <2> SUFFICES ASSUME n + 1 \in 1 .. Len(t)
                 PROVE  Flat(st)[Len(s) + (n + 1)] = FlattenSeq(s) \o Flat(t)[n + 1]
      OBVIOUS
    <2>1. /\ Len(s) + (n + 1) \in 1 .. Len(st) /\ st[Len(s) + (n + 1)] = t[n + 1]
          /\ (n + 1) - 1 = n /\ (Len(s) + (n + 1)) - 1 = Len(s) + n
          /\ (Len(s) + (n + 1) = 1 <=> Len(s) = 0 /\ n = 0)
      <3>1. Len(s) \in Nat /\ Len(t) \in Nat /\ Len(st) = Len(s) + Len(t)
        BY <1>1
      <3>2. st[Len(s) + (n + 1)] = t[n + 1]
        BY <1>1
      <3>3. QED
        BY <3>1, <3>2
    <2>2. Flat(st)[Len(s) + (n + 1)] =
            IF Len(s) + (n + 1) = 1 THEN st[Len(s) + (n + 1)]
            ELSE Flat(st)[(Len(s) + (n + 1)) - 1] \o st[Len(s) + (n + 1)]
      BY <1>1, <2>1, FlatUnfolds
    <2>3. Flat(st)[Len(s) + (n + 1)] =
            IF Len(s) = 0 /\ n = 0 THEN t[n + 1] ELSE Flat(st)[Len(s) + n] \o t[n + 1]
      BY <2>1, <2>2
    <2>4. Flat(t)[n + 1] = IF n + 1 = 1 THEN t[n + 1] ELSE Flat(t)[n] \o t[n + 1]
      BY <2>1, FlatUnfolds
    <2>5. t[n + 1] \in Seq(B)
      OBVIOUS
    <2>6. CASE n = 0
      <3>1. Flat(t)[n + 1] = t[n + 1] /\ Len(s) + n = Len(s)
        BY <1>1, <2>4, <2>6
      <3>2. CASE Len(s) = 0
        <4>1. s = <<>> /\ FlattenSeq(s) = <<>>
          BY <3>2, FlattenEmpty
        <4>2. <<>> \o t[n + 1] = t[n + 1]
          BY <2>5, ConcatEmptySeq
        <4>3. QED
          BY <2>3, <2>6, <3>1, <3>2, <4>1, <4>2
      <3>3. CASE Len(s) # 0
        BY <1>6, <2>3, <2>6, <3>1, <3>3
      <3>4. QED
        BY <3>2, <3>3
    <2>7. CASE n # 0
      <3>1. n \in 1 .. Len(t)
        BY <1>1, <2>7
      <3>2. Flat(st)[Len(s) + n] = FlattenSeq(s) \o Flat(t)[n]
        BY <1>7, <3>1
      <3>3. Flat(t)[n] \in Seq(B)
        BY <3>1, FlatTyped
      <3>4. PICK u : u = Flat(t)[n]
        OBVIOUS
      <3>5. PICK v : v = FlattenSeq(s)
        OBVIOUS
      <3>6. PICK w : w = t[n + 1]
        OBVIOUS
      <3>a. u \in Seq(B) /\ v \in Seq(B) /\ w \in Seq(B)
        BY <1>2, <2>5, <3>3, <3>4, <3>5, <3>6
      <3>7. (v \o u) \o w = v \o (u \o w)
        BY <3>a, <1>b
      <3>b. n + 1 # 1
        BY <2>7
      <3>8. Flat(t)[n + 1] = u \o w
        BY <2>4, <3>b, <3>4, <3>6
      <3>9. Flat(st)[Len(s) + (n + 1)] = (v \o u) \o w
        BY <2>3, <2>7, <3>2, <3>4, <3>5, <3>6
      <3>10. QED
        BY <3>5, <3>7, <3>8, <3>9
    <2>8. QED
      BY <2>6, <2>7
  <1> HIDE DEF Q
  <1>8. \A n \in Nat : n \in Q
    BY <1>3, <1>7, Successors
  <1>9. CASE Len(t) = 0
    <2>1. t = <<>> /\ FlattenSeq(t) = <<>>
      BY <1>9, FlattenEmpty
    <2>2. st = s
      BY <2>1, ConcatEmptySeq DEF st
    <2>3. FlattenSeq(s) \o <<>> = FlattenSeq(s)
      BY <1>2, ConcatEmptySeq
    <2>4. QED
      BY <2>1, <2>2, <2>3 DEF st
  <1>10. CASE Len(t) # 0
    <2>1. Len(t) \in 1 .. Len(t) /\ Len(st) # 0 /\ Len(st) = Len(s) + Len(t)
      BY <1>1, <1>10
    <2>2. Flat(st)[Len(s) + Len(t)] = FlattenSeq(s) \o Flat(t)[Len(t)]
      BY <1>1, <1>8, <2>1 DEF Q
    <2>3. FlattenSeq(t) = Flat(t)[Len(t)] /\ FlattenSeq(st) = Flat(st)[Len(st)]
      BY <1>10, <2>1, FlattenIs
    <2>4. QED
      BY <2>1, <2>2, <2>3 DEF st
  <1>11. QED
    BY <1>9, <1>10

-----------------------------------------------------------------------------
(* The splitter.                                                           *)

\* \o by another name: what is proved with it takes no account of how \o is defined.
Then(u, v) == u \o v

LEMMA ThenRegroups == \A u, v, w \in Seq(Byte) : Then(Then(u, v), w) = Then(u, Then(v, w))
  <1>1. PICK B : B = Byte
    OBVIOUS
  <1>2. \A u, v, w \in Seq(B) : (u \o v) \o w = u \o (v \o w)
    BY Regroup
  <1>3. QED
    BY <1>1, <1>2 DEF Then

LEMMA Weighted ==
    ASSUME NEW a \in Nat, NEW b \in Nat, NEW c \in Nat, NEW d \in Nat
    PROVE  a + 256 * b + 65536 * c + 16777216 * d \in Nat
  OBVIOUS

\* A packet has at least one byte and is wholly there.
LEMMA NextLenBounds ==
    ASSUME NEW p, NEW rest \in Seq(Byte)
    PROVE  /\ NextLen(p, rest) \in {Incomplete, 0} \cup 1 .. Len(rest)
           /\ rest = <<>> => NextLen(p, rest) = Incomplete
  <1> USE DEF Incomplete
  <1>a. Len(rest) \in Nat /\ \A i \in 1 .. Len(rest) : rest[i] \in Nat
    <2>1. Len(rest) \in Nat /\ \A i \in 1 .. Len(rest) : rest[i] \in Byte
      OBVIOUS
    <2>2. \A b \in Byte : b \in Nat
      BY DEF Byte
    <2>3. QED
      BY <2>1, <2>2
  <1>1. CASE rest = <<>>
    BY <1>1 DEF NextLen
  <1>2. CASE rest # <<>> /\ p = "abridged"
    <2>1. PICK header : header = IF Extended(rest[1]) THEN 4 ELSE 1
      OBVIOUS
    <2>2. PICK payload : payload = 4 * (IF Extended(rest[1])
                                           THEN rest[2] + 256 * rest[3] + 65536 * rest[4]
                                           ELSE rest[1] % 128)
      OBVIOUS
    <2>3. AbridgedLen(rest) = IF Len(rest) < header THEN Incomplete
                              ELSE IF payload = 0 THEN 0
                              ELSE IF Len(rest) < header + payload THEN Incomplete
                              ELSE header + payload
      BY <2>1, <2>2 DEF AbridgedLen
    <2>4. header \in 1 .. 4 /\ Len(rest) \in Nat
      BY <2>1
    <2>5. ~(Len(rest) < header) => payload \in Nat
      <3>1. rest[1] \in Nat /\ Len(rest) >= 1
        BY <1>2, <1>a
      <3>2. ASSUME Extended(rest[1]), ~(Len(rest) < header)
            PROVE  rest[2] + 256 * rest[3] + 65536 * rest[4] \in Nat
        <4>1. rest[2] \in Nat /\ rest[3] \in Nat /\ rest[4] \in Nat
          BY <1>a, <2>1, <3>2
        <4>2. PICK a \in Nat, b \in Nat, c \in Nat : a = rest[2] /\ b = rest[3] /\ c = rest[4]
          BY <4>1
        <4>3. a + 256 * b + 65536 * c \in Nat
          OBVIOUS
        <4>4. QED
          BY <4>2, <4>3
      <3>3. rest[1] % 128 \in Nat
        BY <3>1
      <3>4. PICK n : n = IF Extended(rest[1]) THEN rest[2] + 256 * rest[3] + 65536 * rest[4]
                                              ELSE rest[1] % 128
        OBVIOUS
      <3>5. ~(Len(rest) < header) => n \in Nat
        BY <3>2, <3>3, <3>4
      <3>6. payload = 4 * n
        BY <2>2, <3>4
      <3>7. QED
        BY <3>5, <3>6
    <2>6. QED
      BY <1>2, <2>3, <2>4, <2>5 DEF NextLen
  <1>3. CASE rest # <<>> /\ p # "abridged"
    <2>1. PICK payload : payload = rest[1] + 256 * rest[2] + 65536 * rest[3]
                                     + 16777216 * (rest[4] % 128)
      OBVIOUS
    <2>2. IntermediateLen(rest) = IF Len(rest) < 4 THEN Incomplete
                                  ELSE IF payload = 0 THEN 0
                                  ELSE IF Len(rest) - 4 < payload THEN Incomplete
                                  ELSE 4 + payload
      BY <2>1 DEF IntermediateLen
    <2>3. Len(rest) \in Nat
      OBVIOUS
    <2>4. ~(Len(rest) < 4) => payload \in Nat
      <3>1. SUFFICES ASSUME ~(Len(rest) < 4) PROVE payload \in Nat
        OBVIOUS
      <3>2. rest[1] \in Nat /\ rest[2] \in Nat /\ rest[3] \in Nat /\ rest[4] \in Nat
        BY <1>a, <3>1
      <3>3. PICK d : d = rest[4] % 128
        OBVIOUS
      <3>4. d \in Nat
        BY <3>2, <3>3
      <3>5. payload = rest[1] + 256 * rest[2] + 65536 * rest[3] + 16777216 * d
        BY <2>1, <3>3
      <3>6. PICK a : a = rest[1]
        OBVIOUS
      <3>7. PICK b : b = rest[2]
        OBVIOUS
      <3>8. PICK c : c = rest[3]
        OBVIOUS
      <3>9. a \in Nat /\ b \in Nat /\ c \in Nat
        BY <3>2, <3>6, <3>7, <3>8
      <3>10. payload = a + 256 * b + 65536 * c + 16777216 * d
        BY <3>5, <3>6, <3>7, <3>8
      <3>11. a + 256 * b + 65536 * c + 16777216 * d \in Nat
        BY <3>4, <3>9, Weighted
      <3>12. QED
        BY <3>10, <3>11
    <2>5. QED
      BY <1>3, <2>2, <2>3, <2>4 DEF NextLen
  <1>4. QED
    BY <1>1, <1>2, <1>3

\* The loop of split(), as a function of the offset: one turn of it, and all.
Beyond(all, o) == SubSeq(all, o + 1, Len(all))

Turn(p, all, w, o) ==
    LET n == NextLen(p, Beyond(all, o)) IN
    IF n = Incomplete THEN [parts |-> <<>>, kept |-> Beyond(all, o), off |-> FALSE]
    ELSE IF n = 0 THEN [parts |-> <<Beyond(all, o)>>, kept |-> <<>>, off |-> TRUE]
    ELSE [w[o + n] EXCEPT !.parts = <<SubSeq(all, o + 1, o + n)>> \o @]

Loop(p, all, w) == [o \in 0 .. Len(all) |-> Turn(p, all, w, o)]
Walked(p, all) == CHOOSE w : w = Loop(p, all, w)

LEMMA SplitIs ==
    ASSUME NEW p, NEW sp, NEW chunk, ~sp.off
    PROVE  LET r == Walked(p, sp.buf \o chunk)[0]
           IN  Split(p, sp, chunk) = [parts |-> r.parts, sp |-> [buf |-> r.kept, off |-> r.off]]
  BY DEF Split, Walked, Loop, Turn, Beyond

LEMMA BeyondProperties ==
    ASSUME NEW all \in Seq(Byte), NEW o \in 0 .. Len(all)
    PROVE  /\ Beyond(all, o) \in Seq(Byte) /\ Len(Beyond(all, o)) = Len(all) - o
           /\ \A p : LET n == NextLen(p, Beyond(all, o))
                     IN  n # Incomplete /\ n # 0 => n \in 1 .. Len(all) - o
  <1>1. Beyond(all, o) \in Seq(Byte) /\ Len(Beyond(all, o)) = Len(all) - o
    BY DEF Beyond
  <1>2. QED
    BY <1>1, NextLenBounds

\* A turn of the loop looks only at what it gives for later offsets.
LEMMA TurnLooksAhead ==
    ASSUME NEW p, NEW all \in Seq(Byte), NEW o \in 0 .. Len(all), NEW w, NEW v,
           \A i \in o + 1 .. Len(all) : w[i] = v[i]
    PROVE  Turn(p, all, w, o) = Turn(p, all, v, o)
  <1>1. PICK n : n = NextLen(p, Beyond(all, o))
    OBVIOUS
  <1>2. CASE n = Incomplete \/ n = 0
    BY <1>1, <1>2 DEF Turn
  <1>3. CASE n # Incomplete /\ n # 0
    <2>1. n \in 1 .. Len(all) - o
      BY <1>1, <1>3, BeyondProperties
    <2>2. o + n \in o + 1 .. Len(all)
      BY <2>1
    <2>3. w[o + n] = v[o + n]
      BY <2>2
    <2>4. QED
      BY <1>1, <1>3, <2>3 DEF Turn
  <1>4. QED
    BY <1>2, <1>3

\* The loop ends: there is a function that is the loop's from every offset.
LEMMA WalkedIs ==
    ASSUME NEW p, NEW all \in Seq(Byte)
    PROVE  Walked(p, all) = Loop(p, all, Walked(p, all))
  <1>0. PICK L \in Nat : L = Len(all)
    OBVIOUS
  <1> DEFINE S == {k \in Nat : k <= L + 1 =>
                     \E w : \A o \in (L + 1) - k .. L : w[o] = Turn(p, all, w, o)}
  <1>1. 0 \in S
    BY <1>0
  <1>2. ASSUME NEW k \in Nat, k \in S
        PROVE  k + 1 \in S
    <2> SUFFICES ASSUME k + 1 <= L + 1
                 PROVE  \E w : \A o \in (L + 1) - (k + 1) .. L : w[o] = Turn(p, all, w, o)
      OBVIOUS
    <2>1. PICK w : \A o \in (L + 1) - k .. L : w[o] = Turn(p, all, w, o)
      BY <1>2
    <2>2. PICK f \in 0 .. L : f = L - k /\ f = (L + 1) - (k + 1) /\ (L + 1) - k = f + 1
      <3>1. L - k \in 0 .. L /\ L - k = (L + 1) - (k + 1) /\ (L + 1) - k = (L - k) + 1
        OBVIOUS
      <3>2. QED
        BY <3>1
    <2>3. PICK v : v = [o \in f .. L |-> IF o = f THEN Turn(p, all, w, o) ELSE w[o]]
      OBVIOUS
    <2>4. v[f] = Turn(p, all, w, f) /\ \A o \in f + 1 .. L : v[o] = w[o]
      BY <2>3
    <2>5. ASSUME NEW o \in f .. L
          PROVE  v[o] = Turn(p, all, v, o)
      <3>1. o \in 0 .. Len(all) /\ \A i \in o + 1 .. Len(all) : i \in f + 1 .. L
        BY <1>0
      <3>2. \A i \in o + 1 .. Len(all) : w[i] = v[i]
        BY <2>4, <3>1
      <3>3. Turn(p, all, w, o) = Turn(p, all, v, o)
        BY <3>1, <3>2, TurnLooksAhead
      <3>4. CASE o = f
        BY <2>4, <3>3, <3>4
      <3>5. CASE o # f
        <4>1. o \in f + 1 .. L
          BY <3>5
        <4>2. v[o] = w[o] /\ w[o] = Turn(p, all, w, o)
          BY <2>1, <2>2, <2>4, <4>1
        <4>3. QED
          BY <3>3, <4>2
      <3>6. QED
        BY <3>4, <3>5
    <2>6. QED
      BY <2>2, <2>5
  <1> HIDE DEF S
  <1>3. \A k \in Nat : k \in S
    BY <1>1, <1>2, Successors
  <1>4. L + 1 \in S /\ (L + 1) - (L + 1) = 0 /\ L + 1 <= L + 1
    BY <1>3
  <1>5. PICK w : \A o \in 0 .. L : w[o] = Turn(p, all, w, o)
    BY <1>4 DEF S
  <1>6. PICK v : v = [o \in 0 .. L |-> w[o]]
    OBVIOUS
  <1>7. ASSUME NEW o \in 0 .. L
        PROVE  v[o] = Turn(p, all, v, o)
    <2>1. \A i \in o + 1 .. Len(all) : i \in 0 .. L
      BY <1>0
    <2>2. \A i \in o + 1 .. Len(all) : w[i] = v[i]
      BY <1>6, <2>1
    <2>3. Turn(p, all, w, o) = Turn(p, all, v, o)
      BY <1>0, <2>2, TurnLooksAhead
    <2>4. v[o] = w[o] /\ w[o] = Turn(p, all, w, o)
      BY <1>5, <1>6
    <2>5. QED
      BY <2>3, <2>4
  <1>8. v = Loop(p, all, v)
    <2>1. v = [o \in 0 .. L |-> v[o]]
      BY <1>6
    <2>2. [o \in 0 .. L |-> v[o]] = [o \in 0 .. L |-> Turn(p, all, v, o)]
      BY <1>7
    <2>3. QED
      BY <1>0, <2>1, <2>2 DEF Loop
  <1>9. QED
    BY <1>8 DEF Walked

\* From any offset on: the parts are not empty, what is kept follows them, and
\* together they are all that was behind the offset.
Frame == Seq(Byte) \ {<<>>}

CutsUp(all, o, r) ==
    \E parts \in Seq(Frame), kept \in Seq(Byte), off \in BOOLEAN :
        /\ r = [parts |-> parts, kept |-> kept, off |-> off]
        /\ off => kept = <<>>
        /\ FlattenSeq(parts) \o kept = Beyond(all, o)

LEMMA FramesAreBytes ==
    ASSUME NEW parts \in Seq(Frame)
    PROVE  parts \in Seq(Seq(Byte)) /\ FlattenSeq(parts) \in Seq(Byte)
  <1>1. Frame \subseteq Seq(Byte)
    BY DEF Frame
  <1>2. parts \in Seq(Seq(Byte))
    BY <1>1, SeqMonotonic
  <1>3. QED
    BY <1>2, FlattenTyped

LEMMA TurnCutsUp ==
    ASSUME NEW p, NEW all \in Seq(Byte), NEW o \in 0 .. Len(all), NEW w,
           \A i \in o + 1 .. Len(all) : CutsUp(all, i, w[i])
    PROVE  CutsUp(all, o, Turn(p, all, w, o))
  <1>0. PICK n : n = NextLen(p, Beyond(all, o))
    OBVIOUS
  <1>1. PICK tail \in Seq(Byte) : tail = Beyond(all, o)
    BY BeyondProperties
  <1>2. CASE n = Incomplete
    <2>1. Turn(p, all, w, o) = [parts |-> <<>>, kept |-> tail, off |-> FALSE]
      BY <1>0, <1>1, <1>2 DEF Turn
    <2>2. FlattenSeq(<<>>) \o tail = tail /\ <<>> \in Seq(Frame)
      BY FlattenEmpty, ConcatEmptySeq
    <2>3. QED
      BY <1>1, <2>1, <2>2 DEF CutsUp
  <1>3. CASE n = 0
    <2>1. Turn(p, all, w, o) = [parts |-> <<tail>>, kept |-> <<>>, off |-> TRUE]
      BY <1>0, <1>1, <1>3 DEF Turn, Incomplete
    <2>2. tail \in Frame
      <3>1. tail = <<>> => NextLen(p, tail) = Incomplete
        BY NextLenBounds
      <3>2. NextLen(p, tail) = 0
        BY <1>0, <1>1, <1>3
      <3>3. QED
        BY <3>1, <3>2 DEF Frame, Incomplete
    <2>3. FlattenSeq(<<tail>>) \o <<>> = tail
      BY FlattenOne, ConcatEmptySeq
    <2>4. <<tail>> \in Seq(Frame) /\ <<>> \in Seq(Byte)
      BY <2>2
    <2>5. QED
      BY <1>1, <2>1, <2>3, <2>4 DEF CutsUp
  <1>4. CASE n # Incomplete /\ n # 0
    <2>1. n \in 1 .. Len(all) - o
      BY <1>0, <1>4, BeyondProperties
    <2>2. o + n \in o + 1 .. Len(all) /\ o + n \in o .. Len(all) /\ o + 1 \in 1 .. Len(all) + 1
          /\ o \in (o + 1) - 1 .. Len(all) /\ o + 1 <= o + n
      BY <2>1
    <2>3. PICK parts \in Seq(Frame), kept \in Seq(Byte), off \in BOOLEAN :
             /\ w[o + n] = [parts |-> parts, kept |-> kept, off |-> off]
             /\ off => kept = <<>>
             /\ FlattenSeq(parts) \o kept = Beyond(all, o + n)
      BY <2>2 DEF CutsUp
    <2>4. PICK cut : cut = SubSeq(all, o + 1, o + n)
      OBVIOUS
    <2>5. cut \in Frame /\ cut \in Seq(Byte)
      <3>1. \A i \in o + 1 .. o + n : all[i] \in Byte
        BY <2>2
      <3>2. cut \in Seq(Byte) /\ Len(cut) = (o + n) - (o + 1) + 1
        BY <2>2, <2>4, <3>1, SubSeqProperties
      <3>3. cut # <<>>
        BY <2>1, <3>2
      <3>4. QED
        BY <3>2, <3>3 DEF Frame
    <2>6. cut \o Beyond(all, o + n) = Beyond(all, o)
      <3>1. PICK e : e = o + n
        OBVIOUS
      <3>2. /\ o + 1 \in 1 .. Len(all) + 1 /\ e \in (o + 1) - 1 .. Len(all)
            /\ Len(all) \in e .. Len(all)
        BY <2>2, <3>1
      <3>3. SubSeq(all, o + 1, e) \o SubSeq(all, e + 1, Len(all)) = SubSeq(all, o + 1, Len(all))
        BY <3>2, ConcatAdjacentSubSeq
      <3>4. QED
        BY <2>4, <3>1, <3>3 DEF Beyond
    <2>7. Turn(p, all, w, o) = [parts |-> <<cut>> \o parts, kept |-> kept, off |-> off]
      <3>1. PICK r : r = [parts |-> parts, kept |-> kept, off |-> off]
        OBVIOUS
      <3>2. Turn(p, all, w, o) = [r EXCEPT !.parts = <<cut>> \o @]
        BY <1>0, <1>4, <2>3, <2>4, <3>1 DEF Turn
      <3>3. PICK cuts : cuts = <<cut>> \o parts
        OBVIOUS
      <3>4. r.parts = parts
        BY <3>1
      <3>5. Turn(p, all, w, o) = [r EXCEPT !.parts = cuts]
        BY <3>2, <3>3, <3>4
      <3>6. [r EXCEPT !.parts = cuts] = [parts |-> cuts, kept |-> kept, off |-> off]
        BY <3>1
      <3>7. QED
        BY <3>3, <3>5, <3>6
    <2>8. <<cut>> \in Seq(Frame) /\ <<cut>> \o parts \in Seq(Frame)
      BY <2>5
    <2>9. PICK flat \in Seq(Byte) : flat = FlattenSeq(parts)
      BY FramesAreBytes
    <2>10. FlattenSeq(<<cut>> \o parts) = cut \o flat
      <3>1. <<cut>> \in Seq(Seq(Byte)) /\ parts \in Seq(Seq(Byte))
        BY <2>5, FramesAreBytes
      <3>2. FlattenSeq(<<cut>> \o parts) = FlattenSeq(<<cut>>) \o FlattenSeq(parts)
        BY <3>1, FlattenConcat
      <3>3. QED
        BY <2>5, <2>9, <3>2, FlattenOne
    <2>11. (cut \o flat) \o kept = cut \o (flat \o kept)
      <3>1. Then(Then(cut, flat), kept) = Then(cut, Then(flat, kept))
        BY <2>5, ThenRegroups
      <3>2. QED
        BY <3>1 DEF Then
    <2>12. FlattenSeq(<<cut>> \o parts) \o kept = Beyond(all, o)
      BY <2>3, <2>6, <2>9, <2>10, <2>11
    <2>13. QED
      BY <2>3, <2>7, <2>8, <2>12 DEF CutsUp
  <1>5. QED
    BY <1>2, <1>3, <1>4

LEMMA WalkedCutsUp ==
    ASSUME NEW p, NEW all \in Seq(Byte)
    PROVE  \A o \in 0 .. Len(all) : CutsUp(all, o, Walked(p, all)[o])
  <1>0. PICK L \in Nat : L = Len(all)
    OBVIOUS
  <1>1. PICK w : w = Walked(p, all) /\ w = Loop(p, all, w)
    BY WalkedIs
  <1>2. \A o \in 0 .. L : w[o] = Turn(p, all, w, o)
    <2>1. Loop(p, all, w) = [o \in 0 .. L |-> Turn(p, all, w, o)]
      BY <1>0 DEF Loop
    <2>2. QED
      BY <1>1, <2>1
  <1> DEFINE S == {k \in Nat : k <= L + 1 => \A o \in (L + 1) - k .. L : CutsUp(all, o, w[o])}
  <1>3. 0 \in S
    OBVIOUS
  <1>4. ASSUME NEW k \in Nat, k \in S
        PROVE  k + 1 \in S
    <2> SUFFICES ASSUME k + 1 <= L + 1, NEW o \in (L + 1) - (k + 1) .. L
                 PROVE  CutsUp(all, o, w[o])
      OBVIOUS
    <2>1. \A i \in o + 1 .. Len(all) : i \in (L + 1) - k .. L
      BY <1>0
    <2>2. \A i \in o + 1 .. Len(all) : CutsUp(all, i, w[i])
      BY <1>4, <2>1
    <2>3. o \in 0 .. Len(all) /\ o \in 0 .. L
      BY <1>0
    <2>4. CutsUp(all, o, Turn(p, all, w, o))
      BY <2>2, <2>3, TurnCutsUp
    <2>5. QED
      BY <1>2, <2>3, <2>4
  <1> HIDE DEF S
  <1>5. L + 1 \in S
    BY <1>3, <1>4, Successors
  <1>6. (L + 1) - (L + 1) = 0 /\ L + 1 <= L + 1
    OBVIOUS
  <1>7. \A o \in 0 .. L : CutsUp(all, o, w[o])
    BY <1>5, <1>6 DEF S
  <1>8. QED
    BY <1>0, <1>1, <1>7

\* A splitter keeps nothing once it has given up.
Splitters == {sp \in [buf : Seq(Byte), off : BOOLEAN] : sp.off => sp.buf = <<>>}

\* split() loses nothing of what it is given, and flush() nothing of what it keeps.
LEMMA SplitKeeps ==
    ASSUME NEW p, NEW sp \in Splitters, NEW chunk \in Frame,
           NEW out, out = Split(p, sp, chunk)
    PROVE  /\ out.sp \in Splitters /\ out.parts \in Seq(Frame)
           /\ FlattenSeq(out.parts) \o out.sp.buf = sp.buf \o chunk
  <1>0. chunk \in Seq(Byte) /\ sp.buf \in Seq(Byte)
    BY DEF Frame, Splitters
  <1>1. CASE sp.off
    <2>1. out.parts = <<chunk>> /\ out.sp = sp /\ sp.buf = <<>>
      BY <1>1 DEF Split, Splitters
    <2>2. FlattenSeq(<<chunk>>) = chunk /\ chunk \o <<>> = chunk /\ <<>> \o chunk = chunk
      BY <1>0, FlattenOne, ConcatEmptySeq
    <2>3. QED
      BY <2>1, <2>2
  <1>2. CASE ~sp.off
    <2>1. PICK all \in Seq(Byte) : all = sp.buf \o chunk
      BY <1>0, ConcatProperties
    <2>2. PICK r : r = Walked(p, all)[0]
      OBVIOUS
    <2>3. out = [parts |-> r.parts, sp |-> [buf |-> r.kept, off |-> r.off]]
      BY <1>2, <2>1, <2>2, SplitIs
    <2>4. PICK parts \in Seq(Frame), kept \in Seq(Byte), off \in BOOLEAN :
             /\ r = [parts |-> parts, kept |-> kept, off |-> off]
             /\ off => kept = <<>>
             /\ FlattenSeq(parts) \o kept = Beyond(all, 0)
      <3>1. 0 \in 0 .. Len(all)
        OBVIOUS
      <3>2. CutsUp(all, 0, r)
        BY <2>2, <3>1, WalkedCutsUp
      <3>3. QED
        BY <3>2 DEF CutsUp
    <2>5. out.parts = parts /\ out.sp = [buf |-> kept, off |-> off]
      BY <2>3, <2>4
    <2>6. Beyond(all, 0) = all
      BY SubSeqFull DEF Beyond
    <2>7. [buf |-> kept, off |-> off] \in Splitters
      BY <2>4 DEF Splitters
    <2>8. out.sp.buf = kept
      BY <2>5
    <2>9. QED
      BY <2>1, <2>4, <2>5, <2>6, <2>7, <2>8
  <1>3. QED
    BY <1>1, <1>2

LEMMA FlushKeeps ==
    ASSUME NEW sp \in Splitters, NEW out, out = Flush(sp)
    PROVE  /\ out.sp \in Splitters /\ out.parts \in Seq(Frame)
           /\ FlattenSeq(out.parts) \o out.sp.buf = sp.buf
  <1>0. sp.buf \in Seq(Byte) /\ sp.off \in BOOLEAN /\ sp \in [buf : Seq(Byte), off : BOOLEAN]
    BY DEF Splitters
  <1>1. out.sp = [sp EXCEPT !.buf = <<>>] /\ out.parts = IF sp.buf = <<>> THEN <<>> ELSE <<sp.buf>>
    BY DEF Flush
  <1>2. out.sp.buf = <<>> /\ out.sp \in Splitters
    <2>1. PICK t : t = [sp EXCEPT !.buf = <<>>]
      OBVIOUS
    <2>2. PICK b \in Seq(Byte), o \in BOOLEAN : sp = [buf |-> b, off |-> o]
      BY <1>0
    <2>3. t = [buf |-> <<>>, off |-> o]
      BY <2>1, <2>2
    <2>4. <<>> \in Seq(Byte)
      OBVIOUS
    <2>5. t \in [buf : Seq(Byte), off : BOOLEAN] /\ t.buf = <<>>
      BY <2>3, <2>4
    <2>6. QED
      BY <1>1, <2>1, <2>5 DEF Splitters
  <1>3. CASE sp.buf = <<>>
    <2>1. FlattenSeq(<<>>) \o <<>> = <<>>
      BY FlattenEmpty, ConcatEmptySeq
    <2>2. QED
      BY <1>1, <1>2, <1>3, <2>1
  <1>4. CASE sp.buf # <<>>
    <2>1. FlattenSeq(<<sp.buf>>) = sp.buf /\ sp.buf \o <<>> = sp.buf
      BY <1>0, FlattenOne, ConcatEmptySeq
    <2>2. sp.buf \in Frame
      BY <1>0, <1>4 DEF Frame
    <2>3. QED
      BY <1>1, <1>2, <1>4, <2>1, <2>2
  <1>5. QED
    BY <1>3, <1>4

-----------------------------------------------------------------------------
(* The stream.                                                             *)

\* What has been read is in the frames, the splitter or the read buffer; before
\* the handshake has been taken it is all in the read buffer.
StreamInv ==
    /\ TypeOK
    /\ readBuf \in Seq(Byte) /\ splitter \in Splitters /\ frames \in Seq(Frame)
    /\ ~tls => readBuf = <<>>
    /\ pc = "init" => frames = <<>> /\ splitter = NewSplitter /\ readBuf = SubSeq(sent, 1, pos)
    /\ pc # "init" => Len(Init0) <= pos
    /\ NothingLost

LEMMA SentTyped ==
    ASSUME TypeOK
    PROVE  sent \in Seq(Byte) /\ Len(Init0) \in Nat /\ Len(Init0) <= Len(sent)
  <1>1. Packets[proto] \subseteq Seq(Byte)
    BY StreamAssumption DEF TypeOK
  <1>2. packets \in Seq(Seq(Byte))
    BY <1>1, SeqMonotonic DEF TypeOK
  <1>3. PICK flat \in Seq(Byte) : flat = FlattenSeq(packets)
    BY <1>2, FlattenTyped
  <1>4. Init0 \in Seq(Byte)
    BY StreamAssumption
  <1>5. sent = Init0 \o flat
    BY <1>3 DEF sent
  <1>6. QED
    BY <1>4, <1>5, ConcatProperties

LEMMA StreamInit ==
    ASSUME Init
    PROVE  StreamInv
  <1>0. Protos # {} /\ MaxRecord \in Nat /\ Init0 \in Seq(Byte)
    BY StreamAssumption DEF Protos
  <1>1. packets \in Seq(Packets[proto])
    BY StreamAssumption DEF Init, BoundedSeq, SeqOf
  <1>2. frames = <<>> /\ splitter = NewSplitter /\ readBuf = <<>> /\ pos = 0 /\ left = 0 /\ pc = "init"
    BY DEF Init
  <1>3. PICK flat : flat = FlattenSeq(packets)
    OBVIOUS
  <1>4. Packets[proto] \subseteq Seq(Byte)
    BY StreamAssumption DEF Init
  <1>5. flat \in Seq(Byte)
    BY <1>1, <1>3, <1>4, SeqMonotonic, FlattenTyped
  <1>6. sent \in Seq(Byte)
    BY <1>0, <1>3, <1>5 DEF sent
  <1>7. TypeOK
    BY <1>0, <1>1, <1>2, <1>6 DEF TypeOK, Init, NewSplitter
  <1>8. SubSeq(sent, 1, 0) = <<>>
    BY SubSeqEmpty
  <1>9. NewSplitter \in Splitters
    BY DEF NewSplitter, Splitters
  <1>10. QED
    BY <1>2, <1>7, <1>8, <1>9 DEF StreamInv, NothingLost

\* A slice of the stream is as long as asked for, and follows what was read.
LEMMA SliceFollows ==
    ASSUME TypeOK, NEW m \in 0 .. Len(sent) - pos
    PROVE  /\ Slice(m) \in Seq(Byte) /\ Len(Slice(m)) = m /\ pos + m \in 0 .. Len(sent)
           /\ \A a \in 0 .. pos :
                 SubSeq(sent, a + 1, pos) \o Slice(m) = SubSeq(sent, a + 1, pos + m)
  <1>0. sent \in Seq(Byte) /\ pos \in 0 .. Len(sent) /\ Len(sent) \in Nat
    BY SentTyped DEF TypeOK
  <1>1. PICK q \in 0 .. Len(sent) : q = pos + m /\ q >= pos
    BY <1>0
  <1>2. Slice(m) = SubSeq(sent, pos + 1, q)
    BY <1>1 DEF Slice
  <1> HIDE DEF sent
  <1>3. \A i \in pos + 1 .. q : sent[i] \in Byte
    BY <1>0, <1>1
  <1>4. Slice(m) \in Seq(Byte) /\ Len(Slice(m)) = IF pos + 1 <= q THEN q - (pos + 1) + 1 ELSE 0
    BY <1>0, <1>1, <1>2, <1>3, SubSeqProperties
  <1>5. ASSUME NEW a \in 0 .. pos
        PROVE  SubSeq(sent, a + 1, pos) \o SubSeq(sent, pos + 1, q) = SubSeq(sent, a + 1, q)
    <2>1. a + 1 \in 1 .. Len(sent) + 1 /\ pos \in (a + 1) - 1 .. Len(sent) /\ q \in pos .. Len(sent)
      BY <1>0, <1>1
    <2>2. QED
      BY <1>0, <2>1, ConcatAdjacentSubSeq
  <1>6. QED
    BY <1>0, <1>1, <1>2, <1>4, <1>5

LEMMA PayloadRead ==
    ASSUME TypeOK, NEW m \in Nat, ReadPayload(m)
    PROVE  /\ m \in 1 .. Len(sent) - pos /\ m <= MaxRecord
           /\ pos' = pos + m /\ left' \in 0 .. MaxRecord
  <1>0. pos \in 0 .. Len(sent) /\ Len(sent) \in Nat /\ left \in 0 .. MaxRecord /\ MaxRecord \in Nat
    BY SentTyped, StreamAssumption DEF TypeOK
  <1> HIDE DEF sent
  <1>1. QED
    BY <1>0 DEF ReadPayload, Upto

\* A buffer is cut in two: a chunk, and what stays.
LEMMA Halves ==
    ASSUME NEW s \in Seq(Byte), NEW k \in 1 .. Len(s)
    PROVE  /\ SubSeq(s, 1, k) \in Frame /\ Len(SubSeq(s, 1, k)) = k
           /\ SubSeq(s, k + 1, Len(s)) \in Seq(Byte) /\ Len(SubSeq(s, k + 1, Len(s))) = Len(s) - k
           /\ SubSeq(s, 1, k) \o SubSeq(s, k + 1, Len(s)) = s
  <1>1. SubSeq(s, 1, k) \in Seq(Byte) /\ Len(SubSeq(s, 1, k)) = k /\ SubSeq(s, 1, k) # <<>>
    OBVIOUS
  <1>2. SubSeq(s, k + 1, Len(s)) \in Seq(Byte) /\ Len(SubSeq(s, k + 1, Len(s))) = Len(s) - k
    OBVIOUS
  <1>3. SubSeq(s, 1, k) \o SubSeq(s, k + 1, Len(s)) = SubSeq(s, 1, Len(s))
    BY ConcatAdjacentSubSeq
  <1>4. QED
    BY <1>1, <1>2, <1>3, SubSeqFull DEF Frame

\* What read() gives comes first in the buffer and the slice taken off the socket.
Taken(chunk, m) ==
    /\ m \in 0 .. Len(sent) - pos /\ pos' = pos + m /\ left' \in 0 .. MaxRecord
    /\ chunk \in Frame /\ readBuf' \in Seq(Byte) /\ Len(readBuf') <= MaxRecord + Len(Init0)
    /\ readBuf \o Slice(m) = chunk \o readBuf'

LEMMA ReadTakes ==
    ASSUME StreamInv, NEW chunk, Read(ReadSize, chunk)
    PROVE  \E m \in Nat : Taken(chunk, m)
  <1>0. /\ TypeOK /\ readBuf \in Seq(Byte) /\ MaxRecord \in Nat /\ ReadSize \in Nat \ {0}
        /\ pos \in 0 .. Len(sent) /\ left \in 0 .. MaxRecord
        /\ Len(sent) \in Nat /\ Len(Init0) \in Nat /\ Len(readBuf) <= MaxRecord + Len(Init0)
    BY SentTyped, StreamAssumption DEF StreamInv, TypeOK
  <1> HIDE DEF sent
  <1>1. CASE /\ readBuf # <<>>
             /\ chunk = SubSeq(readBuf, 1, IF ReadSize < Len(readBuf) THEN ReadSize ELSE Len(readBuf))
             /\ readBuf' = SubSeq(readBuf, Len(chunk) + 1, Len(readBuf))
             /\ UNCHANGED <<pos, left>>
    <2>1. PICK k \in 1 .. Len(readBuf) :
             k = IF ReadSize < Len(readBuf) THEN ReadSize ELSE Len(readBuf)
      BY <1>0, <1>1
    <2>2. chunk = SubSeq(readBuf, 1, k) /\ Len(chunk) = k
      BY <1>0, <1>1, <2>1, Halves
    <2>3. readBuf' = SubSeq(readBuf, k + 1, Len(readBuf))
      BY <1>1, <2>2
    <2>4. /\ chunk \in Frame /\ readBuf' \in Seq(Byte) /\ Len(readBuf') = Len(readBuf) - k
          /\ chunk \o readBuf' = readBuf
      BY <1>0, <2>1, <2>2, <2>3, Halves
    <2>5. 0 \in 0 .. Len(sent) - pos /\ pos' = pos + 0 /\ left' \in 0 .. MaxRecord
      BY <1>0, <1>1
    <2>6. Slice(0) \in Seq(Byte) /\ Len(Slice(0)) = 0
      BY <1>0, <2>5, SliceFollows
    <2>7. readBuf \o Slice(0) = readBuf
      <3>1. Slice(0) = <<>>
        BY <2>6
      <3>2. QED
        BY <1>0, <3>1, ConcatEmptySeq
    <2>8. Len(readBuf') <= MaxRecord + Len(Init0)
      <3>1. Len(readBuf) \in Nat
        BY <1>0
      <3>2. Len(readBuf') <= Len(readBuf)
        BY <2>1, <2>4, <3>1
      <3>3. QED
        BY <1>0, <2>4, <3>1, <3>2
    <2>9. QED
      BY <2>4, <2>5, <2>7, <2>8 DEF Taken
  <1>2. ASSUME readBuf = <<>>, NEW m \in 1 .. MaxRecord, ReadPayload(m),
               chunk = SubSeq(Slice(m), 1, IF ReadSize < m THEN ReadSize ELSE m),
               readBuf' = SubSeq(Slice(m), Len(chunk) + 1, m)
        PROVE  Taken(chunk, m)
    <2>1. /\ m \in Nat /\ m \in 1 .. Len(sent) - pos /\ m <= MaxRecord
          /\ pos' = pos + m /\ left' \in 0 .. MaxRecord
      BY <1>0, <1>2, PayloadRead
    <2>2. m \in 0 .. Len(sent) - pos
      BY <2>1
    <2>3. PICK s \in Seq(Byte) : s = Slice(m) /\ Len(s) = m
      BY <1>0, <2>2, SliceFollows
    <2>4. PICK k \in 1 .. Len(s) : k = IF ReadSize < m THEN ReadSize ELSE m
      BY <1>0, <2>1, <2>3
    <2>5. chunk = SubSeq(s, 1, k) /\ Len(chunk) = k
      BY <1>2, <2>3, <2>4, Halves
    <2>6. readBuf' = SubSeq(s, k + 1, Len(s))
      BY <1>2, <2>3, <2>5
    <2>7. /\ chunk \in Frame /\ readBuf' \in Seq(Byte) /\ Len(readBuf') = Len(s) - k
          /\ chunk \o readBuf' = s
      BY <2>5, <2>6, Halves
    <2>8. readBuf \o Slice(m) = s
      BY <1>2, <2>3, ConcatEmptySeq
    <2>9. Len(readBuf') <= MaxRecord + Len(Init0)
      <3>1. Len(readBuf') = m - k /\ k \in 1 .. m
        BY <2>3, <2>4, <2>7
      <3>2. m - k <= MaxRecord + Len(Init0)
        BY <1>0, <2>1, <3>1
      <3>3. QED
        BY <3>1, <3>2
    <2>10. QED
      BY <2>1, <2>2, <2>7, <2>8, <2>9 DEF Taken
  <1>3. QED
    <2>1. CASE readBuf # <<>>
      BY <1>1, <2>1 DEF Read
    <2>2. CASE readBuf = <<>>
      <3>1. PICK m \in 1 .. MaxRecord :
               /\ ReadPayload(m)
               /\ chunk = SubSeq(Slice(m), 1, IF ReadSize < m THEN ReadSize ELSE m)
               /\ readBuf' = SubSeq(Slice(m), Len(chunk) + 1, m)
        BY <2>2 DEF Read
      <3>2. Taken(chunk, m)
        BY <1>2, <2>2, <3>1
      <3>3. QED
        BY <1>0, <3>1, <3>2
    <2>3. QED
      BY <2>1, <2>2

\* Without TLS, read() gives what it takes off the socket.
LEMMA SegmentTakes ==
    ASSUME StreamInv, ~tls, NEW chunk \in Chunks,
           pos' = pos + Len(chunk), UNCHANGED <<left, readBuf>>
    PROVE  \E m \in Nat : Taken(chunk, m)
  <1>0. /\ TypeOK /\ readBuf = <<>> /\ MaxRecord \in Nat /\ ReadSize \in Nat \ {0}
        /\ pos \in 0 .. Len(sent) /\ left \in 0 .. MaxRecord
        /\ Len(sent) \in Nat /\ Len(Init0) \in Nat
    BY SentTyped, StreamAssumption DEF StreamInv, TypeOK
  <1> HIDE DEF sent
  <1>1. PICK m \in Upto(ReadSize) : chunk = Slice(m)
    BY <1>0 DEF Chunks
  <1>2. m \in Nat /\ m \in 1 .. Len(sent) - pos /\ m \in 0 .. Len(sent) - pos
    BY <1>0, <1>1 DEF Upto
  <1>3. chunk \in Seq(Byte) /\ Len(chunk) = m
    BY <1>0, <1>1, <1>2, SliceFollows
  <1>4. chunk \in Frame
    BY <1>2, <1>3 DEF Frame
  <1>5. readBuf' = <<>> /\ <<>> \o chunk = chunk /\ chunk \o <<>> = chunk
    BY <1>0, <1>3, ConcatEmptySeq
  <1>6. QED
    BY <1>0, <1>1, <1>2, <1>3, <1>4, <1>5 DEF Taken

LEMMA HandshakeKeeps ==
    ASSUME StreamInv, Handshake
    PROVE  StreamInv'
  <1>0. /\ TypeOK /\ pc = "init" /\ frames = <<>> /\ splitter = NewSplitter
        /\ readBuf \in Seq(Byte) /\ readBuf = SubSeq(sent, 1, pos)
        /\ splitter \in Splitters /\ frames \in Seq(Frame)
    BY DEF StreamInv, Handshake
  <1>1. /\ sent \in Seq(Byte) /\ Len(sent) \in Nat /\ Len(Init0) \in Nat /\ Len(Init0) <= Len(sent)
        /\ pos \in 0 .. Len(sent) /\ MaxRecord \in Nat
    BY <1>0, SentTyped, StreamAssumption DEF TypeOK
  <1>2. sent' = sent /\ UNCHANGED <<proto, tls, packets, splitter, frames>>
    BY DEF Handshake, sent
  <1>3. TypeOK' <=> /\ pos' \in 0 .. Len(sent) /\ left' \in 0 .. MaxRecord /\ (left' > 0 => tls)
                    /\ Len(readBuf') <= MaxRecord + Len(Init0)
                    /\ pc' \in {"init", "relay", "eof", "raised"}
    BY <1>0, <1>2 DEF TypeOK
  <1>4. NewSplitter.buf = <<>> /\ FlattenSeq(<<>>) = <<>> /\ <<>> \o <<>> = <<>>
    BY FlattenEmpty, ConcatEmptySeq DEF NewSplitter
  <1> HIDE DEF sent
  <1>5. CASE ~tls /\ pos' = Len(Init0) /\ pc' = "relay" /\ UNCHANGED <<left, readBuf>>
    <2>1. readBuf = <<>> /\ readBuf' = <<>>
      BY <1>5 DEF StreamInv
    <2>2. TypeOK'
      BY <1>0, <1>1, <1>3, <1>5, <2>1 DEF TypeOK
    <2>3. SubSeq(sent, Len(Init0) + 1, Len(Init0)) = <<>>
      BY <1>1, SubSeqEmpty
    <2>4. NothingLost'
      BY <1>0, <1>2, <1>4, <1>5, <2>1, <2>3 DEF NothingLost
    <2>5. QED
      BY <1>0, <1>1, <1>2, <1>5, <2>1, <2>2, <2>4 DEF StreamInv
  <1>6. CASE tls /\ TakeExactly(Len(Init0)) /\ pc' = "relay" /\ UNCHANGED <<pos, left>>
    <2>1. PICK n \in Nat : n = Len(Init0) /\ n <= Len(sent)
      BY <1>1
    <2>2. Len(readBuf) = pos
      BY <1>0, <1>1
    <2>3. n <= pos /\ readBuf' = SubSeq(readBuf, n + 1, pos)
      BY <1>6, <2>1, <2>2 DEF TakeExactly
    <2>4. readBuf' = SubSeq(sent, n + 1, pos)
      <3>1. CASE n < pos
        <4>1. /\ 1 \in 1 .. Len(sent) /\ pos \in 1 .. Len(sent)
              /\ n + 1 \in 1 .. pos - 1 + 1 /\ pos \in 1 .. pos - 1 + 1
              /\ 1 + (n + 1) - 1 = n + 1 /\ 1 + pos - 1 = pos
          BY <1>1, <2>1, <3>1
        <4>2. SubSeq(SubSeq(sent, 1, pos), n + 1, pos) = SubSeq(sent, 1 + (n + 1) - 1, 1 + pos - 1)
          BY <1>1, <4>1, SubSeqOfSubSeq
        <4>3. QED
          BY <1>0, <2>3, <4>1, <4>2
      <3>2. CASE n = pos
        <4>1. SubSeq(readBuf, n + 1, pos) = <<>> /\ SubSeq(sent, n + 1, pos) = <<>>
          BY <1>1, <2>1, <3>2, SubSeqEmpty
        <4>2. QED
          BY <2>3, <4>1
      <3>3. QED
        BY <1>1, <2>1, <2>3, <3>1, <3>2
    <2>5. \A i \in n + 1 .. pos : sent[i] \in Byte
      BY <1>1, <2>1
    <2>6. readBuf' \in Seq(Byte) /\ Len(readBuf') = IF n + 1 <= pos THEN pos - (n + 1) + 1 ELSE 0
      BY <1>1, <2>1, <2>4, <2>5, SubSeqProperties
    <2>7. Len(readBuf') <= Len(readBuf)
      BY <1>1, <2>1, <2>2, <2>6
    <2>8. TypeOK'
      <3>1. Len(readBuf) <= MaxRecord + Len(Init0) /\ left \in 0 .. MaxRecord
        BY <1>0 DEF TypeOK
      <3>2. Len(readBuf') <= MaxRecord + Len(Init0)
        BY <1>1, <2>2, <2>6, <2>7, <3>1
      <3>3. QED
        BY <1>1, <1>3, <1>6, <3>1, <3>2
    <2>9. NothingLost'
      <3>1. <<>> \o readBuf' = readBuf'
        BY <2>6, ConcatEmptySeq
      <3>2. QED
        BY <1>0, <1>2, <1>4, <1>6, <2>1, <2>4, <3>1 DEF NothingLost
    <2>10. QED
      BY <1>0, <1>1, <1>2, <1>6, <2>1, <2>3, <2>6, <2>8, <2>9 DEF StreamInv
  <1>7. ASSUME tls, NEW m \in 1 .. MaxRecord, Gather(Len(Init0), m), UNCHANGED pc
        PROVE  StreamInv'
    <2>1. /\ m \in 1 .. Len(sent) - pos /\ m \in 0 .. Len(sent) - pos /\ m <= MaxRecord
          /\ pos' = pos + m /\ left' \in 0 .. MaxRecord
      BY <1>0, <1>7, PayloadRead DEF Gather
    <2>2. /\ Slice(m) \in Seq(Byte) /\ Len(Slice(m)) = m /\ pos + m \in 0 .. Len(sent)
          /\ SubSeq(sent, 0 + 1, pos) \o Slice(m) = SubSeq(sent, 0 + 1, pos + m)
      <3>1. 0 \in 0 .. pos
        BY <1>1
      <3>2. QED
        BY <1>0, <2>1, <3>1, SliceFollows
    <2>3. readBuf' = readBuf \o Slice(m) /\ Len(readBuf) < Len(Init0)
      BY <1>7 DEF Gather
    <2>4. readBuf' = SubSeq(sent, 1, pos')
      BY <1>0, <2>1, <2>2, <2>3
    <2>5. readBuf' \in Seq(Byte) /\ Len(readBuf') = Len(readBuf) + m /\ Len(readBuf) \in Nat
      BY <1>0, <2>2, <2>3, ConcatProperties
    <2>6. TypeOK'
      BY <1>0, <1>1, <1>3, <1>7, <2>1, <2>2, <2>3, <2>5
    <2>7. QED
      BY <1>0, <1>2, <1>7, <2>4, <2>5, <2>6 DEF StreamInv, NothingLost
  <1>8. QED
    BY <1>5, <1>6, <1>7 DEF Handshake

LEMMA RelayKeeps ==
    ASSUME StreamInv, Relay
    PROVE  StreamInv'
  <1>0. /\ TypeOK /\ pc = "relay" /\ pc' = "relay" /\ splitter \in Splitters /\ frames \in Seq(Frame)
        /\ readBuf \in Seq(Byte) /\ Len(Init0) <= pos /\ NothingLost
        /\ UNCHANGED <<proto, tls, packets>> /\ sent' = sent
    BY DEF StreamInv, Relay, sent
  <1>1. PICK chunk \in Chunks :
           /\ \/ ~tls /\ pos' = pos + Len(chunk) /\ UNCHANGED <<left, readBuf>>
              \/ tls /\ Read(ReadSize, chunk)
           /\ splitter' = Split(proto, splitter, chunk).sp
           /\ frames' = frames \o Split(proto, splitter, chunk).parts
    BY DEF Relay
  <1>2. PICK m \in Nat : Taken(chunk, m)
    BY <1>1, ReadTakes, SegmentTakes
  <1>3. /\ m \in 0 .. Len(sent) - pos /\ pos' = pos + m /\ left' \in 0 .. MaxRecord
        /\ chunk \in Frame /\ readBuf' \in Seq(Byte) /\ Len(readBuf') <= MaxRecord + Len(Init0)
        /\ readBuf \o Slice(m) = chunk \o readBuf'
    BY <1>2 DEF Taken
  <1>4. PICK out : out = Split(proto, splitter, chunk)
    OBVIOUS
  <1>5. /\ out.sp \in Splitters /\ out.parts \in Seq(Frame)
        /\ FlattenSeq(out.parts) \o out.sp.buf = splitter.buf \o chunk
    BY <1>0, <1>3, <1>4, SplitKeeps
  <1>6. splitter' = out.sp /\ frames' = frames \o out.parts
    BY <1>1, <1>4
  <1>7. frames' \in Seq(Frame)
    BY <1>0, <1>5, <1>6, ConcatProperties
  <1>8. /\ sent \in Seq(Byte) /\ Len(sent) \in Nat /\ Len(Init0) \in Nat
        /\ pos \in 0 .. Len(sent) /\ Len(Init0) \in 0 .. pos
    BY <1>0, SentTyped DEF TypeOK
  <1>9. /\ Slice(m) \in Seq(Byte) /\ pos + m \in 0 .. Len(sent)
        /\ SubSeq(sent, Len(Init0) + 1, pos) \o Slice(m) = SubSeq(sent, Len(Init0) + 1, pos + m)
    BY <1>0, <1>3, <1>8, SliceFollows
  <1> HIDE DEF sent
  <1>10. TypeOK'
    <2>1. ~tls => left' = left
      BY <1>1
    <2>2. splitter' \in Splitters /\ \A i \in DOMAIN frames' : frames'[i] # <<>>
      BY <1>5, <1>6, <1>7 DEF Frame
    <2>3. splitter'.off \in BOOLEAN /\ (splitter'.off => splitter'.buf = <<>>)
      BY <2>2 DEF Splitters
    <2>4. pos' \in 0 .. Len(sent)
      BY <1>3, <1>9
    <2>5. QED
      BY <1>0, <1>3, <2>1, <2>2, <2>3, <2>4 DEF TypeOK
  <1>11. NothingLost'
    <2>1. PICK d \in Seq(Byte) : d = FlattenSeq(frames)
      BY <1>0, FramesAreBytes
    <2>2. PICK e \in Seq(Byte) : e = FlattenSeq(out.parts)
      BY <1>5, FramesAreBytes
    <2>3. PICK b \in Seq(Byte) : b = splitter.buf
      BY <1>0 DEF Splitters
    <2>4. PICK b2 \in Seq(Byte) : b2 = out.sp.buf
      BY <1>5 DEF Splitters
    <2>5. PICK s \in Seq(Byte) : s = Slice(m)
      BY <1>9
    <2>6. chunk \in Seq(Byte)
      BY <1>3 DEF Frame
    <2>7. FlattenSeq(frames') = d \o e
      <3>1. frames \in Seq(Seq(Byte)) /\ out.parts \in Seq(Seq(Byte))
        BY <1>0, <1>5, FramesAreBytes
      <3>2. FlattenSeq(frames \o out.parts) = FlattenSeq(frames) \o FlattenSeq(out.parts)
        BY <3>1, FlattenConcat
      <3>3. QED
        BY <1>6, <2>1, <2>2, <3>2
    <2>8. e \o b2 = b \o chunk /\ readBuf \o s = chunk \o readBuf'
      BY <1>3, <1>5, <2>2, <2>3, <2>4, <2>5
    <2>9. ((d \o e) \o b2) \o readBuf' = ((d \o b) \o readBuf) \o s
      <3>1. PICK r2 \in Seq(Byte) : r2 = readBuf'
        BY <1>3
      <3>2. PICK r \in Seq(Byte) : r = readBuf
        BY <1>0
      <3>3. PICK c \in Seq(Byte) : c = chunk
        BY <2>6
      <3>4. Then(e, b2) = Then(b, c) /\ Then(r, s) = Then(c, r2)
        BY <2>8, <3>1, <3>2, <3>3 DEF Then
      <3>5. Then(Then(Then(d, e), b2), r2) = Then(Then(Then(d, b), r), s)
        <4>1. Then(Then(d, e), b2) = Then(Then(d, b), c)
          BY <3>4, ThenRegroups
        <4>2. PICK db \in Seq(Byte) : db = Then(d, b)
          BY ConcatProperties DEF Then
        <4>3. Then(Then(db, c), r2) = Then(Then(db, r), s)
          BY <3>4, ThenRegroups
        <4>4. QED
          BY <4>1, <4>2, <4>3
      <3>6. QED
        BY <3>1, <3>2, <3>5 DEF Then
    <2>10. (d \o b) \o readBuf = SubSeq(sent, Len(Init0) + 1, pos)
      BY <1>0, <2>1, <2>3 DEF NothingLost
    <2>11. ((d \o e) \o b2) \o readBuf' = SubSeq(sent, Len(Init0) + 1, pos')
      BY <1>3, <1>9, <2>5, <2>9, <2>10
    <2>12. QED
      BY <1>0, <1>6, <2>4, <2>7, <2>11 DEF NothingLost
  <1>12. Len(Init0) <= pos'
    BY <1>3, <1>8
  <1>13. ~tls => readBuf' = <<>>
    BY <1>1 DEF StreamInv
  <1>14. QED
    BY <1>0, <1>3, <1>5, <1>6, <1>7, <1>10, <1>11, <1>12, <1>13 DEF StreamInv

LEMMA EofKeeps ==
    ASSUME StreamInv, Eof
    PROVE  StreamInv'
  <1>0. /\ TypeOK /\ pc = "relay" /\ pc' = "eof" /\ splitter \in Splitters /\ frames \in Seq(Frame)
        /\ readBuf = <<>> /\ NothingLost
        /\ UNCHANGED <<proto, tls, packets, pos, left, readBuf>> /\ sent' = sent
    BY DEF StreamInv, Eof, sent
  <1>1. PICK out : out = Flush(splitter) /\ splitter' = out.sp /\ frames' = frames \o out.parts
    BY DEF Eof
  <1>2. /\ out.sp \in Splitters /\ out.parts \in Seq(Frame)
        /\ FlattenSeq(out.parts) \o out.sp.buf = splitter.buf
    BY <1>0, <1>1, FlushKeeps
  <1>3. frames' \in Seq(Frame)
    BY <1>0, <1>1, <1>2, ConcatProperties
  <1> HIDE DEF sent
  <1>4. TypeOK'
    <2>1. splitter'.off \in BOOLEAN /\ (splitter'.off => splitter'.buf = <<>>)
      BY <1>1, <1>2 DEF Splitters
    <2>2. \A i \in DOMAIN frames' : frames'[i] # <<>>
      BY <1>3 DEF Frame
    <2>3. QED
      BY <1>0, <2>1, <2>2 DEF TypeOK
  <1>5. NothingLost'
    <2>1. PICK d \in Seq(Byte) : d = FlattenSeq(frames)
      BY <1>0, FramesAreBytes
    <2>2. PICK e \in Seq(Byte) : e = FlattenSeq(out.parts)
      BY <1>2, FramesAreBytes
    <2>3. PICK b2 \in Seq(Byte) : b2 = out.sp.buf
      BY <1>2 DEF Splitters
    <2>4. FlattenSeq(frames') = d \o e
      <3>1. frames \in Seq(Seq(Byte)) /\ out.parts \in Seq(Seq(Byte))
        BY <1>0, <1>2, FramesAreBytes
      <3>2. FlattenSeq(frames \o out.parts) = FlattenSeq(frames) \o FlattenSeq(out.parts)
        BY <3>1, FlattenConcat
      <3>3. QED
        BY <1>1, <2>1, <2>2, <3>2
    <2>5. (d \o e) \o b2 = d \o (e \o b2)
      <3>1. Then(Then(d, e), b2) = Then(d, Then(e, b2))
        BY ThenRegroups
      <3>2. QED
        BY <3>1 DEF Then
    <2>6. (d \o e) \o b2 = d \o splitter.buf
      BY <1>2, <2>2, <2>3, <2>5
    <2>7. QED
      BY <1>0, <1>1, <2>1, <2>3, <2>4, <2>6 DEF NothingLost
  <1>6. QED
    BY <1>0, <1>1, <1>2, <1>3, <1>4, <1>5 DEF StreamInv

LEMMA StreamStep ==
    ASSUME StreamInv, [Next]_vars
    PROVE  StreamInv'
  <1>1. CASE EofBetweenRecords \/ UNCHANGED vars
    <2>1. UNCHANGED <<proto, tls, packets, pos, left, readBuf, splitter, frames>> /\ sent' = sent
          /\ (pc' = pc \/ (pc = "relay" /\ pc' = "raised"))
      BY <1>1 DEF EofBetweenRecords, vars, sent
    <2> HIDE DEF sent
    <2>2. TypeOK' /\ NothingLost'
      BY <2>1 DEF StreamInv, TypeOK, NothingLost
    <2>3. QED
      BY <2>1, <2>2 DEF StreamInv
  <1>2. QED
    BY <1>1, HandshakeKeeps, RelayKeeps, EofKeeps DEF Next

-----------------------------------------------------------------------------
(* Where the splitter cuts.                                                *)

\* The two lengths, with what their headers say by name.
AbridgedHeader(b) == IF Extended(b[1]) THEN 4 ELSE 1
AbridgedPayload(b) ==
    4 * (IF Extended(b[1]) THEN b[2] + 256 * b[3] + 65536 * b[4] ELSE b[1] % 128)
IntermediatePayload(b) == b[1] + 256 * b[2] + 65536 * b[3] + 16777216 * (b[4] % 128)

LEMMA AbridgedIs ==
    ASSUME NEW b
    PROVE  AbridgedLen(b) = IF Len(b) < AbridgedHeader(b) THEN Incomplete
                            ELSE IF AbridgedPayload(b) = 0 THEN 0
                            ELSE IF Len(b) < AbridgedHeader(b) + AbridgedPayload(b) THEN Incomplete
                            ELSE AbridgedHeader(b) + AbridgedPayload(b)
  BY DEF AbridgedLen, AbridgedHeader, AbridgedPayload

LEMMA IntermediateIs ==
    ASSUME NEW b
    PROVE  IntermediateLen(b) = IF Len(b) < 4 THEN Incomplete
                                ELSE IF IntermediatePayload(b) = 0 THEN 0
                                ELSE IF Len(b) - 4 < IntermediatePayload(b) THEN Incomplete
                                ELSE 4 + IntermediatePayload(b)
  BY DEF IntermediateLen, IntermediatePayload

LEMMA BytesAreNumbers ==
    ASSUME NEW b \in Seq(Byte)
    PROVE  Len(b) \in Nat /\ \A i \in 1 .. Len(b) : b[i] \in Nat
  <1>1. Len(b) \in Nat /\ \A i \in 1 .. Len(b) : b[i] \in Byte
    OBVIOUS
  <1>2. \A x \in Byte : x \in Nat
    BY DEF Byte
  <1>3. QED
    BY <1>1, <1>2

\* What the header says is a number, and zero only if its bytes are.
LEMMA AbridgedNumbers ==
    ASSUME NEW b \in Seq(Byte), b # <<>>, ~(Len(b) < AbridgedHeader(b))
    PROVE  /\ AbridgedHeader(b) \in {1, 4} /\ AbridgedPayload(b) \in Nat
           /\ AbridgedPayload(b) = 0 <=>
                 b[1] % 128 = 0 \/ (Extended(b[1]) /\ b[2] + b[3] + b[4] = 0)
  <1>1. Len(b) \in Nat /\ \A i \in 1 .. Len(b) : b[i] \in Nat
    BY BytesAreNumbers
  <1>2. PICK h \in Nat : h = b[1]
    BY <1>1
  <1>3. CASE Extended(h)
    <2>1. Len(b) >= 4 /\ AbridgedHeader(b) = 4
      BY <1>1, <1>2, <1>3 DEF AbridgedHeader
    <2>2. PICK x \in Nat, y \in Nat, z \in Nat : x = b[2] /\ y = b[3] /\ z = b[4]
      BY <1>1, <2>1
    <2>3. AbridgedPayload(b) = 4 * (x + 256 * y + 65536 * z)
      BY <1>2, <1>3, <2>2 DEF AbridgedPayload
    <2>4. 4 * (x + 256 * y + 65536 * z) \in Nat
      OBVIOUS
    <2>5. 4 * (x + 256 * y + 65536 * z) = 0 <=> x + y + z = 0
      OBVIOUS
    <2>6. h % 128 = 127
      BY <1>3 DEF Extended
    <2>7. QED
      BY <1>2, <1>3, <2>1, <2>2, <2>3, <2>4, <2>5, <2>6
  <1>4. CASE ~Extended(h)
    <2>1. AbridgedHeader(b) = 1 /\ AbridgedPayload(b) = 4 * (h % 128)
      BY <1>2, <1>4 DEF AbridgedHeader, AbridgedPayload
    <2>2. h % 128 \in Nat
      OBVIOUS
    <2>3. QED
      BY <1>2, <1>4, <2>1, <2>2
  <1>5. QED
    BY <1>3, <1>4

LEMMA IntermediateNumbers ==
    ASSUME NEW b \in Seq(Byte), ~(Len(b) < 4)
    PROVE  /\ IntermediatePayload(b) \in Nat
           /\ IntermediatePayload(b) = 0 <=> b[1] + b[2] + b[3] + (b[4] % 128) = 0
  <1>1. Len(b) \in Nat /\ \A i \in 1 .. Len(b) : b[i] \in Nat
    BY BytesAreNumbers
  <1>2. PICK w \in Nat, x \in Nat, y \in Nat, z \in Nat :
           w = b[1] /\ x = b[2] /\ y = b[3] /\ z = b[4]
    BY <1>1
  <1>3. PICK d \in Nat : d = z % 128
    OBVIOUS
  <1>4. IntermediatePayload(b) = w + 256 * x + 65536 * y + 16777216 * d
    BY <1>2, <1>3 DEF IntermediatePayload
  <1>5. w + 256 * x + 65536 * y + 16777216 * d \in Nat
    BY Weighted
  <1>6. w + 256 * x + 65536 * y + 16777216 * d = 0 <=> w + x + y + d = 0
    OBVIOUS
  <1>7. QED
    BY <1>2, <1>3, <1>4, <1>5, <1>6

\* A packet that is whole, as long as its header says.
WholePacket(p, b) == b \in Seq(Byte) /\ b # <<>> /\ NextLen(p, b) \in {0, Len(b)}

\* What the client writes as a packet, the splitter takes for a whole one.
LEMMA PacketsAreWhole ==
    ASSUME NEW p, NEW b \in Seq(Byte), b # <<>>, IsPacket(p, b)
    PROVE  WholePacket(p, b)
  <1>1. CASE p = "abridged"
    <2>1. NextLen(p, b) = AbridgedLen(b)
      BY <1>1 DEF NextLen
    <2>2. ~(Len(b) < AbridgedHeader(b)) /\ Len(b) \in Nat \ {0}
      BY <1>1 DEF IsPacket, AbridgedHeader, Extended
    <2>3. AbridgedHeader(b) \in {1, 4} /\ AbridgedPayload(b) \in Nat
      BY <2>2, AbridgedNumbers
    <2>4. Len(b) = AbridgedHeader(b) + AbridgedPayload(b)
      BY <1>1 DEF IsPacket, AbridgedHeader, AbridgedPayload, Extended
    <2>5. AbridgedLen(b) \in {0, Len(b)}
      BY <2>2, <2>3, <2>4, AbridgedIs
    <2>6. QED
      BY <2>1, <2>5 DEF WholePacket
  <1>2. CASE p = "intermediate"
    <2>1. NextLen(p, b) = IntermediateLen(b)
      BY <1>2 DEF NextLen
    <2>2. ~(Len(b) < 4) /\ Len(b) \in Nat \ {0}
      BY <1>2 DEF IsPacket
    <2>3. PICK n : n = IntermediatePayload(b) /\ n \in Nat
      BY <2>2, IntermediateNumbers
    <2>4. Len(b) = 4 + n
      <3>1. b[1] \in Nat /\ b[2] \in Nat /\ b[3] \in Nat /\ b[4] \in Nat
        BY <2>2, BytesAreNumbers
      <3>2. PICK w \in Nat, x \in Nat, y \in Nat, d \in Nat :
                w = b[1] /\ x = b[2] /\ y = b[3] /\ d = b[4] % 128
        BY <3>1
      <3>3. Len(b) = 4 + w + 256 * x + 65536 * y + 16777216 * d
        BY <1>2, <3>2 DEF IsPacket
      <3>4. n = w + 256 * x + 65536 * y + 16777216 * d
        BY <2>3, <3>2 DEF IntermediatePayload
      <3>5. QED
        BY <3>3, <3>4
    <2>5. IntermediateLen(b) \in {0, Len(b)}
      BY <2>2, <2>3, <2>4, IntermediateIs
    <2>6. QED
      BY <2>1, <2>5 DEF WholePacket
  <1>3. QED
    BY <1>1, <1>2 DEF IsPacket

\* What has been read from the beginning of a packet on.
Starts(r, b) == r \in Seq(Byte) /\ \A i \in 1 .. Len(r) : i <= Len(b) => r[i] = b[i]

\* The length of a whole packet can be told when all of it has been read, and
\* not before, whatever follows it; and that it is senseless, at the latest then.
CutAtItsEnd(p, r, b) ==
    /\ NextLen(p, b) = 0 => NextLen(p, r) \in {Incomplete, 0}
    /\ NextLen(p, b) # 0 => NextLen(p, r) = IF Len(r) < Len(b) THEN Incomplete ELSE Len(b)

LEMMA AbridgedCut ==
    ASSUME NEW b, WholePacket("abridged", b), NEW r, Starts(r, b)
    PROVE  CutAtItsEnd("abridged", r, b)
  <1>1. /\ b \in Seq(Byte) /\ r \in Seq(Byte) /\ Len(b) \in Nat \ {0} /\ Len(r) \in Nat
        /\ \A i \in 1 .. Len(r) : i <= Len(b) => r[i] = b[i]
    BY DEF WholePacket, Starts
  <1>2. CASE r = <<>>
    BY <1>1, <1>2 DEF NextLen, CutAtItsEnd
  <1>3. CASE r # <<>>
    <2>1. r[1] = b[1]
      BY <1>1, <1>3
    <2>2. NextLen("abridged", b) = AbridgedLen(b) /\ NextLen("abridged", r) = AbridgedLen(r)
      BY <1>1, <1>3 DEF NextLen
    <2>3. PICK h : h = AbridgedHeader(b) /\ h = AbridgedHeader(r)
      BY <2>1 DEF AbridgedHeader
    <2>4. h \in {1, 4} /\ ~(Len(b) < h)
      <3>1. AbridgedLen(b) # Incomplete
        BY <1>1, <2>2 DEF WholePacket, Incomplete
      <3>2. QED
        BY <2>3, <3>1, AbridgedIs DEF AbridgedHeader
    <2>5. PICK n \in Nat : n = AbridgedPayload(b)
      <3>1. b # <<>> /\ ~(Len(b) < AbridgedHeader(b))
        BY <2>3, <2>4 DEF WholePacket
      <3>2. AbridgedPayload(b) \in Nat
        BY <1>1, <3>1, AbridgedNumbers
      <3>3. QED
        BY <3>2
    <2>6. AbridgedLen(b) = IF n = 0 THEN 0 ELSE IF Len(b) < h + n THEN Incomplete ELSE h + n
      BY <2>3, <2>4, <2>5, AbridgedIs
    <2>7. n # 0 => Len(b) = h + n /\ AbridgedLen(b) = h + n
      BY <1>1, <2>2, <2>4, <2>6 DEF WholePacket, Incomplete
    <2>8. CASE Len(r) < h
      <3>1. AbridgedLen(r) = Incomplete
        BY <2>3, <2>8, AbridgedIs
      <3>2. Len(r) < Len(b)
        BY <1>1, <2>4, <2>8
      <3>3. QED
        BY <2>2, <3>1, <3>2 DEF CutAtItsEnd
    <2>9. CASE ~(Len(r) < h)
      <3>1. AbridgedPayload(r) = n
        <4>1. CASE Extended(b[1])
          <5>1. h = 4
            BY <2>3, <4>1 DEF AbridgedHeader
          <5>2. r[2] = b[2] /\ r[3] = b[3] /\ r[4] = b[4]
            BY <1>1, <2>4, <2>9, <5>1
          <5>3. QED
            BY <2>1, <2>5, <5>2 DEF AbridgedPayload
        <4>2. CASE ~Extended(b[1])
          BY <2>1, <2>5, <4>2 DEF AbridgedPayload
        <4>3. QED
          BY <4>1, <4>2
      <3>2. AbridgedLen(r) = IF n = 0 THEN 0 ELSE IF Len(r) < h + n THEN Incomplete ELSE h + n
        BY <2>3, <2>9, <3>1, AbridgedIs
      <3>3. QED
        BY <2>2, <2>4, <2>6, <2>7, <3>2 DEF CutAtItsEnd
    <2>10. QED
      BY <2>8, <2>9
  <1>4. QED
    BY <1>2, <1>3

LEMMA IntermediateCut ==
    ASSUME NEW b, WholePacket("intermediate", b), NEW r, Starts(r, b)
    PROVE  CutAtItsEnd("intermediate", r, b)
  <1>1. /\ b \in Seq(Byte) /\ r \in Seq(Byte) /\ Len(b) \in Nat \ {0} /\ Len(r) \in Nat
        /\ \A i \in 1 .. Len(r) : i <= Len(b) => r[i] = b[i]
    BY DEF WholePacket, Starts
  <1>2. CASE r = <<>>
    BY <1>1, <1>2 DEF NextLen, CutAtItsEnd
  <1>3. CASE r # <<>>
    <2>1. /\ NextLen("intermediate", b) = IntermediateLen(b)
          /\ NextLen("intermediate", r) = IntermediateLen(r)
      BY <1>1, <1>3 DEF NextLen
    <2>2. ~(Len(b) < 4)
      <3>1. IntermediateLen(b) # Incomplete
        BY <1>1, <2>1 DEF WholePacket, Incomplete
      <3>2. QED
        BY <3>1, IntermediateIs
    <2>3. PICK n \in Nat : n = IntermediatePayload(b)
      BY <1>1, <2>2, IntermediateNumbers
    <2>4. IntermediateLen(b) = IF n = 0 THEN 0 ELSE IF Len(b) - 4 < n THEN Incomplete ELSE 4 + n
      BY <2>2, <2>3, IntermediateIs
    <2>5. n # 0 => Len(b) = 4 + n /\ IntermediateLen(b) = 4 + n
      BY <1>1, <2>1, <2>4 DEF WholePacket, Incomplete
    <2>6. CASE Len(r) < 4
      <3>1. IntermediateLen(r) = Incomplete
        BY <2>6, IntermediateIs
      <3>2. Len(r) < Len(b)
        BY <1>1, <2>2, <2>6
      <3>3. QED
        BY <2>1, <3>1, <3>2 DEF CutAtItsEnd
    <2>7. CASE ~(Len(r) < 4)
      <3>1. r[1] = b[1] /\ r[2] = b[2] /\ r[3] = b[3] /\ r[4] = b[4]
        BY <1>1, <2>2, <2>7
      <3>2. IntermediatePayload(r) = n
        BY <2>3, <3>1 DEF IntermediatePayload
      <3>3. IntermediateLen(r) = IF n = 0 THEN 0 ELSE IF Len(r) - 4 < n THEN Incomplete ELSE 4 + n
        BY <2>7, <3>2, IntermediateIs
      <3>4. Len(r) - 4 < n <=> Len(r) < 4 + n
        BY <1>1
      <3>5. QED
        BY <2>1, <2>4, <2>5, <3>3, <3>4 DEF CutAtItsEnd
    <2>8. QED
      BY <2>6, <2>7
  <1>4. QED
    BY <1>2, <1>3

LEMMA PacketCut ==
    ASSUME NEW p \in Protos, NEW b, WholePacket(p, b), NEW r, Starts(r, b)
    PROVE  CutAtItsEnd(p, r, b)
  <1>1. CASE p = "abridged"
    BY <1>1, AbridgedCut
  <1>2. CASE p = "intermediate"
    BY <1>2, IntermediateCut
  <1>3. QED
    BY <1>1, <1>2 DEF Protos

\* A packet is senseless if that is what NextLen finds.
LEMMA SenselessIs ==
    ASSUME proto \in Protos, NEW b, WholePacket(proto, b)
    PROVE  Senseless(b) <=> NextLen(proto, b) = 0
  <1>1. b \in Seq(Byte) /\ b # <<>> /\ Len(b) \in Nat \ {0}
    BY DEF WholePacket
  <1>2. CASE proto = "abridged"
    <2>1. NextLen(proto, b) = AbridgedLen(b) /\ AbridgedLen(b) # Incomplete
      BY <1>1, <1>2 DEF NextLen, WholePacket, Incomplete
    <2>2. ~(Len(b) < AbridgedHeader(b))
      BY <2>1, AbridgedIs
    <2>3. /\ AbridgedHeader(b) \in {1, 4} /\ AbridgedPayload(b) \in Nat
          /\ AbridgedPayload(b) = 0 <=>
                b[1] % 128 = 0 \/ (Extended(b[1]) /\ b[2] + b[3] + b[4] = 0)
      BY <1>1, <2>2, AbridgedNumbers
    <2>4. AbridgedLen(b) = 0 <=> AbridgedPayload(b) = 0
      BY <1>1, <2>2, <2>3, AbridgedIs DEF Incomplete
    <2>5. QED
      BY <1>2, <2>1, <2>3, <2>4 DEF Senseless, Extended
  <1>3. CASE proto = "intermediate"
    <2>1. NextLen(proto, b) = IntermediateLen(b) /\ IntermediateLen(b) # Incomplete
      BY <1>1, <1>3 DEF NextLen, WholePacket, Incomplete
    <2>2. ~(Len(b) < 4)
      BY <2>1, IntermediateIs
    <2>3. /\ IntermediatePayload(b) \in Nat
          /\ IntermediatePayload(b) = 0 <=> b[1] + b[2] + b[3] + (b[4] % 128) = 0
      BY <1>1, <2>2, IntermediateNumbers
    <2>4. IntermediateLen(b) = 0 <=> IntermediatePayload(b) = 0
      BY <1>1, <2>2, <2>3, IntermediateIs DEF Incomplete
    <2>5. QED
      BY <1>3, <2>1, <2>3, <2>4 DEF Senseless
  <1>4. QED
    BY <1>2, <1>3 DEF Protos

\* Where packet k + 1 begins in the stream.
Begins(s, k) == Len(FlattenSeq(SubSeq(s, 1, k)))

LEMMA FirstPackets ==
    ASSUME NEW s \in Seq(Seq(Byte)), NEW k \in 0 .. Len(s)
    PROVE  /\ SubSeq(s, 1, k) \in Seq(Seq(Byte)) /\ Len(SubSeq(s, 1, k)) = k
           /\ \E v \in Seq(Byte) : FlattenSeq(s) = FlattenSeq(SubSeq(s, 1, k)) \o v
           /\ FlattenSeq(SubSeq(s, 1, k)) \in Seq(Byte)
  <1>1. PICK B : B = Seq(Byte)
    OBVIOUS
  <1>2. s \in Seq(B) /\ Len(s) \in Nat
    BY <1>1
  <1>3. /\ SubSeq(s, 1, k) \in Seq(B) /\ Len(SubSeq(s, 1, k)) = k
        /\ SubSeq(s, k + 1, Len(s)) \in Seq(B)
    BY <1>2
  <1>4. SubSeq(s, 1, k) \o SubSeq(s, k + 1, Len(s)) = s
    <2>1. 1 \in 1 .. Len(s) + 1 /\ k \in 1 - 1 .. Len(s) /\ Len(s) \in k .. Len(s)
      BY <1>2
    <2>2. SubSeq(s, 1, k) \o SubSeq(s, k + 1, Len(s)) = SubSeq(s, 1, Len(s))
      BY <1>2, <2>1, ConcatAdjacentSubSeq
    <2>3. QED
      BY <1>2, <2>2, SubSeqFull
  <1>5. PICK u \in Seq(Seq(Byte)), v \in Seq(Seq(Byte)) :
           u = SubSeq(s, 1, k) /\ v = SubSeq(s, k + 1, Len(s)) /\ u \o v = s
    BY <1>1, <1>3, <1>4
  <1>6. FlattenSeq(u \o v) = FlattenSeq(u) \o FlattenSeq(v)
    BY FlattenConcat
  <1>7. FlattenSeq(u) \in Seq(Byte) /\ FlattenSeq(v) \in Seq(Byte)
    BY FlattenTyped
  <1>8. QED
    BY <1>1, <1>3, <1>5, <1>6, <1>7

\* A packet has its place in the stream behind those before it.
LEMMA PacketPlace ==
    ASSUME NEW s \in Seq(Seq(Byte)), NEW k \in 0 .. Len(s) - 1
    PROVE  /\ Begins(s, k + 1) = Begins(s, k) + Len(s[k + 1])
           /\ \A i \in 1 .. Len(s[k + 1]) : FlattenSeq(s)[Begins(s, k) + i] = s[k + 1][i]
  <1>0. Len(s) \in Nat /\ k \in 0 .. Len(s) /\ k + 1 \in 0 .. Len(s) /\ k + 1 \in 1 .. Len(s)
    OBVIOUS
  <1>1. PICK b \in Seq(Byte) : b = s[k + 1]
    BY <1>0
  <1>2. SubSeq(s, 1, k + 1) = SubSeq(s, 1, k) \o <<b>>
    <2>1. PICK B : B = Seq(Byte)
      OBVIOUS
    <2>2. s \in Seq(B) /\ b \in B /\ b = s[k + 1]
      BY <1>1, <2>1
    <2>3. SubSeq(s, 1, k) \o <<b>> = SubSeq(s, 1, k + 1)
      BY <1>0, <2>2
    <2>4. QED
      BY <2>3
  <1>3. PICK u \in Seq(Seq(Byte)) : u = SubSeq(s, 1, k)
    BY <1>0, FirstPackets
  <1>4. PICK f \in Seq(Byte) : f = FlattenSeq(u)
    BY FlattenTyped
  <1>5. FlattenSeq(SubSeq(s, 1, k + 1)) = f \o b
    <2>1. <<b>> \in Seq(Seq(Byte))
      OBVIOUS
    <2>2. FlattenSeq(u \o <<b>>) = FlattenSeq(u) \o FlattenSeq(<<b>>)
      BY <2>1, FlattenConcat
    <2>3. QED
      BY <1>2, <1>3, <1>4, <2>2, FlattenOne
  <1>6. PICK v \in Seq(Byte) : FlattenSeq(s) = (f \o b) \o v
    BY <1>0, <1>5, FirstPackets
  <1>7. Begins(s, k) = Len(f) /\ Begins(s, k + 1) = Len(f) + Len(b)
    <2>1. Len(f \o b) = Len(f) + Len(b)
      BY ConcatProperties
    <2>2. QED
      BY <1>3, <1>4, <1>5, <2>1 DEF Begins
  <1>8. \A i \in 1 .. Len(b) : ((f \o b) \o v)[Len(f) + i] = b[i]
    <2>1. f \o b \in Seq(Byte) /\ Len(f \o b) = Len(f) + Len(b) /\ Len(f) \in Nat /\ Len(b) \in Nat
      BY ConcatProperties
    <2>2. \A i \in 1 .. Len(f \o b) : ((f \o b) \o v)[i] = (f \o b)[i]
      BY <2>1, ConcatProperties
    <2>3. \A i \in 1 .. Len(b) : (f \o b)[Len(f) + i] = b[i]
      OBVIOUS
    <2>4. \A i \in 1 .. Len(b) : Len(f) + i \in 1 .. Len(f \o b)
      BY <2>1
    <2>5. QED
      BY <2>2, <2>3, <2>4
  <1>9. QED
    BY <1>1, <1>6, <1>7, <1>8

LEMMA BeginsBounds ==
    ASSUME NEW s \in Seq(Seq(Byte))
    PROVE  /\ FlattenSeq(s) \in Seq(Byte) /\ Begins(s, 0) = 0
           /\ Begins(s, Len(s)) = Len(FlattenSeq(s))
           /\ \A k \in 0 .. Len(s) : Begins(s, k) \in 0 .. Len(FlattenSeq(s))
  <1>1. FlattenSeq(s) \in Seq(Byte)
    BY FlattenTyped
  <1>2. Begins(s, 0) = 0
    <2>1. SubSeq(s, 1, 0) = <<>>
      BY SubSeqEmpty
    <2>2. PICK e : e = SubSeq(s, 1, 0) /\ e = <<>>
      BY <2>1
    <2>3. FlattenSeq(e) = <<>> /\ Len(<<>>) = 0
      BY <2>2, FlattenEmpty
    <2>4. QED
      BY <2>2, <2>3 DEF Begins
  <1>3. Begins(s, Len(s)) = Len(FlattenSeq(s))
    BY SubSeqFull DEF Begins
  <1>4. ASSUME NEW k \in 0 .. Len(s)
        PROVE  Begins(s, k) \in 0 .. Len(FlattenSeq(s))
    <2>1. PICK f \in Seq(Byte), v \in Seq(Byte) : f = FlattenSeq(SubSeq(s, 1, k)) /\ FlattenSeq(s) = f \o v
      BY FirstPackets
    <2>2. Len(f \o v) = Len(f) + Len(v) /\ Len(f) \in Nat /\ Len(v) \in Nat
      OBVIOUS
    <2>3. QED
      BY <2>1, <2>2 DEF Begins
  <1>5. QED
    BY <1>1, <1>2, <1>3, <1>4

\* The bytes `all` are in the stream of the packets s behind the first a bytes.
InStream(p, s, all, a) ==
    /\ s \in Seq(Seq(Byte)) /\ \A i \in 1 .. Len(s) : WholePacket(p, s[i])
    /\ all \in Seq(Byte) /\ a \in Nat /\ a + Len(all) <= Len(FlattenSeq(s))
    /\ \A i \in 1 .. Len(all) : all[i] = FlattenSeq(s)[a + i]

\* What the loop has made of the bytes behind an offset at which packet j + 1
\* begins: the packets up to c, and then either it has given up, on a senseless
\* packet, or it keeps what there is of the next.
CutUpTo(p, s, all, a, j, c, r) ==
    /\ c - j <= Len(r.parts)
    /\ \A i \in 1 .. c - j : r.parts[i] = s[j + i] /\ NextLen(p, s[j + i]) # 0
    /\ r.off => c < Len(s) /\ NextLen(p, s[c + 1]) = 0
    /\ ~r.off => /\ Len(r.parts) = c - j
                 /\ Begins(s, c) - a \in 0 .. Len(all)
                 /\ r.kept = Beyond(all, Begins(s, c) - a)
                 /\ NextLen(p, r.kept) = Incomplete

CutsPackets(p, s, all, a, o, r) ==
    \A j \in 0 .. Len(s) :
        Begins(s, j) = a + o => \E c \in j .. Len(s) : CutUpTo(p, s, all, a, j, c, r)

\* What is behind the offset starts with the packet that begins there.
LEMMA PacketHere ==
    ASSUME NEW p, NEW s, NEW all, NEW a, InStream(p, s, all, a),
           NEW j \in 0 .. Len(s) - 1, NEW o \in 0 .. Len(all), Begins(s, j) = a + o
    PROVE  /\ WholePacket(p, s[j + 1]) /\ Starts(Beyond(all, o), s[j + 1])
           /\ Begins(s, j + 1) = a + (o + Len(s[j + 1]))
           /\ Len(s[j + 1]) <= Len(all) - o => SubSeq(all, o + 1, o + Len(s[j + 1])) = s[j + 1]
  <1>0. /\ s \in Seq(Seq(Byte)) /\ all \in Seq(Byte) /\ a \in Nat /\ Len(all) \in Nat
        /\ \A i \in 1 .. Len(all) : all[i] = FlattenSeq(s)[a + i]
        /\ Len(s) \in Nat /\ j + 1 \in 1 .. Len(s)
    BY DEF InStream
  <1>1. WholePacket(p, s[j + 1])
    BY <1>0 DEF InStream
  <1>2. PICK b \in Seq(Byte) : b = s[j + 1] /\ Len(b) \in Nat
    BY <1>1 DEF WholePacket
  <1>3. /\ Begins(s, j + 1) = a + (o + Len(b))
        /\ \A i \in 1 .. Len(b) : FlattenSeq(s)[(a + o) + i] = b[i]
    BY <1>0, <1>2, PacketPlace
  <1>4. \A i \in 1 .. Len(b) : o + i <= Len(all) => all[o + i] = b[i]
    <2> SUFFICES ASSUME NEW i \in 1 .. Len(b), o + i <= Len(all) PROVE all[o + i] = b[i]
      OBVIOUS
    <2>1. o + i \in 1 .. Len(all) /\ a + (o + i) = (a + o) + i
      BY <1>0, <1>2
    <2>2. all[o + i] = FlattenSeq(s)[a + (o + i)]
      BY <1>0, <2>1
    <2>3. QED
      BY <1>3, <2>1, <2>2
  <1>5. Starts(Beyond(all, o), b)
    <2>1. /\ Beyond(all, o) \in Seq(Byte) /\ Len(Beyond(all, o)) = Len(all) - o
          /\ \A i \in 1 .. Len(all) - o : Beyond(all, o)[i] = all[o + i]
      BY <1>0 DEF Beyond
    <2>2. ASSUME NEW i \in 1 .. Len(all) - o, i <= Len(b)
          PROVE  Beyond(all, o)[i] = b[i]
      <3>1. i \in 1 .. Len(b) /\ o + i <= Len(all)
        BY <1>0, <1>2, <2>2
      <3>2. QED
        BY <1>4, <2>1, <3>1
    <2>3. QED
      BY <2>1, <2>2 DEF Starts
  <1>6. ASSUME Len(b) <= Len(all) - o
        PROVE  SubSeq(all, o + 1, o + Len(b)) = b
    <2>1. PICK e \in Nat : e = o + Len(b) /\ e <= Len(all)
      BY <1>0, <1>2, <1>6
    <2>2. PICK c : c = SubSeq(all, o + 1, e)
      OBVIOUS
    <2>3. c \in Seq(Byte) /\ Len(c) = Len(b) /\ \A i \in 1 .. Len(b) : c[i] = all[o + i]
      <3>1. PICK f \in Nat : f = o + 1 /\ f >= 1
        OBVIOUS
      <3>2. \A i \in f .. e : all[i] \in Byte
        BY <1>0, <2>1, <3>1
      <3>3. SubSeq(all, f, e) \in Seq(Byte)
        BY <2>1, <3>1, <3>2, SubSeqProperties
      <3>a. Len(SubSeq(all, f, e)) = IF f <= e THEN e - f + 1 ELSE 0
        BY <2>1, <3>1, <3>2, SubSeqProperties
      <3>b. ASSUME NEW i \in 1 .. e - f + 1
            PROVE  SubSeq(all, f, e)[i] = all[f + i - 1]
        BY <1>0, <2>1, <3>1, <3>2
      <3>4. Len(b) = e - f + 1 /\ (f <= e \/ Len(b) = 0) /\ \A i \in 1 .. Len(b) : f + i - 1 = o + i
        BY <1>2, <2>1, <3>1
      <3>5. QED
        BY <2>2, <3>1, <3>3, <3>a, <3>b, <3>4
    <2>4. \A i \in 1 .. Len(b) : c[i] = b[i]
      <3>1. \A i \in 1 .. Len(b) : o + i <= Len(all)
        BY <1>2, <2>1
      <3>2. QED
        BY <1>4, <2>3, <3>1
    <2>5. c = b
      BY <2>3, <2>4, SeqEqual
    <2>6. QED
      BY <2>1, <2>2, <2>5
  <1>7. QED
    BY <1>1, <1>2, <1>3, <1>5, <1>6

LEMMA OneAhead ==
    ASSUME NEW b \in Frame, NEW parts \in Seq(Frame), NEW cuts, cuts = <<b>> \o parts
    PROVE  /\ Len(cuts) = 1 + Len(parts) /\ cuts[1] = b
           /\ \A i \in 1 .. Len(parts) : cuts[1 + i] = parts[i]
  <1>1. Len(cuts) = 1 + Len(parts)
    OBVIOUS
  <1>2. cuts[1] = b
    OBVIOUS
  <1>3. ASSUME NEW i \in 1 .. Len(parts) PROVE cuts[1 + i] = parts[i]
    OBVIOUS
  <1>4. QED
    BY <1>1, <1>2, <1>3

LEMMA TurnCutsPackets ==
    ASSUME NEW p \in Protos, NEW s, NEW all, NEW a, InStream(p, s, all, a),
           NEW o \in 0 .. Len(all), NEW w,
           \A i \in o + 1 .. Len(all) : CutsUp(all, i, w[i]) /\ CutsPackets(p, s, all, a, i, w[i])
    PROVE  CutsPackets(p, s, all, a, o, Turn(p, all, w, o))
  <1> SUFFICES ASSUME NEW j \in 0 .. Len(s), Begins(s, j) = a + o
               PROVE  \E c \in j .. Len(s) : CutUpTo(p, s, all, a, j, c, Turn(p, all, w, o))
    BY DEF CutsPackets
  <1>0. /\ s \in Seq(Seq(Byte)) /\ all \in Seq(Byte) /\ a \in Nat /\ Len(all) \in Nat
        /\ Len(s) \in Nat /\ a + Len(all) <= Len(FlattenSeq(s))
    BY DEF InStream
  <1>1. PICK rest \in Seq(Byte) : rest = Beyond(all, o) /\ Len(rest) = Len(all) - o
    BY <1>0, BeyondProperties
  <1>2. PICK n : n = NextLen(p, rest)
    OBVIOUS
  <1>3. CASE n = Incomplete
    <2>1. Turn(p, all, w, o) = [parts |-> <<>>, kept |-> rest, off |-> FALSE]
      BY <1>1, <1>2, <1>3 DEF Turn
    <2>2. /\ Begins(s, j) - a = o /\ j \in j .. Len(s) /\ j - j = 0 /\ Len(<<>>) = 0
          /\ 1 .. 0 = {}
      BY <1>0
    <2>3. PICK r : r = Turn(p, all, w, o) /\ r.parts = <<>> /\ r.kept = rest /\ r.off = FALSE
      BY <2>1
    <2>4. /\ Begins(s, j) - a \in 0 .. Len(all) /\ rest = Beyond(all, Begins(s, j) - a)
          /\ NextLen(p, rest) = Incomplete
      BY <1>1, <1>2, <1>3, <2>2
    <2>5. CutUpTo(p, s, all, a, j, j, r)
      BY <2>2, <2>3, <2>4 DEF CutUpTo
    <2>6. QED
      BY <2>2, <2>3, <2>5
  <1>4. CASE n # Incomplete
    <2>1. rest # <<>>
      BY <1>2, <1>4, NextLenBounds
    <2>2. j \in 0 .. Len(s) - 1
      <3>1. j = Len(s) => a + o = Len(FlattenSeq(s))
        BY <1>0, BeginsBounds
      <3>2. Len(rest) # 0
        BY <2>1
      <3>3. QED
        BY <1>0, <1>1, <3>1, <3>2
    <2>3. PICK b : b = s[j + 1]
      OBVIOUS
    <2>4. /\ WholePacket(p, b) /\ Starts(rest, b)
          /\ Begins(s, j + 1) = a + (o + Len(b))
          /\ Len(b) <= Len(all) - o => SubSeq(all, o + 1, o + Len(b)) = b
      BY <1>1, <2>2, <2>3, PacketHere
    <2>5. CutAtItsEnd(p, rest, b) /\ Len(b) \in Nat \ {0} /\ NextLen(p, b) \in {0, Len(b)}
      BY <2>4, PacketCut DEF WholePacket
    <2>6. CASE n = 0
      <3>1. Turn(p, all, w, o) = [parts |-> <<rest>>, kept |-> <<>>, off |-> TRUE]
        BY <1>1, <1>2, <1>4, <2>6 DEF Turn
      <3>2. NextLen(p, b) = 0
        BY <1>2, <1>4, <2>5, <2>6 DEF CutAtItsEnd, Incomplete
      <3>3. j \in j .. Len(s) /\ j < Len(s) /\ j - j = 0 /\ 1 .. 0 = {} /\ 0 <= Len(<<rest>>)
        BY <1>0, <2>2
      <3>4. CutUpTo(p, s, all, a, j, j, [parts |-> <<rest>>, kept |-> <<>>, off |-> TRUE])
        BY <2>3, <3>2, <3>3 DEF CutUpTo
      <3>5. QED
        BY <3>1, <3>3, <3>4
    <2>7. CASE n # 0
      <3>1. n = Len(b) /\ NextLen(p, b) # 0 /\ Len(b) <= Len(all) - o
        BY <1>0, <1>1, <1>2, <1>4, <2>5, <2>7 DEF CutAtItsEnd, Incomplete
      <3>2. o + n \in o + 1 .. Len(all) /\ j + 1 \in 0 .. Len(s)
        BY <1>0, <2>2, <2>5, <3>1
      <3>3. PICK parts \in Seq(Frame), kept \in Seq(Byte), off \in BOOLEAN :
               w[o + n] = [parts |-> parts, kept |-> kept, off |-> off]
        BY <3>2 DEF CutsUp
      <3>4. PICK c \in j + 1 .. Len(s) : CutUpTo(p, s, all, a, j + 1, c, w[o + n])
        BY <2>4, <3>1, <3>2 DEF CutsPackets
      <3>5. /\ c - (j + 1) <= Len(parts)
            /\ \A i \in 1 .. c - (j + 1) : parts[i] = s[(j + 1) + i] /\ NextLen(p, s[(j + 1) + i]) # 0
            /\ off => c < Len(s) /\ NextLen(p, s[c + 1]) = 0
            /\ ~off => /\ Len(parts) = c - (j + 1)
                       /\ Begins(s, c) - a \in 0 .. Len(all)
                       /\ kept = Beyond(all, Begins(s, c) - a)
                       /\ NextLen(p, kept) = Incomplete
        BY <3>3, <3>4 DEF CutUpTo
      <3>6. PICK cuts : cuts = <<b>> \o parts
        OBVIOUS
      <3>7. b \in Frame
        BY <2>4 DEF WholePacket, Frame
      <3>8. /\ Len(cuts) = 1 + Len(parts) /\ cuts[1] = b
            /\ \A i \in 1 .. Len(parts) : cuts[1 + i] = parts[i]
        BY <3>6, <3>7, OneAhead
      <3>9. Turn(p, all, w, o) = [parts |-> cuts, kept |-> kept, off |-> off]
        <4>1. PICK r : r = [parts |-> parts, kept |-> kept, off |-> off]
          OBVIOUS
        <4>2. Turn(p, all, w, o) = [r EXCEPT !.parts = <<SubSeq(all, o + 1, o + n)>> \o @]
          BY <1>1, <1>2, <1>4, <2>7, <3>3, <4>1 DEF Turn
        <4>3. SubSeq(all, o + 1, o + n) = b
          BY <2>4, <3>1
        <4>4. r.parts = parts
          BY <4>1
        <4>5. Turn(p, all, w, o) = [r EXCEPT !.parts = cuts]
          BY <3>6, <4>2, <4>3, <4>4
        <4>6. [r EXCEPT !.parts = cuts] = [parts |-> cuts, kept |-> kept, off |-> off]
          BY <4>1
        <4>7. QED
          BY <4>5, <4>6
      <3>10. c \in j .. Len(s) /\ c - j = 1 + (c - (j + 1)) /\ Len(parts) \in Nat
        BY <3>4
      <3>11. \A i \in 1 .. c - j : cuts[i] = s[j + i] /\ NextLen(p, s[j + i]) # 0
        <4> SUFFICES ASSUME NEW i \in 1 .. c - j
                     PROVE  cuts[i] = s[j + i] /\ NextLen(p, s[j + i]) # 0
          OBVIOUS
        <4>1. CASE i = 1
          BY <2>3, <3>1, <3>8, <4>1
        <4>2. CASE i # 1
          <5>1. PICK h \in 1 .. c - (j + 1) : i = 1 + h
            <6>1. i - 1 \in 1 .. c - (j + 1) /\ i = 1 + (i - 1)
              BY <3>10, <4>2
            <6>2. QED
              BY <6>1
          <5>2. h \in 1 .. Len(parts) /\ (j + 1) + h = j + i
            BY <3>5, <3>10, <5>1
          <5>3. QED
            BY <3>5, <3>8, <5>1, <5>2
        <4>3. QED
          BY <4>1, <4>2
      <3>12. c - j <= Len(cuts) /\ (Len(parts) = c - (j + 1) => Len(cuts) = c - j)
        BY <3>5, <3>8, <3>10
      <3>13. CutUpTo(p, s, all, a, j, c, [parts |-> cuts, kept |-> kept, off |-> off])
        BY <3>5, <3>11, <3>12 DEF CutUpTo
      <3>14. QED
        BY <3>9, <3>10, <3>13
    <2>8. QED
      BY <2>6, <2>7
  <1>5. QED
    BY <1>3, <1>4

\* Into the packets as the client wrote them, from any beginning of one on.
LEMMA WalkedCutsPackets ==
    ASSUME NEW p \in Protos, NEW s, NEW all, NEW a, InStream(p, s, all, a)
    PROVE  CutsPackets(p, s, all, a, 0, Walked(p, all)[0])
  <1>a. all \in Seq(Byte)
    BY DEF InStream
  <1>0. PICK L \in Nat : L = Len(all)
    BY <1>a
  <1>1. PICK w : w = Walked(p, all) /\ w = Loop(p, all, w)
    BY <1>a, WalkedIs
  <1>2. \A o \in 0 .. L : w[o] = Turn(p, all, w, o) /\ CutsUp(all, o, w[o])
    <2>1. Loop(p, all, w) = [o \in 0 .. L |-> Turn(p, all, w, o)]
      BY <1>0 DEF Loop
    <2>2. \A o \in 0 .. Len(all) : CutsUp(all, o, Walked(p, all)[o])
      BY <1>a, WalkedCutsUp
    <2>3. QED
      BY <1>0, <1>1, <2>1, <2>2
  <1> DEFINE S == {k \in Nat : k <= L + 1 =>
                     \A o \in (L + 1) - k .. L : CutsPackets(p, s, all, a, o, w[o])}
  <1>3. 0 \in S
    OBVIOUS
  <1>4. ASSUME NEW k \in Nat, k \in S
        PROVE  k + 1 \in S
    <2> SUFFICES ASSUME k + 1 <= L + 1, NEW o \in (L + 1) - (k + 1) .. L
                 PROVE  CutsPackets(p, s, all, a, o, w[o])
      OBVIOUS
    <2>1. \A i \in o + 1 .. Len(all) : i \in (L + 1) - k .. L /\ i \in 0 .. L
      BY <1>0
    <2>2. \A i \in o + 1 .. Len(all) : CutsUp(all, i, w[i]) /\ CutsPackets(p, s, all, a, i, w[i])
      BY <1>2, <1>4, <2>1
    <2>3. o \in 0 .. Len(all) /\ o \in 0 .. L
      BY <1>0
    <2>4. CutsPackets(p, s, all, a, o, Turn(p, all, w, o))
      BY <2>2, <2>3, TurnCutsPackets
    <2>5. QED
      BY <1>2, <2>3, <2>4
  <1> HIDE DEF S
  <1>5. L + 1 \in S
    BY <1>3, <1>4, Successors
  <1>6. 0 \in (L + 1) - (L + 1) .. L
    OBVIOUS
  <1>7. CutsPackets(p, s, all, a, 0, w[0])
    BY <1>5, <1>6 DEF S
  <1>8. QED
    BY <1>1, <1>7

\* The first packets are where they are in any longer beginning.
LEMMA BeginsGrows ==
    ASSUME NEW s \in Seq(Seq(Byte)), NEW n \in 0 .. Len(s), NEW j \in 0 .. n
    PROVE  Begins(s, j) <= Begins(s, n)
  <1>0. Len(s) \in Nat /\ n \in 0 .. Len(s) /\ j \in 0 .. Len(s)
    OBVIOUS
  <1>1. PICK u \in Seq(Seq(Byte)) : u = SubSeq(s, 1, n) /\ Len(u) = n
    BY FirstPackets
  <1>2. SubSeq(u, 1, j) = SubSeq(s, 1, j)
    <2>1. PICK B : B = Seq(Byte)
      OBVIOUS
    <2>2. s \in Seq(B)
      BY <2>1
    <2>3. SubSeq(SubSeq(s, 1, n), 1, j) = SubSeq(s, 1, j)
      BY <1>0, <2>2
    <2>4. QED
      BY <1>1, <2>3
  <1>3. Begins(u, j) \in 0 .. Len(FlattenSeq(u))
    BY <1>1, BeginsBounds
  <1>4. Begins(u, j) = Begins(s, j) /\ Len(FlattenSeq(u)) = Begins(s, n)
    BY <1>1, <1>2 DEF Begins
  <1>5. FlattenSeq(u) \in Seq(Byte)
    BY FlattenTyped
  <1>6. QED
    BY <1>3, <1>4, <1>5

LEMMA ThenPlaces ==
    \A u, v \in Seq(Byte) :
        /\ Then(u, v) \in Seq(Byte) /\ Len(Then(u, v)) = Len(u) + Len(v)
        /\ \A i \in 1 .. Len(u) : Then(u, v)[i] = u[i]
        /\ \A i \in 1 .. Len(v) : Then(u, v)[Len(u) + i] = v[i]
  BY DEF Then

\* n bytes have been read: a handshake h, what the splitter has been given, and
\* what is still in the read buffer.
ReadSoFar(h, flat, fed, rb, n) ==
    /\ h \in Seq(Byte) /\ flat \in Seq(Byte) /\ fed \in Seq(Byte) /\ rb \in Seq(Byte)
    /\ n \in Nat /\ Len(h) <= n /\ n <= Len(Then(h, flat))
    /\ Then(fed, rb) = SubSeq(Then(h, flat), Len(h) + 1, n)

LEMMA FedIsRead ==
    ASSUME NEW h, NEW flat, NEW fed, NEW rb, NEW n, ReadSoFar(h, flat, fed, rb, n)
    PROVE  /\ Len(fed) = n - Len(h) - Len(rb) /\ Len(fed) <= Len(flat)
           /\ \A i \in 1 .. Len(fed) : fed[i] = flat[i]
  <1>a. /\ h \in Seq(Byte) /\ flat \in Seq(Byte) /\ fed \in Seq(Byte) /\ rb \in Seq(Byte)
        /\ n \in Nat /\ Len(h) <= n /\ n <= Len(Then(h, flat))
        /\ Then(fed, rb) = SubSeq(Then(h, flat), Len(h) + 1, n)
    BY DEF ReadSoFar
  <1>0. Len(h) \in Nat /\ Len(flat) \in Nat /\ Len(fed) \in Nat /\ Len(rb) \in Nat
    BY <1>a
  <1>b. h \in Seq(Byte) /\ flat \in Seq(Byte) /\ fed \in Seq(Byte) /\ rb \in Seq(Byte)
    BY <1>a
  <1>1. PICK all : all = Then(h, flat)
    OBVIOUS
  <1>c. all \in Seq(Byte) /\ Len(all) = Len(h) + Len(flat)
    BY <1>b, <1>1, ThenPlaces
  <1>d. \A i \in 1 .. Len(flat) : all[Len(h) + i] = flat[i]
    BY <1>b, <1>1, ThenPlaces
  <1>2. PICK t : t = Then(fed, rb)
    OBVIOUS
  <1>e. t \in Seq(Byte) /\ Len(t) = Len(fed) + Len(rb)
    BY <1>b, <1>2, ThenPlaces
  <1>f. \A i \in 1 .. Len(fed) : t[i] = fed[i]
    BY <1>b, <1>2, ThenPlaces
  <1>3. PICK a \in Nat : a = Len(h) /\ a <= n
    BY <1>a, <1>0
  <1>4. t = SubSeq(all, a + 1, n) /\ n <= Len(all) /\ n \in Nat
    BY <1>a, <1>1, <1>2, <1>3
  <1>g. Len(t) = n - a
    BY <1>c, <1>3, <1>4
  <1>5. ASSUME NEW i \in 1 .. n - a
        PROVE  t[i] = all[a + i]
    BY <1>c, <1>3, <1>4
  <1>6. Len(fed) = n - a - Len(rb) /\ Len(fed) <= Len(flat) /\ Len(fed) <= n - a
    <2>1. Len(fed) + Len(rb) = n - a /\ n <= a + Len(flat)
      BY <1>c, <1>e, <1>3, <1>4, <1>g
    <2>2. QED
      BY <1>0, <1>3, <1>4, <2>1
  <1>7. ASSUME NEW i \in 1 .. Len(fed)
        PROVE  fed[i] = flat[i]
    <2>1. i \in 1 .. n - a /\ i \in 1 .. Len(flat)
      BY <1>0, <1>3, <1>4, <1>6
    <2>2. QED
      BY <1>d, <1>f, <1>3, <1>5, <2>1
  <1>8. QED
    BY <1>3, <1>6, <1>7

-----------------------------------------------------------------------------
(* The frames are the packets.                                             *)

\* How much of the packets the splitter has been given.
Given == pos - Len(Init0) - Len(readBuf)

\* The first k packets have been sent, and the splitter waits for the rest of the
\* next one, of which it has been given r.
WaitsFor(k, r) ==
    /\ InStream(proto, packets, r, Begins(packets, k))
    /\ Begins(packets, k) + Len(r) = Given
    /\ NextLen(proto, r) = Incomplete
    /\ Len(frames) <= k + 1
    /\ pc # "eof" => Len(frames) = k /\ splitter.buf = r

CutAt(k) ==
    /\ k <= Len(frames)
    /\ \A i \in 1 .. k : frames[i] = packets[i] /\ NextLen(proto, packets[i]) # 0
    /\ splitter.off => k < Len(packets) /\ NextLen(proto, packets[k + 1]) = 0
    /\ ~splitter.off => \E r : WaitsFor(k, r)

CutInv == pc # "init" => \E k \in 0 .. Len(packets) : CutAt(k)

LEMMA WholePackets ==
    ASSUME TypeOK
    PROVE  /\ packets \in Seq(Seq(Byte)) /\ proto \in Protos
           /\ \A i \in 1 .. Len(packets) : WholePacket(proto, packets[i])
  <1>1. /\ packets \in Seq(Packets[proto]) /\ proto \in Protos
        /\ \A b \in Packets[proto] : WholePacket(proto, b)
    BY StreamAssumption, PacketsAssumption, PacketsAreWhole DEF TypeOK
  <1>2. Packets[proto] \subseteq Seq(Byte)
    BY <1>1 DEF WholePacket
  <1>3. packets \in Seq(Seq(Byte))
    BY <1>1, <1>2, SeqMonotonic
  <1>4. \A i \in 1 .. Len(packets) : packets[i] \in Packets[proto]
    BY <1>1
  <1>5. QED
    BY <1>1, <1>3, <1>4

\* What the splitter has been given after a step is in the frames and its buffer.
LEMMA FedIsGiven ==
    ASSUME StreamInv, UNCHANGED packets, StreamInv', pc' # "init",
           NEW fed, fed = Then(FlattenSeq(frames'), splitter'.buf)
    PROVE  /\ fed \in Seq(Byte) /\ Len(fed) = Given' /\ Given' <= Len(FlattenSeq(packets))
           /\ \A i \in 1 .. Given' : fed[i] = FlattenSeq(packets)[i]
  <1>1. PICK d \in Seq(Byte), b \in Seq(Byte) : d = FlattenSeq(frames') /\ b = splitter'.buf
    BY FramesAreBytes DEF StreamInv, Splitters
  <1>2. fed \in Seq(Byte) /\ fed = Then(d, b)
    BY <1>1, ThenPlaces
  <1>3. PICK flat \in Seq(Byte) : flat = FlattenSeq(packets)
    BY WholePackets, FlattenTyped DEF StreamInv
  <1>4. PICK h \in Seq(Byte) : h = Init0
    BY StreamAssumption
  <1>5. PICK rb \in Seq(Byte) : rb = readBuf'
    BY DEF StreamInv
  <1>6. /\ pos' \in 0 .. Len(Then(h, flat)) /\ Len(h) <= pos'
        /\ Then(fed, rb) = SubSeq(Then(h, flat), Len(h) + 1, pos')
    BY <1>1, <1>2, <1>3, <1>4, <1>5 DEF StreamInv, TypeOK, NothingLost, sent, Then
  <1>7. /\ Len(fed) = pos' - Len(h) - Len(rb) /\ Len(fed) <= Len(flat)
        /\ \A i \in 1 .. Len(fed) : fed[i] = flat[i]
    <2>1. Len(Then(h, flat)) \in Nat
      BY ThenPlaces
    <2>2. PICK n : n = pos'
      OBVIOUS
    <2>3. ReadSoFar(h, flat, fed, rb, n)
      BY <1>2, <1>6, <2>1, <2>2 DEF ReadSoFar
    <2>a. /\ Len(fed) = n - Len(h) - Len(rb) /\ Len(fed) <= Len(flat)
          /\ \A i \in 1 .. Len(fed) : fed[i] = flat[i]
      BY <2>3, FedIsRead
    <2>4. QED
      BY <2>2, <2>a
  <1>8. QED
    BY <1>2, <1>3, <1>4, <1>5, <1>7 DEF Given

LEMMA HandshakeCuts ==
    ASSUME StreamInv, Handshake, StreamInv'
    PROVE  CutInv'
  <1>1. CASE pc' = "init"
    BY <1>1 DEF CutInv
  <1>2. CASE pc' # "init"
    <2>1. frames' = <<>> /\ splitter' = NewSplitter /\ UNCHANGED <<proto, packets>> /\ pc' = "relay"
      BY <1>2 DEF StreamInv, Handshake
    <2>2. /\ packets \in Seq(Seq(Byte)) /\ proto \in Protos /\ Len(packets) \in Nat
          /\ \A i \in 1 .. Len(packets) : WholePacket(proto, packets[i])
      BY WholePackets DEF StreamInv
    <2>3. Given' = 0
      <3>1. Then(FlattenSeq(frames'), splitter'.buf) = <<>>
        BY <2>1, FlattenEmpty, ConcatEmptySeq DEF NewSplitter, Then
      <3>2. pc' # "init" /\ UNCHANGED packets
        BY <2>1
      <3>3. Len(<<>>) = Given'
        BY <3>1, <3>2, FedIsGiven
      <3>4. QED
        BY <3>3
    <2>4. Begins(packets, 0) = 0 /\ FlattenSeq(packets) \in Seq(Byte)
      BY <2>2, BeginsBounds
    <2>5. InStream(proto, packets, <<>>, 0)
      BY <2>2, <2>4 DEF InStream
    <2>6. NextLen(proto, <<>>) = Incomplete
      BY DEF NextLen
    <2>7. Len(<<>>) = 0 /\ NewSplitter.buf = <<>> /\ NewSplitter.off = FALSE
      BY DEF NewSplitter
    <2>8. WaitsFor(0, <<>>)'
      BY <2>1, <2>3, <2>4, <2>5, <2>6, <2>7 DEF WaitsFor
    <2>9. CutAt(0)'
      BY <2>1, <2>7, <2>8 DEF CutAt
    <2>10. QED
      BY <2>1, <2>2, <2>9 DEF CutInv
  <1>3. QED
    BY <1>1, <1>2

LEMMA RelayCuts ==
    ASSUME StreamInv, CutInv, Relay, StreamInv'
    PROVE  CutInv'
  <1>0. /\ pc = "relay" /\ pc' = "relay" /\ UNCHANGED <<proto, tls, packets>>
        /\ splitter \in Splitters /\ frames \in Seq(Frame) /\ Len(frames) \in Nat
    BY DEF StreamInv, Relay
  <1>a. PICK chunk \in Chunks :
           /\ \/ ~tls /\ pos' = pos + Len(chunk) /\ UNCHANGED <<left, readBuf>>
              \/ tls /\ Read(ReadSize, chunk)
           /\ splitter' = Split(proto, splitter, chunk).sp
           /\ frames' = frames \o Split(proto, splitter, chunk).parts
    BY DEF Relay
  <1>1. PICK out : /\ out = Split(proto, splitter, chunk)
                   /\ splitter' = out.sp /\ frames' = frames \o out.parts
    BY <1>a
  <1>2. chunk \in Frame
    BY <1>a, ReadTakes, SegmentTakes DEF Taken
  <1>3. /\ out.sp \in Splitters /\ out.parts \in Seq(Frame)
        /\ FlattenSeq(out.parts) \o out.sp.buf = splitter.buf \o chunk
    BY <1>0, <1>1, <1>2, SplitKeeps
  <1>4. PICK k \in 0 .. Len(packets) : CutAt(k)
    BY <1>0 DEF CutInv
  <1>5. /\ k <= Len(frames) /\ \A i \in 1 .. k : frames[i] = packets[i] /\ NextLen(proto, packets[i]) # 0
    BY <1>4 DEF CutAt
  <1>6. PICK parts \in Seq(Frame) : parts = out.parts /\ frames' = frames \o parts
    BY <1>1, <1>3
  <1>7. /\ Len(frames') = Len(frames) + Len(parts) /\ Len(parts) \in Nat
        /\ \A i \in 1 .. Len(frames) : frames'[i] = frames[i]
        /\ \A i \in 1 .. Len(parts) : frames'[Len(frames) + i] = parts[i]
    BY <1>0, <1>6
  <1>8. CASE splitter.off
    <2>1. splitter' = splitter
      BY <1>1, <1>8 DEF Split
    <2>2. k <= Len(frames') /\ \A i \in 1 .. k : frames'[i] = packets[i] /\ NextLen(proto, packets[i]) # 0
      <3>1. k <= Len(frames')
        BY <1>0, <1>5, <1>7
      <3>2. ASSUME NEW i \in 1 .. k
            PROVE  frames'[i] = packets[i] /\ NextLen(proto, packets[i]) # 0
        <4>1. i \in 1 .. Len(frames)
          BY <1>0, <1>5
        <4>2. QED
          BY <1>5, <1>7, <4>1
      <3>3. QED
        BY <3>1, <3>2
    <2>3. CutAt(k)'
      BY <1>0, <1>4, <1>8, <2>1, <2>2 DEF CutAt
    <2>4. QED
      BY <1>0, <2>3 DEF CutInv
  <1>9. CASE ~splitter.off
    <2>1. PICK r : WaitsFor(k, r)
      BY <1>4, <1>9 DEF CutAt
    <2>2. PICK a : a = Begins(packets, k)
      OBVIOUS
    <2>3. /\ InStream(proto, packets, r, a) /\ Len(frames) = k /\ splitter.buf = r
      BY <1>0, <2>1, <2>2 DEF WaitsFor
    <2>4. PICK all \in Seq(Byte) : all = r \o chunk
      BY <1>2, <2>3, ConcatProperties DEF InStream, Frame
    <2>5. InStream(proto, packets, all, a) /\ a + Len(all) = Given' /\ a \in Nat
      <3>1. PICK d : d = FlattenSeq(frames)
        OBVIOUS
      <3>2. d \in Seq(Byte) /\ Len(d) = a
        <4>1. frames = SubSeq(packets, 1, k)
          <5>1. PICK B : B = Seq(Byte)
            OBVIOUS
          <5>2. packets \in Seq(B) /\ frames \in Seq(B)
            BY <1>0, <2>3, <5>1, FramesAreBytes DEF InStream
          <5>3. PICK first : first = SubSeq(packets, 1, k)
            OBVIOUS
          <5>4. first \in Seq(B) /\ Len(first) = k /\ \A i \in 1 .. k : first[i] = packets[i]
            BY <5>2, <5>3
          <5>5. frames = first
            BY <1>5, <2>3, <5>2, <5>4, SeqEqual
          <5>6. QED
            BY <5>3, <5>5
        <4>2. QED
          BY <1>0, <2>2, <3>1, <4>1, FramesAreBytes DEF Begins
      <3>3. PICK e : e = FlattenSeq(parts)
        OBVIOUS
      <3>4. e \in Seq(Byte)
        BY <3>3, FramesAreBytes
      <3>5. FlattenSeq(frames') = Then(d, e)
        <4>1. frames \in Seq(Seq(Byte)) /\ parts \in Seq(Seq(Byte))
          BY <1>0, FramesAreBytes
        <4>2. FlattenSeq(frames \o parts) = FlattenSeq(frames) \o FlattenSeq(parts)
          BY <4>1, FlattenConcat
        <4>3. QED
          BY <1>6, <3>1, <3>3, <4>2 DEF Then
      <3>6. PICK b2 : b2 = out.sp.buf
        OBVIOUS
      <3>7. b2 \in Seq(Byte)
        BY <1>3, <3>6 DEF Splitters
      <3>8. Then(e, b2) = all
        BY <1>3, <1>6, <2>3, <2>4, <3>3, <3>6 DEF Then
      <3>9. PICK fed : fed = Then(FlattenSeq(frames'), splitter'.buf)
        OBVIOUS
      <3>10. fed = Then(d, all)
        <4>1. fed = Then(Then(d, e), b2)
          BY <1>1, <3>5, <3>6, <3>9
        <4>2. QED
          BY <3>2, <3>4, <3>7, <3>8, <4>1, ThenRegroups
      <3>11. PICK flat \in Seq(Byte) : flat = FlattenSeq(packets)
        BY <2>3, FlattenTyped DEF InStream
      <3>12. Len(fed) = Given' /\ Given' <= Len(flat) /\ \A i \in 1 .. Given' : fed[i] = flat[i]
        <4>1. pc' # "init" /\ UNCHANGED packets
          BY <1>0
        <4>2. /\ Len(fed) = Given' /\ Given' <= Len(FlattenSeq(packets))
              /\ \A i \in 1 .. Given' : fed[i] = FlattenSeq(packets)[i]
          BY <3>9, <4>1, FedIsGiven
        <4>3. QED
          BY <3>11, <4>2
      <3>13. Len(fed) = a + Len(all) /\ \A i \in 1 .. Len(all) : fed[a + i] = all[i]
        BY <3>2, <3>10, ThenPlaces
      <3>14. Len(all) \in Nat /\ Len(d) \in Nat /\ a \in Nat /\ Given' = a + Len(all)
        BY <3>2, <3>12, <3>13
      <3>15. \A i \in 1 .. Len(all) : all[i] = flat[a + i]
        <4> SUFFICES ASSUME NEW i \in 1 .. Len(all) PROVE all[i] = flat[a + i]
          OBVIOUS
        <4>1. a + i \in 1 .. Given'
          BY <3>14
        <4>2. QED
          BY <3>12, <3>13, <4>1
      <3>16. InStream(proto, packets, all, a)
        BY <2>3, <3>11, <3>12, <3>14, <3>15 DEF InStream
      <3>17. QED
        BY <3>14, <3>16
    <2>6. PICK w : w = Walked(proto, all)[0]
      OBVIOUS
    <2>7. out = [parts |-> w.parts, sp |-> [buf |-> w.kept, off |-> w.off]]
      BY <1>1, <1>9, <2>3, <2>4, <2>6, SplitIs
    <2>8. parts = w.parts /\ splitter'.buf = w.kept /\ splitter'.off = w.off
      BY <1>1, <1>6, <2>7
    <2>9. PICK c \in k .. Len(packets) : CutUpTo(proto, packets, all, a, k, c, w)
      <3>1. CutsPackets(proto, packets, all, a, 0, w)
        BY <2>5, <2>6, WholePackets, WalkedCutsPackets DEF StreamInv
      <3>2. Begins(packets, k) = a + 0
        BY <2>2, <2>5
      <3>3. QED
        BY <3>1, <3>2 DEF CutsPackets
    <2>10. /\ c - k <= Len(parts)
           /\ \A i \in 1 .. c - k : parts[i] = packets[k + i] /\ NextLen(proto, packets[k + i]) # 0
           /\ splitter'.off => c < Len(packets) /\ NextLen(proto, packets[c + 1]) = 0
           /\ ~splitter'.off => /\ Len(parts) = c - k
                                /\ Begins(packets, c) - a \in 0 .. Len(all)
                                /\ splitter'.buf = Beyond(all, Begins(packets, c) - a)
                                /\ NextLen(proto, splitter'.buf) = Incomplete
      BY <2>8, <2>9 DEF CutUpTo
    <2>11. c \in 0 .. Len(packets) /\ c <= Len(frames')
      BY <1>7, <2>3, <2>10
    <2>12. \A i \in 1 .. c : frames'[i] = packets[i] /\ NextLen(proto, packets[i]) # 0
      <3> SUFFICES ASSUME NEW i \in 1 .. c
                   PROVE  frames'[i] = packets[i] /\ NextLen(proto, packets[i]) # 0
        OBVIOUS
      <3>1. CASE i <= k
        BY <1>5, <1>7, <2>3, <3>1
      <3>2. CASE i > k
        <4>1. PICK h \in 1 .. c - k : i = k + h
          <5>1. i - k \in 1 .. c - k /\ i = k + (i - k)
            BY <3>2
          <5>2. QED
            BY <5>1
        <4>2. h \in 1 .. Len(parts)
          BY <1>7, <2>10, <4>1
        <4>3. QED
          BY <1>7, <2>3, <2>10, <4>1, <4>2
      <3>3. QED
        BY <3>1, <3>2
    <2>13. ASSUME ~splitter'.off
           PROVE  \E t : WaitsFor(c, t)'
      <3>1. PICK q : q = Begins(packets, c) - a /\ q \in 0 .. Len(all)
        BY <2>10, <2>13
      <3>2. PICK t : t = splitter'.buf /\ t = Beyond(all, q) /\ NextLen(proto, t) = Incomplete
        BY <2>10, <2>13, <3>1
      <3>3. /\ t \in Seq(Byte) /\ Len(t) = Len(all) - q
            /\ \A i \in 1 .. Len(all) - q : t[i] = all[q + i]
        <4>1. t \in Seq(Byte) /\ Len(t) = Len(all) - q
          BY <3>1, <3>2, BeyondProperties
        <4>2. t = SubSeq(all, q + 1, Len(all)) /\ q \in 0 .. Len(all)
          BY <3>1, <3>2 DEF Beyond
        <4>3. ASSUME NEW i \in 1 .. Len(all) - q PROVE t[i] = all[q + i]
          BY <4>2
        <4>4. QED
          BY <4>1, <4>3
      <3>4. /\ FlattenSeq(packets) \in Seq(Byte) /\ Begins(packets, c) \in Nat
            /\ Begins(packets, c) = a + q
        <4>1. packets \in Seq(Seq(Byte))
          BY <2>5 DEF InStream
        <4>2. Begins(packets, c) \in 0 .. Len(FlattenSeq(packets)) /\ FlattenSeq(packets) \in Seq(Byte)
          BY <2>11, <4>1, BeginsBounds
        <4>3. QED
          BY <2>5, <3>1, <4>2
      <3>5. Begins(packets, c) + Len(t) = Given'
        BY <2>5, <3>1, <3>3, <3>4
      <3>6. \A i \in 1 .. Len(t) : t[i] = FlattenSeq(packets)[Begins(packets, c) + i]
        <4> SUFFICES ASSUME NEW i \in 1 .. Len(t)
                     PROVE  t[i] = FlattenSeq(packets)[Begins(packets, c) + i]
          OBVIOUS
        <4>1. PICK n \in Nat : n = Len(all)
          OBVIOUS
        <4>a. q \in 0 .. n /\ i \in 1 .. n - q /\ a \in Nat
          BY <2>5, <3>1, <3>3, <4>1
        <4>b. q + i \in 1 .. n /\ a + (q + i) = (a + q) + i
          BY <4>a
        <4>2. all[q + i] = FlattenSeq(packets)[a + (q + i)]
          BY <2>5, <4>1, <4>b DEF InStream
        <4>3. QED
          BY <3>3, <3>4, <4>1, <4>a, <4>b, <4>2
      <3>7. InStream(proto, packets, t, Begins(packets, c))
        <4>1. /\ packets \in Seq(Seq(Byte)) /\ \A i \in 1 .. Len(packets) : WholePacket(proto, packets[i])
              /\ a + Len(all) <= Len(FlattenSeq(packets))
          BY <2>5 DEF InStream
        <4>2. Begins(packets, c) + Len(t) <= Len(FlattenSeq(packets))
          BY <2>5, <3>5, <4>1
        <4>3. QED
          BY <3>3, <3>4, <3>6, <4>1, <4>2 DEF InStream
      <3>8. Len(frames') = c
        BY <1>7, <2>3, <2>10, <2>13
      <3>9. WaitsFor(c, t)'
        BY <1>0, <2>11, <3>2, <3>5, <3>7, <3>8 DEF WaitsFor
      <3>10. QED
        BY <3>9
    <2>14. CutAt(c)'
      BY <1>0, <2>10, <2>11, <2>12, <2>13 DEF CutAt
    <2>15. QED
      BY <1>0, <2>11, <2>14 DEF CutInv
  <1>10. QED
    BY <1>8, <1>9

LEMMA EofCuts ==
    ASSUME StreamInv, CutInv, Eof
    PROVE  CutInv'
  <1>0. /\ pc = "relay" /\ pc' = "eof" /\ splitter \in Splitters /\ frames \in Seq(Frame)
        /\ Len(frames) \in Nat /\ UNCHANGED <<proto, tls, packets, pos, left, readBuf>>
    BY DEF StreamInv, Eof
  <1>1. PICK out : out = Flush(splitter) /\ splitter' = out.sp /\ frames' = frames \o out.parts
    BY DEF Eof
  <1>2. splitter'.off = splitter.off
    BY <1>0, <1>1 DEF Flush, Splitters
  <1>3. PICK parts \in Seq(Frame) : parts = out.parts /\ Len(parts) \in 0 .. 1 /\ frames' = frames \o parts
    <2>1. out.parts \in Seq(Frame)
      BY <1>0, <1>1, FlushKeeps
    <2>2. out.parts = <<>> \/ out.parts = <<splitter.buf>>
      BY <1>1 DEF Flush
    <2>3. Len(out.parts) \in 0 .. 1
      <3>1. Len(<<>>) = 0 /\ Len(<<splitter.buf>>) = 1
        OBVIOUS
      <3>2. Len(out.parts) = 0 \/ Len(out.parts) = 1
        BY <2>2, <3>1
      <3>3. QED
        BY <3>2
    <2>4. QED
      BY <1>1, <2>1, <2>3
  <1>4. /\ Len(frames') = Len(frames) + Len(parts)
        /\ \A i \in 1 .. Len(frames) : frames'[i] = frames[i]
    BY <1>0, <1>3
  <1>5. PICK k \in 0 .. Len(packets) : CutAt(k)
    BY <1>0 DEF CutInv
  <1>6. k <= Len(frames') /\ \A i \in 1 .. k : frames'[i] = packets[i] /\ NextLen(proto, packets[i]) # 0
    BY <1>0, <1>3, <1>4, <1>5 DEF CutAt
  <1>7. ASSUME ~splitter.off
        PROVE  \E r : WaitsFor(k, r)'
    <2>1. PICK r : WaitsFor(k, r)
      BY <1>5, <1>7 DEF CutAt
    <2>2. Len(frames) = k /\ Len(frames') <= k + 1
      <3>1. Len(frames) = k
        BY <1>0, <2>1 DEF WaitsFor
      <3>2. Len(parts) = 0 \/ Len(parts) = 1
        BY <1>3
      <3>3. PICK n : n = Len(frames') /\ (n = k + 0 \/ n = k + 1)
        BY <1>4, <3>1, <3>2
      <3>4. n <= k + 1
        BY <3>3
      <3>5. QED
        BY <3>1, <3>3, <3>4
    <2>3. Given' = Given
      BY <1>0 DEF Given
    <2>4. WaitsFor(k, r)'
      BY <1>0, <2>1, <2>2, <2>3 DEF WaitsFor
    <2>5. QED
      BY <2>4
  <1>8. CutAt(k)'
    BY <1>0, <1>2, <1>5, <1>6, <1>7 DEF CutAt
  <1>9. QED
    BY <1>0, <1>8 DEF CutInv

LEMMA CutStep ==
    ASSUME StreamInv, CutInv, [Next]_vars, StreamInv'
    PROVE  CutInv'
  <1>1. CASE EofBetweenRecords \/ UNCHANGED vars
    <2>1. UNCHANGED <<proto, packets, pos, readBuf, splitter, frames>> /\ Given' = Given
          /\ (pc' = pc \/ (pc = "relay" /\ pc' = "raised"))
      BY <1>1 DEF EofBetweenRecords, vars, Given
    <2>2. CASE pc = "init"
      BY <2>1, <2>2 DEF CutInv
    <2>3. CASE pc # "init"
      <3>1. PICK k \in 0 .. Len(packets) : CutAt(k)
        BY <2>3 DEF CutInv
      <3>2. ASSUME NEW r, WaitsFor(k, r) PROVE WaitsFor(k, r)'
        BY <2>1, <3>2 DEF WaitsFor
      <3>3. CutAt(k)'
        BY <2>1, <3>1, <3>2 DEF CutAt
      <3>4. QED
        BY <2>1, <3>3 DEF CutInv
    <2>4. QED
      BY <2>2, <2>3
  <1>2. QED
    BY <1>1, HandshakeCuts, RelayCuts, EofCuts DEF Next

LEMMA CutInit ==
    ASSUME Init
    PROVE  CutInv
  BY DEF Init, CutInv

\* The first packet that is senseless, if there is one.
LEMMA FirstSenseless ==
    ASSUME NEW s \in Seq(Seq(Byte)), NEW m, m = SelectInSeq(s, Senseless)
    PROVE  /\ m \in Nat
           /\ m = 0 => \A i \in 1 .. Len(s) : ~Senseless(s[i])
           /\ m # 0 => /\ m \in 1 .. Len(s) /\ Senseless(s[m])
                       /\ \A i \in 1 .. Len(s) : Senseless(s[i]) => m <= i
  <1> DEFINE I == {i \in 1 .. Len(s) : Senseless(s[i])}
  <1>1. m = IF I # {} THEN Min(I) ELSE 0
    BY DEF SelectInSeq
  <1>2. I \subseteq Nat /\ \A i \in I : i \in 1 .. Len(s) /\ Senseless(s[i])
    OBVIOUS
  <1>3. \A i \in 1 .. Len(s) : Senseless(s[i]) => i \in I
    OBVIOUS
  <1> HIDE DEF I
  <1>4. CASE I = {}
    BY <1>1, <1>3, <1>4
  <1>5. CASE I # {}
    <2>1. IsWellFoundedOn(OpToRel(<, Nat), Nat)
      BY NatLessThanWellFounded
    <2>2. PICK n \in I : \A i \in I : ~(<<i, n>> \in OpToRel(<, Nat))
      BY <1>2, <1>5, <2>1, WFMin
    <2>a. n \in Nat /\ \A i \in I : i \in Nat /\ ~(i < n)
      BY <1>2, <2>2 DEF OpToRel
    <2>3. n \in I /\ \A i \in I : n <= i
      BY <2>a
    <2>4. m \in I /\ \A i \in I : m <= i
      BY <1>1, <1>5, <2>3 DEF Min
    <2>5. m \in 1 .. Len(s) /\ Senseless(s[m])
      BY <1>2, <2>4
    <2>6. m \in Nat /\ m # 0
      BY <2>5
    <2>7. QED
      BY <1>3, <2>4, <2>5, <2>6
  <1>6. QED
    BY <1>4, <1>5

LEMMA CutMeansPackets ==
    ASSUME StreamInv, CutInv
    PROVE  FramesArePackets
  <1>0. /\ packets \in Seq(Seq(Byte)) /\ proto \in Protos /\ Len(packets) \in Nat
        /\ \A i \in 1 .. Len(packets) : WholePacket(proto, packets[i])
        /\ frames \in Seq(Frame) /\ Len(frames) \in Nat
    BY WholePackets DEF StreamInv
  <1>1. PICK sane : sane = SelectInSeq(packets, Senseless)
    OBVIOUS
  <1>2. PICK n : n = IF sane = 0 THEN Len(packets) ELSE sane - 1
    OBVIOUS
  <1>3. PICK m : m = IF pc = "eof" THEN Len(frames) - 1 ELSE Len(frames)
    OBVIOUS
  <1>4. SUFFICES /\ \A i \in 1 .. n : i <= m => frames[i] = packets[i]
                 /\ splitter.off => sane > 0
    BY <1>1, <1>2, <1>3 DEF FramesArePackets
  <1>5. CASE pc = "init"
    <2>1. m = 0 /\ splitter.off = FALSE
      <3>1. frames = <<>> /\ splitter = NewSplitter /\ pc # "eof" /\ Len(<<>>) = 0
        BY <1>5 DEF StreamInv
      <3>2. QED
        BY <1>3, <3>1 DEF NewSplitter
    <2>2. n \in Int /\ \A i \in 1 .. n : ~(i <= 0)
      <3>1. sane \in Nat
        BY <1>0, <1>1, FirstSenseless
      <3>2. QED
        BY <1>0, <1>2, <3>1
    <2>3. QED
      BY <2>1, <2>2
  <1>6. CASE pc # "init"
    <2>1. PICK k \in 0 .. Len(packets) : CutAt(k)
      BY <1>6 DEF CutInv
    <2>2. \A i \in 1 .. k : frames[i] = packets[i]
      BY <2>1 DEF CutAt
    <2>3. CASE splitter.off
      <3>1. k + 1 \in 1 .. Len(packets) /\ NextLen(proto, packets[k + 1]) = 0
        BY <1>0, <2>1, <2>3 DEF CutAt
      <3>2. PICK b : b = packets[k + 1] /\ WholePacket(proto, b) /\ NextLen(proto, b) = 0
        BY <1>0, <3>1
      <3>3. Senseless(b)
        BY <1>0, <3>2, SenselessIs
      <3>4. sane \in 1 .. Len(packets) /\ sane <= k + 1
        BY <1>0, <1>1, <3>1, <3>2, <3>3, FirstSenseless
      <3>5. sane > 0 /\ \A i \in 1 .. n : i \in 1 .. k
        BY <1>2, <3>4
      <3>6. QED
        BY <2>2, <3>5
    <2>4. CASE ~splitter.off
      <3>1. PICK r : WaitsFor(k, r)
        BY <2>1, <2>4 DEF CutAt
      <3>2. m <= k /\ m \in Int
        BY <1>0, <1>3, <3>1 DEF WaitsFor
      <3>a. sane \in Nat
        BY <1>0, <1>1, FirstSenseless
      <3>3. n \in Int
        BY <1>0, <1>2, <3>a
      <3>4. \A i \in 1 .. n : i <= m => i \in 1 .. k
        BY <3>2, <3>3
      <3>5. QED
        BY <2>2, <2>4, <3>4
    <2>5. QED
      BY <2>3, <2>4
  <1>7. QED
    BY <1>5, <1>6

LEMMA CutMeansPrompt ==
    ASSUME StreamInv, CutInv
    PROVE  Prompt
  <1>0. /\ packets \in Seq(Seq(Byte)) /\ proto \in Protos /\ Len(packets) \in Nat
        /\ \A i \in 1 .. Len(packets) : WholePacket(proto, packets[i])
        /\ frames \in Seq(Frame) /\ Len(frames) \in Nat
    BY WholePackets DEF StreamInv
  <1>1. SUFFICES ASSUME pc # "init", NEW n \in 1 .. Len(packets),
                        \A i \in 1 .. n : ~Senseless(packets[i]),
                        Len(Init0) + Begins(packets, n) <= pos - Len(readBuf),
                        ~(Len(frames) >= n)
                 PROVE  FALSE
    BY DEF Prompt, Begins
  <1>2. PICK k \in 0 .. Len(packets) : CutAt(k)
    BY <1>1 DEF CutInv
  <1>3. k + 1 \in 1 .. n /\ k \in 0 .. Len(packets) - 1
    BY <1>0, <1>1, <1>2 DEF CutAt
  <1>4. PICK b : b = packets[k + 1] /\ WholePacket(proto, b) /\ ~Senseless(b)
    BY <1>0, <1>1, <1>3
  <1>5. NextLen(proto, b) # 0 /\ Len(b) \in Nat \ {0}
    BY <1>0, <1>4, SenselessIs DEF WholePacket
  <1>6. CASE splitter.off
    BY <1>2, <1>4, <1>5, <1>6 DEF CutAt
  <1>7. CASE ~splitter.off
    <2>1. PICK r : WaitsFor(k, r)
      BY <1>2, <1>7 DEF CutAt
    <2>2. PICK a : a = Begins(packets, k)
      OBVIOUS
    <2>3. /\ InStream(proto, packets, r, a) /\ a + Len(r) = Given
          /\ NextLen(proto, r) = Incomplete /\ r \in Seq(Byte) /\ a \in Nat /\ Len(r) \in Nat
      BY <2>1, <2>2 DEF WaitsFor, InStream
    <2>4. Beyond(r, 0) = r
      BY <2>3, SubSeqFull DEF Beyond
    <2>5. Starts(r, b) /\ Begins(packets, k + 1) = a + Len(b)
      <3>1. 0 \in 0 .. Len(r) /\ Begins(packets, k) = a + 0
        BY <2>2, <2>3
      <3>2. /\ Starts(Beyond(r, 0), packets[k + 1])
            /\ Begins(packets, k + 1) = a + (0 + Len(packets[k + 1]))
        BY <1>3, <2>3, <3>1, PacketHere
      <3>3. QED
        BY <1>4, <1>5, <2>4, <3>2
    <2>6. NextLen(proto, r) = IF Len(r) < Len(b) THEN Incomplete ELSE Len(b)
      BY <1>0, <1>4, <1>5, <2>5, PacketCut DEF CutAtItsEnd
    <2>7. Len(r) < Len(b)
      BY <1>5, <2>3, <2>6 DEF Incomplete
    <2>8. Begins(packets, k + 1) <= Begins(packets, n) /\ Begins(packets, n) \in Nat
      <3>1. n \in 0 .. Len(packets) /\ k + 1 \in 0 .. n
        BY <1>0, <1>3
      <3>2. Begins(packets, n) \in 0 .. Len(FlattenSeq(packets)) /\ FlattenSeq(packets) \in Seq(Byte)
        BY <1>0, <3>1, BeginsBounds
      <3>3. QED
        BY <1>0, <3>1, <3>2, BeginsGrows
    <2>9. Begins(packets, n) <= Given
      <3>1. pos \in Int /\ Len(Init0) \in Nat /\ Len(readBuf) \in Nat
        <4>1. /\ pos \in 0 .. Len(sent) /\ readBuf \in Seq(Byte) /\ sent \in Seq(Byte)
              /\ Len(Init0) \in Nat
          BY SentTyped DEF StreamInv, TypeOK
        <4>2. QED
          BY <4>1
      <3>2. QED
        BY <1>1, <2>8, <3>1 DEF Given
    <2>10. QED
      BY <1>5, <2>3, <2>5, <2>7, <2>8, <2>9
  <1>8. QED
    BY <1>6, <1>7

-----------------------------------------------------------------------------
(* The theorems.                                                           *)

\* Every variable stays in its range: a splitter that has given up keeps nothing,
\* no frame is empty, and the read buffer never outgrows a handshake and a record.
THEOREM StreamTyped == Spec => []TypeOK
  <1>1. Init => StreamInv
    BY StreamInit
  <1>2. StreamInv /\ [Next]_vars => StreamInv'
    BY StreamStep
  <1>3. StreamInv => TypeOK
    BY DEF StreamInv
  <1>4. QED
    BY <1>1, <1>2, <1>3, PTL DEF Spec

\* Whatever the segments, the records and the packets: every byte after the
\* handshake is sent once and in order, but for those the two buffers hold.
THEOREM StreamIsKept == Spec => []NothingLost
  <1>1. Init => StreamInv
    BY StreamInit
  <1>2. StreamInv /\ [Next]_vars => StreamInv'
    BY StreamStep
  <1>3. StreamInv => NothingLost
    BY DEF StreamInv
  <1>4. QED
    BY <1>1, <1>2, <1>3, PTL DEF Spec

\* Each frame is a packet as the client wrote it, however its bytes were cut as
\* they came, until the splitter has given up; and it gives up only on a packet
\* whose length is zero.  This and the next theorem are those that need the
\* client to write whole packets (PacketsAssumption).
THEOREM PacketsAreFramed == Spec => []FramesArePackets
  <1>1. Init => StreamInv /\ CutInv
    BY StreamInit, CutInit
  <1>2. StreamInv /\ CutInv /\ [Next]_vars => (StreamInv /\ CutInv)'
    BY StreamStep, CutStep
  <1>3. StreamInv /\ CutInv => FramesArePackets
    BY CutMeansPackets
  <1>4. QED
    BY <1>1, <1>2, <1>3, PTL DEF Spec

\* A packet is sent as soon as its last byte has been read: split() leaves no
\* whole packet behind.
THEOREM PacketsAreSentAtOnce == Spec => []Prompt
  <1>1. Init => StreamInv /\ CutInv
    BY StreamInit, CutInit
  <1>2. StreamInv /\ CutInv /\ [Next]_vars => (StreamInv /\ CutInv)'
    BY StreamStep, CutStep
  <1>3. StreamInv /\ CutInv => Prompt
    BY CutMeansPrompt
  <1>4. QED
    BY <1>1, <1>2, <1>3, PTL DEF Spec

=============================================================================
