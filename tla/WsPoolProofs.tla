---------------------------- MODULE WsPoolProofs ----------------------------
(***************************************************************************)
(* Proofs about WsPool for every Key, Ws, Task, PoolSize and MaxAge: no    *)
(* bucket exceeds the pool's size, every socket has one owner, WsPool      *)
(* implements SocketStore, and get() leaves nothing behind that is too old *)
(* while it hands out what is younger.                                     *)
(***************************************************************************)
EXTENDS WsPool, FiniteSetTheorems, TLAPS

Active(t) == phase[t] \in {"queued", "filling"}

\* What makes BucketBound inductive: a key has at most one refill, and what it
\* has yet to collect fits beside what is in the bucket.
OneRefillPerKey ==
    /\ \A t \in Task : Active(t) => keyOf[t] \in refilling
    /\ \A t1, t2 \in Task : Active(t1) /\ Active(t2) /\ keyOf[t1] = keyOf[t2] => t1 = t2

RefillFits ==
    \A t \in Task :
        phase[t] = "filling" => Len(idle[keyOf[t]]) + Len(conn[t]) <= PoolSize

IInv == TypeOK /\ OneRefillPerKey /\ RefillFits /\ BucketBound

-----------------------------------------------------------------------------
(* Facts about sequences.                                                  *)

LEMMA FitsMonotone ==
    ASSUME NEW m \in Nat, NEW n \in Nat, NEW c \in Nat, n <= m, m + c <= PoolSize
    PROVE  n + c <= PoolSize
  BY PoolSizeAssumption

LEMMA FitsMoved ==
    ASSUME NEW m \in Nat, NEW n \in Nat, NEW c \in Nat \ {0}, n <= m + 1, m + c <= PoolSize
    PROVE  n <= PoolSize /\ n + (c - 1) <= PoolSize
  BY PoolSizeAssumption

LEMMA SuffixType ==
    ASSUME NEW S, NEW s \in Seq(S), NEW n \in 1 .. Len(s) + 1
    PROVE  /\ SubSeq(s, n, Len(s)) \in Seq(S)
           /\ Len(SubSeq(s, n, Len(s))) <= Len(s)
  OBVIOUS

LEMMA EntrySocket ==
    ASSUME NEW b \in Seq(Entry), NEW i \in DOMAIN b
    PROVE  b[i].ws \in Ws
<1>1. b[i] \in Entry
  OBVIOUS
<1> QED
  BY <1>1 DEF Entry

LEMMA AgedType ==
    ASSUME NEW b \in Seq(Entry)
    PROVE  LET aged == [i \in DOMAIN b |-> [ws |-> b[i].ws, age |-> Older(b[i].age)]]
           IN  aged \in Seq(Entry) /\ Len(aged) = Len(b)
<1> DEFINE aged == [i \in DOMAIN b |-> [ws |-> b[i].ws, age |-> Older(b[i].age)]]
<1>1. \A i \in DOMAIN b : b[i] \in Entry
  OBVIOUS
<1>2. \A i \in 1 .. Len(b) : [ws |-> b[i].ws, age |-> Older(b[i].age)] \in Entry
  BY <1>1, MaxAgeAssumption DEF Entry, Older
<1>3. aged \in [1 .. Len(b) -> Entry]
  BY <1>2
<1>4. aged \in Seq(Entry) /\ Len(aged) = Len(b)
  BY <1>3
<1> QED
  BY <1>4

-----------------------------------------------------------------------------
(* The two ways the set of refill tasks changes.                           *)

RefillTypeOK ==
    /\ refilling \subseteq Key
    /\ phase \in [Task -> {"none", "queued", "filling", "orphaned"}]
    /\ keyOf \in [Task -> Key \cup {NoKey}]
    /\ conn \in [Task -> Seq(Outcome)]

\* A scheduled refill has collected nothing and disturbs no other refill.
LEMMA ScheduleKeeps ==
    ASSUME RefillTypeOK, OneRefillPerKey, NEW k \in Key, ScheduleRefill(k)
    PROVE  /\ RefillTypeOK' /\ OneRefillPerKey'
           /\ \A t \in Task : phase'[t] = "filling" =>
                 phase[t] = "filling" /\ keyOf'[t] = keyOf[t] /\ conn'[t] = conn[t]
<1>1. CASE UNCHANGED refillVars
  BY <1>1 DEF refillVars, RefillTypeOK, OneRefillPerKey, Active
<1>2. CASE k \notin refilling /\ NewTask(k)
  <2>1. PICK t \in Task :
          /\ phase[t] = "none"
          /\ phase' = [phase EXCEPT ![t] = "queued"]
          /\ keyOf' = [keyOf EXCEPT ![t] = k]
          /\ UNCHANGED conn
    BY <1>2 DEF NewTask
  <2>2. refilling' = refilling \cup {k}
    BY <1>2 DEF NewTask
  <2>3. RefillTypeOK'
    BY <2>1, <2>2 DEF RefillTypeOK
  <2>4. OneRefillPerKey'
    BY <1>2, <2>1, <2>2 DEF RefillTypeOK, OneRefillPerKey, Active
  <2>5. \A u \in Task : phase'[u] = "filling" =>
          phase[u] = "filling" /\ keyOf'[u] = keyOf[u] /\ conn'[u] = conn[u]
    BY <2>1 DEF RefillTypeOK
  <2> QED
    BY <2>3, <2>4, <2>5
<1> QED
  BY <1>1, <1>2 DEF ScheduleRefill

\* The end of a refill takes nothing from the refills of other keys.
LEMMA FinishKeeps ==
    ASSUME RefillTypeOK, OneRefillPerKey, NEW t \in Task, Active(t), Finish(t)
    PROVE  /\ RefillTypeOK' /\ OneRefillPerKey'
           /\ \A u \in Task : phase'[u] = "filling" =>
                 /\ phase[u] = "filling" /\ u # t
                 /\ keyOf'[u] = keyOf[u] /\ conn'[u] = conn[u]
<1>1. RefillTypeOK'
  BY DEF Finish, RefillTypeOK
<1>2. OneRefillPerKey'
  BY DEF Finish, RefillTypeOK, OneRefillPerKey, Active
<1> QED
  BY <1>1, <1>2 DEF Finish, RefillTypeOK

-----------------------------------------------------------------------------
(* Every step of the pool keeps IInv.                                      *)

\* A bucket that loses entries, with a refill scheduled or nothing else.
LEMMA ShrinkKeeps ==
    ASSUME IInv, NEW k \in Key, NEW b \in Seq(Entry), Len(b) <= Len(idle[k]),
           idle' = [idle EXCEPT ![k] = b], ScheduleRefill(k),
           live' \subseteq Ws, held' \subseteq Ws, closing' \subseteq Ws, warm' \subseteq Key
    PROVE  IInv'
<1> USE DEF IInv
<1>1. /\ RefillTypeOK' /\ OneRefillPerKey'
      /\ \A t \in Task : phase'[t] = "filling" =>
            phase[t] = "filling" /\ keyOf'[t] = keyOf[t] /\ conn'[t] = conn[t]
  BY ScheduleKeeps DEF TypeOK, RefillTypeOK
<1>2. idle' \in [Key -> Seq(Entry)]
  BY DEF TypeOK
<1>3. \A key \in Key : Len(idle'[key]) <= Len(idle[key]) /\ Len(idle'[key]) \in Nat
  BY DEF TypeOK
<1>4. TypeOK'
  BY <1>1, <1>2 DEF TypeOK, RefillTypeOK
<1>5. BucketBound'
  BY <1>3, PoolSizeAssumption DEF BucketBound, TypeOK
<1>6. RefillFits'
  <2> SUFFICES ASSUME NEW t \in Task, phase'[t] = "filling"
               PROVE  Len(idle'[keyOf'[t]]) + Len(conn'[t]) <= PoolSize
    BY DEF RefillFits
  <2>1. phase[t] = "filling" /\ keyOf'[t] = keyOf[t] /\ conn'[t] = conn[t]
    BY <1>1
  <2>2. keyOf[t] \in Key
    BY <2>1 DEF OneRefillPerKey, Active, TypeOK
  <2>3. Len(idle[keyOf[t]]) + Len(conn[t]) <= PoolSize
    BY <2>1 DEF RefillFits
  <2>4. Len(conn[t]) \in Nat /\ Len(idle[keyOf[t]]) \in Nat
    BY <2>2 DEF TypeOK
  <2>5. Len(idle'[keyOf[t]]) <= Len(idle[keyOf[t]]) /\ Len(idle'[keyOf[t]]) \in Nat
    BY <1>3, <2>2
  <2>6. Len(idle'[keyOf[t]]) + Len(conn[t]) <= PoolSize
    BY <2>3, <2>4, <2>5, FitsMonotone
  <2> QED
    BY <2>1, <2>6
<1> QED
  BY <1>1, <1>4, <1>5, <1>6

LEMMA WarmupKeeps == ASSUME IInv, NEW k \in Key, Warmup(k) PROVE IInv'
<1>1. idle[k] \in Seq(Entry) /\ idle' = [idle EXCEPT ![k] = idle[k]]
  BY DEF IInv, TypeOK, Warmup
<1>2. Len(idle[k]) <= Len(idle[k])
  BY <1>1
<1> QED
  BY <1>1, <1>2, ShrinkKeeps DEF IInv, TypeOK, Warmup

LEMMA GetHitKeepsInv == ASSUME IInv, NEW k \in Key, GetHit(k) PROVE IInv'
<1> USE DEF IInv
<1>1. PICK i \in DOMAIN idle[k] :
        /\ Skipped(k, i - 1)
        /\ idle' = [idle EXCEPT ![k] = SubSeq(idle[k], i + 1, Len(idle[k]))]
        /\ held' = held \cup {idle[k][i].ws}
        /\ ScheduleRefill(k)
        /\ UNCHANGED <<live, warm>>
  BY DEF GetHit
<1>2. idle[k] \in Seq(Entry)
  BY DEF TypeOK
<1>3. \A j \in DOMAIN idle[k] : idle[k][j].ws \in Ws
  BY <1>2, EntrySocket
<1>4. i + 1 \in 1 .. Len(idle[k]) + 1
  BY <1>2
<1>5. /\ SubSeq(idle[k], i + 1, Len(idle[k])) \in Seq(Entry)
      /\ Len(SubSeq(idle[k], i + 1, Len(idle[k]))) <= Len(idle[k])
  BY <1>2, <1>4, SuffixType
<1>6. held' \subseteq Ws /\ closing' \subseteq Ws
  BY <1>1, <1>2, <1>3 DEF Skipped, TypeOK
<1> QED
  BY <1>1, <1>5, <1>6, ShrinkKeeps DEF TypeOK

LEMMA GetMissKeeps == ASSUME IInv, NEW k \in Key, GetMiss(k) PROVE IInv'
<1> USE DEF IInv
<1>1. idle[k] \in Seq(Entry)
  BY DEF TypeOK
<1>2. \A j \in DOMAIN idle[k] : idle[k][j].ws \in Ws
  BY <1>1, EntrySocket
<1>3. closing' \subseteq Ws
  BY <1>1, <1>2 DEF GetMiss, Skipped, TypeOK
<1>4. <<>> \in Seq(Entry) /\ Len(<<>>) <= Len(idle[k])
  BY <1>1
<1> QED
  BY <1>3, <1>4, ShrinkKeeps DEF GetMiss, TypeOK

\* Steps that leave the buckets alone and let no refill need more room.
LEMMA SteadyKeeps ==
    ASSUME IInv, UNCHANGED idle, RefillTypeOK', OneRefillPerKey',
           \A t \in Task : phase'[t] = "filling" =>
               /\ phase[t] = "filling" /\ keyOf'[t] = keyOf[t]
               /\ Len(conn'[t]) = Len(conn[t]),
           live' \subseteq Ws, held' \subseteq Ws, closing' \subseteq Ws, warm' \subseteq Key
    PROVE  IInv'
<1> USE DEF IInv
<1>1. TypeOK' /\ BucketBound'
  BY DEF TypeOK, RefillTypeOK, BucketBound
<1>2. RefillFits'
  BY DEF RefillFits
<1> QED
  BY <1>1, <1>2

LEMMA StartRefillKeeps == ASSUME IInv, NEW t \in Task, StartRefill(t) PROVE IInv'
<1> USE DEF IInv
<1>1. RefillTypeOK /\ Active(t) /\ keyOf[t] \in Key
  BY DEF StartRefill, TypeOK, RefillTypeOK, Active, OneRefillPerKey
<1>2. CASE Finish(t)
  <2>1. /\ RefillTypeOK' /\ OneRefillPerKey'
        /\ \A u \in Task : phase'[u] = "filling" =>
              phase[u] = "filling" /\ keyOf'[u] = keyOf[u] /\ conn'[u] = conn[u]
    BY <1>1, <1>2, FinishKeeps
  <2> QED
    BY <2>1, SteadyKeeps DEF StartRefill, TypeOK
<1>3. CASE /\ Needed(t) > 0
           /\ phase' = [phase EXCEPT ![t] = "filling"]
           /\ conn' = [conn EXCEPT ![t] = [i \in 1 .. Needed(t) |-> Pending]]
           /\ UNCHANGED <<refilling, keyOf>>
  <2> DEFINE k == keyOf[t]
  <2>1. Len(idle[k]) \in Nat /\ Needed(t) \in Nat /\ Len(idle[k]) + Needed(t) = PoolSize
    BY <1>1, <1>3, PoolSizeAssumption DEF TypeOK, Needed
  <2>2. /\ [i \in 1 .. Needed(t) |-> Pending] \in Seq(Outcome)
        /\ Len([i \in 1 .. Needed(t) |-> Pending]) = Needed(t)
    BY <2>1 DEF Outcome
  <2>3. RefillTypeOK' /\ OneRefillPerKey'
    BY <1>1, <1>3, <2>2 DEF RefillTypeOK, OneRefillPerKey, Active
  <2>4. UNCHANGED <<idle, live, held, closing, warm>>
    BY DEF StartRefill
  <2>5. TypeOK' /\ BucketBound'
    BY <2>3, <2>4 DEF TypeOK, RefillTypeOK, BucketBound
  <2>6. RefillFits'
    <3> SUFFICES ASSUME NEW u \in Task, phase'[u] = "filling"
                 PROVE  Len(idle'[keyOf'[u]]) + Len(conn'[u]) <= PoolSize
      BY DEF RefillFits
    <3>1. CASE u = t
      <4>1. keyOf'[u] = k /\ conn'[u] = [i \in 1 .. Needed(t) |-> Pending]
        BY <1>1, <1>3, <3>1 DEF RefillTypeOK
      <4>2. Len(idle[k]) + Needed(t) <= PoolSize
        BY <2>1, PoolSizeAssumption
      <4> QED
        BY <2>2, <2>4, <4>1, <4>2
    <3>2. CASE u # t
      BY <1>1, <1>3, <2>4, <3>2 DEF RefillTypeOK, RefillFits
    <3> QED
      BY <3>1, <3>2
  <2> QED
    BY <2>3, <2>5, <2>6
<1> QED
  BY <1>2, <1>3 DEF StartRefill

LEMMA ConnectKeeps ==
    ASSUME IInv, NEW t \in Task, ConnectOk(t) \/ ConnectFail(t) PROVE IInv'
<1> USE DEF IInv
<1>1. PICK i \in DOMAIN conn[t], out \in Ws \cup {Failed} :
        conn' = [conn EXCEPT ![t] = [conn[t] EXCEPT ![i] = out]]
  BY DEF ConnectOk, ConnectFail, Free
<1>2. UNCHANGED <<idle, refilling, phase, keyOf, held, closing, warm>>
  BY DEF ConnectOk, ConnectFail
<1>3. live' \subseteq Ws
  BY DEF ConnectOk, ConnectFail, Free, TypeOK
<1>4. conn[t] \in Seq(Outcome) /\ out \in Outcome
  BY DEF TypeOK, Outcome
<1>5. /\ [conn[t] EXCEPT ![i] = out] \in Seq(Outcome)
      /\ Len([conn[t] EXCEPT ![i] = out]) = Len(conn[t])
  BY <1>4
<1>6. conn' \in [Task -> Seq(Outcome)] /\ \A u \in Task : Len(conn'[u]) = Len(conn[u])
  BY <1>1, <1>5 DEF TypeOK
<1>7. RefillTypeOK' /\ OneRefillPerKey'
  BY <1>2, <1>6 DEF TypeOK, RefillTypeOK, OneRefillPerKey, Active
<1> QED
  BY <1>2, <1>3, <1>6, <1>7, SteadyKeeps DEF TypeOK

LEMMA OtherKeeps ==
    ASSUME IInv, NEW w \in Ws, QuietClose(w) \/ Release(w) \/ PeerClose(w) PROVE IInv'
<1> USE DEF IInv
<1>1. UNCHANGED <<idle, refilling, phase, keyOf, conn, warm>>
  BY DEF QuietClose, Release, PeerClose
<1>2. live' \subseteq Ws /\ held' \subseteq Ws /\ closing' \subseteq Ws
  BY DEF QuietClose, Release, PeerClose, TypeOK
<1>3. RefillTypeOK' /\ OneRefillPerKey'
  BY <1>1 DEF TypeOK, RefillTypeOK, OneRefillPerKey, Active
<1> QED
  BY <1>1, <1>2, <1>3, SteadyKeeps DEF TypeOK

LEMMA TickKeeps == ASSUME IInv, Tick PROVE IInv'
<1> USE DEF IInv
<1>1. UNCHANGED <<refilling, phase, keyOf, conn, live, held, closing, warm>>
  BY DEF Tick
<1>2. \A k \in Key : idle'[k] \in Seq(Entry) /\ Len(idle'[k]) = Len(idle[k])
  <2> SUFFICES ASSUME NEW k \in Key
               PROVE  idle'[k] \in Seq(Entry) /\ Len(idle'[k]) = Len(idle[k])
    OBVIOUS
  <2>1. idle[k] \in Seq(Entry)
    BY DEF TypeOK
  <2>2. idle'[k] = [i \in DOMAIN idle[k] |->
                      [ws |-> idle[k][i].ws, age |-> Older(idle[k][i].age)]]
    BY DEF Tick
  <2> QED
    BY <2>1, <2>2, AgedType
<1>3. idle' \in [Key -> Seq(Entry)]
  BY <1>2 DEF Tick
<1>4. TypeOK' /\ OneRefillPerKey'
  BY <1>1, <1>3 DEF TypeOK, OneRefillPerKey, Active
<1>5. BucketBound'
  BY <1>2 DEF BucketBound
<1>6. RefillFits'
  BY <1>1, <1>2 DEF RefillFits, OneRefillPerKey, Active, TypeOK
<1> QED
  BY <1>4, <1>5, <1>6

\* The entry a refill collects takes the room its connect task was counted for.
LEMMA CollectKeeps == ASSUME IInv, NEW t \in Task, Collect(t) PROVE IInv'
<1> DEFINE k == keyOf[t]
           ws == Head(conn[t])
<1> USE DEF IInv
<1>1. /\ phase[t] = "filling" /\ Active(t) /\ k \in Key
      /\ conn[t] \in Seq(Outcome) /\ conn[t] # <<>>
      /\ idle[k] \in Seq(Entry) /\ idle \in [Key -> Seq(Entry)]
  BY DEF Collect, TypeOK, Active, OneRefillPerKey
<1>2. UNCHANGED <<live, held, closing, warm>>
  BY DEF Collect
<1>3. ws \in Outcome /\ ws # Pending
  BY <1>1 DEF Collect
<1>4. Len(conn[t]) \in Nat \ {0} /\ Len(idle[k]) + Len(conn[t]) <= PoolSize
  <2>1. Len(conn[t]) \in Nat \ {0}
    BY <1>1
  <2>2. Len(idle[k]) + Len(conn[t]) <= PoolSize
    BY <1>1 DEF RefillFits
  <2> QED
    BY <2>1, <2>2
<1>5. /\ idle' \in [Key -> Seq(Entry)]
      /\ Len(idle'[k]) <= Len(idle[k]) + 1
      /\ \A other \in Key \ {k} : idle'[other] = idle[other]
  <2>1. CASE ws = Failed /\ UNCHANGED idle
    BY <1>1, <2>1
  <2>2. CASE ws # Failed /\ idle' = [idle EXCEPT ![k] = Append(idle[k], [ws |-> ws, age |-> 0])]
    <3>1. [ws |-> ws, age |-> 0] \in Entry
      BY <1>3, <2>2, MaxAgeAssumption DEF Entry, Outcome
    <3>2. /\ Append(idle[k], [ws |-> ws, age |-> 0]) \in Seq(Entry)
          /\ Len(Append(idle[k], [ws |-> ws, age |-> 0])) = Len(idle[k]) + 1
      BY <1>1, <3>1
    <3>3. idle'[k] = Append(idle[k], [ws |-> ws, age |-> 0])
      BY <1>1, <2>2
    <3>4. Len(idle'[k]) <= Len(idle[k]) + 1
      BY <1>1, <3>2, <3>3
    <3>5. idle' \in [Key -> Seq(Entry)]
      BY <1>1, <2>2, <3>2
    <3> QED
      BY <1>1, <2>2, <3>4, <3>5
  <2> QED
    BY <2>1, <2>2 DEF Collect
<1>6. /\ RefillTypeOK' /\ OneRefillPerKey'
      /\ \A u \in Task : phase'[u] = "filling" =>
            /\ phase[u] = "filling" /\ keyOf'[u] = keyOf[u]
            /\ u # t => conn'[u] = conn[u]
            /\ u = t => Len(conn'[u]) = Len(conn[t]) - 1
  <2>1. CASE Finish(t)
    BY <1>1, <2>1, FinishKeeps DEF TypeOK, RefillTypeOK
  <2>2. CASE /\ conn' = [conn EXCEPT ![t] = Tail(conn[t])]
             /\ UNCHANGED <<refilling, phase, keyOf>>
    <3>1. Tail(conn[t]) \in Seq(Outcome) /\ Len(Tail(conn[t])) = Len(conn[t]) - 1
      BY <1>1
    <3>2. conn' \in [Task -> Seq(Outcome)]
      BY <2>2, <3>1 DEF TypeOK
    <3>3. RefillTypeOK' /\ OneRefillPerKey'
      BY <2>2, <3>2 DEF TypeOK, RefillTypeOK, OneRefillPerKey, Active
    <3> QED
      BY <2>2, <3>1, <3>3 DEF TypeOK
  <2> QED
    BY <2>1, <2>2 DEF Collect
<1>7. TypeOK'
  BY <1>2, <1>5, <1>6 DEF TypeOK, RefillTypeOK
<1>8. BucketBound'
  <2>1. Len(idle'[k]) \in Nat /\ Len(idle[k]) \in Nat
    BY <1>1, <1>5
  <2>2. Len(idle'[k]) <= PoolSize
    BY <1>4, <1>5, <2>1, FitsMoved
  <2> QED
    BY <1>5, <2>2 DEF BucketBound
<1>9. RefillFits'
  <2> SUFFICES ASSUME NEW u \in Task, phase'[u] = "filling"
               PROVE  Len(idle'[keyOf'[u]]) + Len(conn'[u]) <= PoolSize
    BY DEF RefillFits
  <2>1. phase[u] = "filling" /\ keyOf'[u] = keyOf[u] /\ Active(u) /\ keyOf[u] \in Key
    BY <1>6 DEF Active, OneRefillPerKey, TypeOK
  <2>2. CASE u = t
    <3>1. Len(idle'[k]) \in Nat /\ Len(idle[k]) \in Nat /\ Len(conn'[u]) = Len(conn[t]) - 1
      BY <1>1, <1>5, <1>6, <2>2
    <3>2. Len(idle'[k]) + Len(conn'[u]) <= PoolSize
      BY <1>4, <1>5, <3>1, FitsMoved
    <3> QED
      BY <2>1, <2>2, <3>2
  <2>3. CASE u # t
    <3>1. keyOf[u] # k
      BY <1>1, <2>1, <2>3 DEF OneRefillPerKey
    <3> QED
      BY <1>5, <1>6, <2>1, <2>3, <3>1 DEF RefillFits
  <2> QED
    BY <2>2, <2>3
<1> QED
  BY <1>6, <1>7, <1>8, <1>9

-----------------------------------------------------------------------------
(* The theorems.                                                           *)

LEMMA Invariance == Spec => []IInv
<1>1. Init => IInv
  BY KeyAssumption, PoolSizeAssumption, MaxAgeAssumption
  DEF Init, IInv, TypeOK, OneRefillPerKey, RefillFits, BucketBound, Active, Entry, Outcome
<1>2. IInv /\ [Next]_vars => IInv'
  <2> SUFFICES ASSUME IInv, [Next]_vars PROVE IInv'
    OBVIOUS
  <2>1. CASE \E k \in Key : Warmup(k)
    BY <2>1, WarmupKeeps
  <2>2. CASE \E k \in Key : GetHit(k) \/ GetMiss(k)
    BY <2>2, GetHitKeepsInv, GetMissKeeps
  <2>3. CASE \E t \in Task : StartRefill(t) \/ ConnectOk(t) \/ ConnectFail(t) \/ Collect(t)
    BY <2>3, StartRefillKeeps, ConnectKeeps, CollectKeeps
  <2>4. CASE \E w \in Ws : QuietClose(w) \/ Release(w) \/ PeerClose(w)
    BY <2>4, OtherKeeps
  <2>5. CASE Tick
    BY <2>5, TickKeeps
  <2>6. CASE UNCHANGED vars
    BY <2>6 DEF vars, IInv, TypeOK, OneRefillPerKey, RefillFits, BucketBound, Active
  <2> QED
    BY <2>1, <2>2, <2>3, <2>4, <2>5, <2>6 DEF Next
<1> QED
  BY <1>1, <1>2, PTL DEF Spec

\* Every variable of the pool keeps its type in every run.
THEOREM TypeCorrect == Spec => []TypeOK
  BY Invariance, PTL DEF IInv

\* proxy/pool.py keeps at most pool_size connections per key while the proxy
\* runs, for any number of keys, refills and get() calls in any order.
THEOREM PoolBounded == Spec => []BucketBound
  BY Invariance, PTL DEF IInv

-----------------------------------------------------------------------------
(* One owner for every socket.                                             *)

\* The parts of ExclusiveOwner.
EntriesDiffer ==
    \A k1, k2 \in Key : \A i \in DOMAIN idle[k1], j \in DOMAIN idle[k2] :
        idle[k1][i].ws = idle[k2][j].ws => k1 = k2 /\ i = j

ConnectsDiffer ==
    \A t1, t2 \in Task : \A i \in DOMAIN conn[t1], j \in DOMAIN conn[t2] :
        conn[t1][i] = conn[t2][j] /\ conn[t1][i] \in Ws => t1 = t2 /\ i = j

PlacesDiffer ==
    /\ \A k \in Key : BucketSockets(k) \cap (Connected \cup held \cup closing) = {}
    /\ Connected \cap (held \cup closing) = {}
    /\ held \cap closing = {}

OInv == IInv /\ EntriesDiffer /\ ConnectsDiffer /\ PlacesDiffer

-----------------------------------------------------------------------------
(* What a step leaves of the buckets and of the connect tasks.             *)

\* Each bucket has lost n[k] entries in front, or none; entries may have aged.
BucketsShifted(n) ==
    \A k \in Key :
        /\ Len(idle'[k]) = Len(idle[k]) - n[k]
        /\ \A i \in DOMAIN idle'[k] : idle'[k][i].ws = idle[k][i + n[k]].ws

\* Each refill has lost n[t] connect tasks in front, and has no new socket.
ConnectsShifted(n) ==
    \A t \in Task : \A i \in DOMAIN conn'[t] :
        conn'[t][i] \in Ws =>
            i + n[t] \in DOMAIN conn[t] /\ conn'[t][i] = conn[t][i + n[t]]

LEMMA ShiftedEntries ==
    ASSUME OInv, TypeOK', NEW n \in [Key -> Nat], BucketsShifted(n)
    PROVE  EntriesDiffer' /\ \A k \in Key : BucketSockets(k)' \subseteq BucketSockets(k)
<1>1. \A k \in Key : idle[k] \in Seq(Entry) /\ idle'[k] \in Seq(Entry) /\ n[k] \in Nat
  BY DEF OInv, IInv, TypeOK
<1>2. \A k \in Key : \A i \in DOMAIN idle'[k] :
          i \in Nat /\ i + n[k] \in DOMAIN idle[k] /\ idle'[k][i].ws = idle[k][i + n[k]].ws
  BY <1>1 DEF BucketsShifted
<1>3. EntriesDiffer'
  <2> SUFFICES ASSUME NEW k1 \in Key, NEW k2 \in Key,
                      NEW i \in DOMAIN idle'[k1], NEW j \in DOMAIN idle'[k2],
                      idle'[k1][i].ws = idle'[k2][j].ws
               PROVE  k1 = k2 /\ i = j
    BY DEF EntriesDiffer
  <2>1. k1 = k2 /\ i + n[k1] = j + n[k2]
    BY <1>2 DEF OInv, EntriesDiffer
  <2> QED
    BY <1>1, <1>2, <2>1
<1>4. ASSUME NEW k \in Key PROVE BucketSockets(k)' \subseteq BucketSockets(k)
  BY <1>2 DEF BucketSockets
<1> QED
  BY <1>3, <1>4

LEMMA ShiftedConnects ==
    ASSUME OInv, TypeOK', NEW n \in [Task -> Nat], ConnectsShifted(n)
    PROVE  ConnectsDiffer' /\ Connected' \subseteq Connected
<1>1. \A t \in Task : \A i \in DOMAIN conn'[t] : i \in Nat /\ n[t] \in Nat
  BY DEF TypeOK
<1>2. ConnectsDiffer'
  <2> SUFFICES ASSUME NEW t1 \in Task, NEW t2 \in Task,
                      NEW i \in DOMAIN conn'[t1], NEW j \in DOMAIN conn'[t2],
                      conn'[t1][i] = conn'[t2][j], conn'[t1][i] \in Ws
               PROVE  t1 = t2 /\ i = j
    BY DEF ConnectsDiffer
  <2>1. t1 = t2 /\ i + n[t1] = j + n[t2]
    BY DEF OInv, ConnectsDiffer, ConnectsShifted
  <2> QED
    BY <1>1, <2>1
<1>3. Connected' \subseteq Connected
  BY DEF Connected, ConnectsShifted
<1> QED
  BY <1>2, <1>3

\* The buckets and the connect tasks as they were.
LEMMA Unshifted ==
    ASSUME OInv
    PROVE  /\ UNCHANGED idle => BucketsShifted([k \in Key |-> 0])
           /\ UNCHANGED conn => ConnectsShifted([t \in Task |-> 0])
<1>1. \A k \in Key : idle[k] \in Seq(Entry)
  BY DEF OInv, IInv, TypeOK
<1>2. \A t \in Task : conn[t] \in Seq(Outcome)
  BY DEF OInv, IInv, TypeOK
<1> QED
  BY <1>1, <1>2 DEF BucketsShifted, ConnectsShifted

LEMMA FewerPlaces ==
    ASSUME OInv, \A k \in Key : BucketSockets(k)' \subseteq BucketSockets(k),
           Connected' \subseteq Connected, held' \subseteq held, closing' \subseteq closing
    PROVE  PlacesDiffer'
<1>1. PlacesDiffer
  BY DEF OInv
<1>2. \A k \in Key : BucketSockets(k)' \cap (Connected \cup held \cup closing)' = {}
  BY <1>1 DEF PlacesDiffer
<1>3. Connected' \cap (held \cup closing)' = {} /\ held' \cap closing' = {}
  BY <1>1 DEF PlacesDiffer
<1> QED
  BY <1>2, <1>3 DEF PlacesDiffer

-----------------------------------------------------------------------------
(* Every step of the pool keeps OInv.                                      *)

\* Steps that only lose sockets.
LEMMA LosingKeeps ==
    ASSUME OInv, IInv', NEW n \in [Key -> Nat], BucketsShifted(n),
           NEW c \in [Task -> Nat], ConnectsShifted(c),
           held' \subseteq held, closing' \subseteq closing
    PROVE  OInv'
<1>1. TypeOK'
  BY DEF IInv
<1>2. EntriesDiffer' /\ \A k \in Key : BucketSockets(k)' \subseteq BucketSockets(k)
  BY <1>1, ShiftedEntries
<1>3. ConnectsDiffer' /\ Connected' \subseteq Connected
  BY <1>1, ShiftedConnects
<1>4. PlacesDiffer'
  BY <1>2, <1>3, FewerPlaces
<1> QED
  BY <1>2, <1>3, <1>4 DEF OInv

\* Finish forgets the connect tasks of a refill that has none left.
LEMMA FinishShifts ==
    ASSUME OInv, NEW t \in Task, Finish(t)
    PROVE  ConnectsShifted([u \in Task |-> 0])
<1>1. \A u \in Task : conn[u] \in Seq(Outcome)
  BY DEF OInv, IInv, TypeOK
<1>2. \A u \in Task : conn'[u] = IF u = t THEN <<>> ELSE conn[u]
  BY DEF Finish, OInv, IInv, TypeOK
<1>3. ASSUME NEW u \in Task, NEW i \in DOMAIN conn'[u]
      PROVE  i + 0 \in DOMAIN conn[u] /\ conn'[u][i] = conn[u][i + 0]
  BY <1>1, <1>2
<1> QED
  BY <1>3 DEF ConnectsShifted

LEMMA ScheduleLeavesConn ==
    ASSUME NEW k \in Key, ScheduleRefill(k) PROVE UNCHANGED conn
  BY DEF ScheduleRefill, NewTask, refillVars

LEMMA WarmupOwned == ASSUME OInv, NEW k \in Key, Warmup(k) PROVE OInv'
<1>1. UNCHANGED <<idle, conn, held, closing>>
  BY ScheduleLeavesConn DEF Warmup
<1>2. IInv'
  BY WarmupKeeps DEF OInv
<1> QED
  BY <1>1, <1>2, Unshifted, LosingKeeps

LEMMA StartRefillOwned == ASSUME OInv, NEW t \in Task, StartRefill(t) PROVE OInv'
<1>1. UNCHANGED <<idle, held, closing>>
  BY DEF StartRefill
<1>2. IInv'
  BY StartRefillKeeps DEF OInv
<1>3. ConnectsShifted([u \in Task |-> 0])
  <2>1. CASE Finish(t)
    BY <2>1, FinishShifts
  <2>2. CASE conn' = [conn EXCEPT ![t] = [i \in 1 .. Needed(t) |-> Pending]]
    <3>1. \A u \in Task : conn[u] \in Seq(Outcome)
      BY DEF OInv, IInv, TypeOK
    <3>2. \A i \in DOMAIN conn'[t] : conn'[t][i] \notin Ws
      BY <2>2, OutcomeAssumption DEF OInv, IInv, TypeOK
    <3>3. \A u \in Task \ {t} : conn'[u] = conn[u]
      BY <2>2 DEF OInv, IInv, TypeOK
    <3> QED
      BY <3>1, <3>2, <3>3 DEF ConnectsShifted
  <2> QED
    BY <2>1, <2>2 DEF StartRefill
<1> QED
  BY <1>1, <1>2, <1>3, Unshifted, LosingKeeps

LEMMA ConnectFailOwned == ASSUME OInv, NEW t \in Task, ConnectFail(t) PROVE OInv'
<1>1. UNCHANGED <<idle, held, closing>>
  BY DEF ConnectFail
<1>2. IInv'
  BY ConnectKeeps DEF OInv
<1>3. PICK i \in DOMAIN conn[t] : conn' = [conn EXCEPT ![t] = [conn[t] EXCEPT ![i] = Failed]]
  BY DEF ConnectFail
<1>4. \A u \in Task : conn[u] \in Seq(Outcome)
  BY DEF OInv, IInv, TypeOK
<1>5. conn'[t] = [conn[t] EXCEPT ![i] = Failed] /\ \A u \in Task \ {t} : conn'[u] = conn[u]
  BY <1>3 DEF OInv, IInv, TypeOK
<1>6. \A u \in Task : \A j \in DOMAIN conn'[u] : conn'[u][j] \in Ws =>
          j + 0 \in DOMAIN conn[u] /\ conn'[u][j] = conn[u][j + 0]
  <2>1. \A j \in DOMAIN conn'[t] : conn'[t][j] \in Ws =>
            j + 0 \in DOMAIN conn[t] /\ conn'[t][j] = conn[t][j + 0]
    BY <1>4, <1>5, OutcomeAssumption
  <2> QED
    BY <1>4, <1>5, <2>1
<1>7. ConnectsShifted([u \in Task |-> 0])
  BY <1>6 DEF ConnectsShifted
<1> QED
  BY <1>1, <1>2, <1>7, Unshifted, LosingKeeps

LEMMA OtherOwned ==
    ASSUME OInv, NEW w \in Ws, QuietClose(w) \/ Release(w) \/ PeerClose(w) PROVE OInv'
<1>1. UNCHANGED <<idle, conn>> /\ held' \subseteq held /\ closing' \subseteq closing
  BY DEF QuietClose, Release, PeerClose
<1>2. IInv'
  BY OtherKeeps DEF OInv
<1> QED
  BY <1>1, <1>2, Unshifted, LosingKeeps

LEMMA TickShifts ==
    ASSUME OInv, Tick
    PROVE  /\ BucketsShifted([k \in Key |-> 0])
           /\ \A k \in Key : BucketSockets(k)' = BucketSockets(k)
<1>1. ASSUME NEW k \in Key
      PROVE  /\ idle[k] \in Seq(Entry)
             /\ Len(idle'[k]) = Len(idle[k]) /\ DOMAIN idle'[k] = DOMAIN idle[k]
             /\ \A i \in DOMAIN idle'[k] : idle'[k][i].ws = idle[k][i].ws /\ i + 0 = i
  <2>1. idle[k] \in Seq(Entry)
    BY DEF OInv, IInv, TypeOK
  <2>2. idle'[k] = [i \in DOMAIN idle[k] |-> [ws |-> idle[k][i].ws, age |-> Older(idle[k][i].age)]]
    BY DEF Tick
  <2>3. idle'[k] \in Seq(Entry) /\ Len(idle'[k]) = Len(idle[k])
    BY <2>1, <2>2, AgedType
  <2> QED
    BY <2>1, <2>2, <2>3
<1>2. BucketsShifted([k \in Key |-> 0])
  BY <1>1 DEF BucketsShifted
<1>3. \A k \in Key : BucketSockets(k)' = BucketSockets(k)
  BY <1>1 DEF BucketSockets
<1> QED
  BY <1>2, <1>3

LEMMA TickOwned == ASSUME OInv, Tick PROVE OInv'
<1>1. UNCHANGED <<conn, held, closing>>
  BY DEF Tick
<1>2. IInv'
  BY TickKeeps DEF OInv
<1> QED
  BY <1>1, <1>2, TickShifts, Unshifted, LosingKeeps

\* get() takes `lent` and `dropped` out of a bucket, and puts nothing into one.
LEMMA TakingKeeps ==
    ASSUME OInv, IInv', NEW n \in [Key -> Nat], BucketsShifted(n), UNCHANGED conn,
           NEW k \in Key, NEW lent, NEW dropped,
           lent \cup dropped \subseteq BucketSockets(k),
           (lent \cup dropped) \cap BucketSockets(k)' = {}, lent \cap dropped = {},
           held' = held \cup lent, closing' = closing \cup dropped
    PROVE  OInv'
<1>1. TypeOK'
  BY DEF IInv
<1>2. EntriesDiffer' /\ \A key \in Key : BucketSockets(key)' \subseteq BucketSockets(key)
  BY <1>1, ShiftedEntries
<1>3. ConnectsDiffer' /\ Connected' \subseteq Connected
  BY <1>1, Unshifted, ShiftedConnects
<1>4. PlacesDiffer
  BY DEF OInv
<1>5. \A key \in Key \ {k} : BucketSockets(key) \cap BucketSockets(k) = {}
  BY DEF OInv, EntriesDiffer, BucketSockets
<1>6. ASSUME NEW key \in Key
      PROVE  BucketSockets(key)' \cap (Connected \cup held \cup closing)' = {}
  <2>1. BucketSockets(key)' \cap (Connected' \cup held \cup closing) = {}
    BY <1>2, <1>3, <1>4 DEF PlacesDiffer
  <2>2. BucketSockets(key)' \cap (lent \cup dropped) = {}
    BY <1>2, <1>5
  <2> QED
    BY <2>1, <2>2
<1>7. Connected' \cap (held \cup closing)' = {}
  BY <1>3, <1>4 DEF PlacesDiffer
<1>8. held' \cap closing' = {}
  BY <1>4 DEF PlacesDiffer
<1>9. PlacesDiffer'
  BY <1>6, <1>7, <1>8 DEF PlacesDiffer
<1> QED
  BY <1>2, <1>3, <1>9 DEF OInv

\* How many entries each bucket loses when one loses i.
Lost(k, i) == [key \in Key |-> IF key = k THEN i ELSE 0]

\* The sockets of the entries in front of the one get() hands out.
Dropped(k, i) == {idle[k][j].ws : j \in 1 .. i - 1}

\* The entries get() hands out or drops, and those it leaves.
LEMMA HitShifts ==
    ASSUME OInv, NEW k \in Key, NEW i \in DOMAIN idle[k],
           idle' = [idle EXCEPT ![k] = SubSeq(idle[k], i + 1, Len(idle[k]))]
    PROVE  /\ BucketsShifted(Lost(k, i))
           /\ {idle[k][i].ws} \cup Dropped(k, i) \subseteq BucketSockets(k)
           /\ {idle[k][i].ws} \cap Dropped(k, i) = {}
           /\ ({idle[k][i].ws} \cup Dropped(k, i)) \cap BucketSockets(k)' = {}
           /\ BucketSockets(k)' = BucketSockets(k) \ ({idle[k][i].ws} \cup Dropped(k, i))
<1> DEFINE lent == {idle[k][i].ws}
           dropped == {idle[k][j].ws : j \in 1 .. i - 1}
<1>1. /\ \A key \in Key : idle[key] \in Seq(Entry)
      /\ idle'[k] = SubSeq(idle[k], i + 1, Len(idle[k]))
      /\ \A key \in Key \ {k} : idle'[key] = idle[key]
  BY DEF OInv, IInv, TypeOK
<1>2. /\ Len(idle'[k]) = Len(idle[k]) - i /\ DOMAIN idle'[k] = 1 .. Len(idle[k]) - i
      /\ \A j \in DOMAIN idle'[k] : idle'[k][j] = idle[k][j + i]
  BY <1>1
<1>3. BucketsShifted(Lost(k, i))
  <2>1. Lost(k, i)[k] = i /\ \A key \in Key \ {k} : Lost(k, i)[key] = 0
    BY DEF Lost
  <2>2. \A key \in Key \ {k} :
            /\ Len(idle'[key]) = Len(idle[key]) - 0
            /\ \A j \in DOMAIN idle'[key] : idle'[key][j].ws = idle[key][j + 0].ws
    BY <1>1
  <2>3. \A j \in DOMAIN idle'[k] : idle'[k][j].ws = idle[k][j + i].ws
    BY <1>2
  <2> SUFFICES ASSUME NEW key \in Key
               PROVE  /\ Len(idle'[key]) = Len(idle[key]) - Lost(k, i)[key]
                      /\ \A j \in DOMAIN idle'[key] :
                            idle'[key][j].ws = idle[key][j + Lost(k, i)[key]].ws
    BY DEF BucketsShifted
  <2>4. CASE key = k
    BY <1>2, <2>1, <2>3, <2>4
  <2>5. CASE key # k
    BY <2>1, <2>2, <2>5
  <2> QED
    BY <2>4, <2>5
<1>4. DOMAIN idle[k] = 1 .. Len(idle[k]) /\ Len(idle[k]) \in Nat
  BY <1>1
<1>5. \A j1, j2 \in DOMAIN idle[k] : idle[k][j1].ws = idle[k][j2].ws => j1 = j2
  BY DEF OInv, EntriesDiffer
<1>6. lent \cup dropped \subseteq BucketSockets(k) /\ lent \cap dropped = {}
  <2>1. i \in DOMAIN idle[k] /\ 1 .. i - 1 \subseteq DOMAIN idle[k] /\ i \notin 1 .. i - 1
    BY <1>4
  <2>2. lent \subseteq BucketSockets(k) /\ dropped \subseteq BucketSockets(k)
    BY <2>1 DEF BucketSockets
  <2>3. \A j \in 1 .. i - 1 : idle[k][j].ws # idle[k][i].ws
    BY <1>5, <2>1
  <2> QED
    BY <2>2, <2>3
<1>7. BucketSockets(k)' = {idle[k][j].ws : j \in i + 1 .. Len(idle[k])}
  <2>1. ASSUME NEW w \in BucketSockets(k)'
        PROVE  w \in {idle[k][j].ws : j \in i + 1 .. Len(idle[k])}
    <3>1. PICK j \in DOMAIN idle'[k] : w = idle'[k][j].ws
      BY DEF BucketSockets
    <3>2. w = idle[k][j + i].ws
      BY <1>2, <3>1
    <3>3. j \in 1 .. Len(idle[k]) - i /\ i \in 1 .. Len(idle[k])
      BY <1>2, <1>4
    <3>4. j + i \in i + 1 .. Len(idle[k])
      BY <1>4, <3>3
    <3> QED
      BY <3>2, <3>4
  <2>2. ASSUME NEW j \in i + 1 .. Len(idle[k])
        PROVE  idle[k][j].ws \in BucketSockets(k)'
    <3>1. j - i \in 1 .. Len(idle[k]) - i /\ (j - i) + i = j
      BY <1>4
    <3>2. j - i \in DOMAIN idle'[k] /\ idle'[k][j - i] = idle[k][j]
      BY <1>2, <3>1
    <3> QED
      BY <3>2 DEF BucketSockets
  <2> QED
    BY <2>1, <2>2
<1>8. /\ (lent \cup dropped) \cap BucketSockets(k)' = {}
      /\ BucketSockets(k)' = BucketSockets(k) \ (lent \cup dropped)
  <2>1. DOMAIN idle[k] = (1 .. i - 1) \cup {i} \cup (i + 1 .. Len(idle[k]))
    BY <1>4
  <2>2. BucketSockets(k) = dropped \cup lent \cup BucketSockets(k)'
    BY <1>7, <2>1, Zenon DEF BucketSockets
  <2>3. \A j \in i + 1 .. Len(idle[k]) : j \in DOMAIN idle[k] /\ j \notin 1 .. i
    BY <1>4
  <2>4. \A j \in 1 .. i : j \in DOMAIN idle[k]
    BY <1>4
  <2>5. \A w \in lent \cup dropped : \E j \in 1 .. i : w = idle[k][j].ws
    BY <1>4
  <2>6. ASSUME NEW w \in lent \cup dropped, w \in BucketSockets(k)' PROVE FALSE
    <3>1. PICK j1 \in 1 .. i : w = idle[k][j1].ws
      BY <2>5
    <3>2. PICK j2 \in i + 1 .. Len(idle[k]) : w = idle[k][j2].ws
      BY <1>7, <2>6
    <3>3. j1 = j2
      BY <1>5, <2>3, <2>4, <3>1, <3>2
    <3> QED
      BY <2>3, <3>3
  <2> QED
    BY <2>2, <2>6
<1> QED
  BY <1>3, <1>6, <1>8 DEF Dropped

LEMMA GetHitOwned == ASSUME OInv, NEW k \in Key, GetHit(k) PROVE OInv'
<1>1. PICK i \in DOMAIN idle[k] :
        /\ Skipped(k, i - 1)
        /\ idle' = [idle EXCEPT ![k] = SubSeq(idle[k], i + 1, Len(idle[k]))]
        /\ held' = held \cup {idle[k][i].ws}
        /\ ScheduleRefill(k)
  BY DEF GetHit
<1> DEFINE n == Lost(k, i)
<1>2. IInv' /\ UNCHANGED conn /\ n \in [Key -> Nat]
  BY <1>1, GetHitKeepsInv, ScheduleLeavesConn DEF OInv, IInv, TypeOK, Lost
<1> DEFINE lent == {idle[k][i].ws}
           dropped == Dropped(k, i)
<1>3. held' = held \cup lent /\ closing' = closing \cup dropped
  BY <1>1 DEF Skipped, Dropped
<1>4. BucketsShifted(n)
  BY <1>1, HitShifts
<1>5. lent \cup dropped \subseteq BucketSockets(k) /\ lent \cap dropped = {}
  BY <1>1, HitShifts
<1>6. (lent \cup dropped) \cap BucketSockets(k)' = {}
  BY <1>1, HitShifts
<1> HIDE DEF n, lent, dropped
<1> QED
  BY <1>2, <1>3, <1>4, <1>5, <1>6, TakingKeeps

LEMMA GetMissOwned == ASSUME OInv, NEW k \in Key, GetMiss(k) PROVE OInv'
<1> DEFINE n == Lost(k, Len(idle[k]))
<1>1. /\ \A key \in Key : idle[key] \in Seq(Entry)
      /\ idle'[k] = <<>> /\ \A key \in Key \ {k} : idle'[key] = idle[key]
  BY DEF GetMiss, OInv, IInv, TypeOK
<1>2. IInv' /\ UNCHANGED conn
  BY GetMissKeeps, ScheduleLeavesConn DEF GetMiss, OInv
<1>3. n \in [Key -> Nat] /\ BucketsShifted(n)
  <2>1. Len(idle[k]) \in Nat /\ Len(idle'[k]) = Len(idle[k]) - Len(idle[k])
        /\ DOMAIN idle'[k] = {}
    BY <1>1
  <2>2. \A key \in Key \ {k} : Len(idle'[key]) = Len(idle[key]) - 0
                              /\ \A i \in DOMAIN idle'[key] : idle'[key][i].ws = idle[key][i + 0].ws
    BY <1>1
  <2>3. n \in [Key -> Nat] /\ n[k] = Len(idle[k]) /\ \A key \in Key \ {k} : n[key] = 0
    BY <2>1 DEF Lost
  <2> HIDE DEF n
  <2> QED
    BY <2>1, <2>2, <2>3 DEF BucketsShifted
<1>4. closing' = closing \cup BucketSockets(k) /\ held' = held \cup {}
  BY <1>1 DEF GetMiss, Skipped, BucketSockets
<1>5. BucketSockets(k)' = {}
  BY <1>1 DEF BucketSockets
<1> HIDE DEF n
<1> QED
  BY <1>2, <1>3, <1>4, <1>5, TakingKeeps

\* A connection that has just been made is in no other place.
LEMMA ConnectOkOwned == ASSUME OInv, NEW t \in Task, ConnectOk(t) PROVE OInv'
<1>1. UNCHANGED <<idle, held, closing>>
  BY DEF ConnectOk
<1>2. IInv'
  BY ConnectKeeps DEF OInv
<1>3. PICK i \in DOMAIN conn[t], w \in Free :
          conn' = [conn EXCEPT ![t] = [conn[t] EXCEPT ![i] = w]]
  BY DEF ConnectOk
<1>4. \A u \in Task : conn[u] \in Seq(Outcome)
  BY DEF OInv, IInv, TypeOK
<1>5. \A u \in Task : /\ DOMAIN conn'[u] = DOMAIN conn[u]
                      /\ \A j \in DOMAIN conn[u] :
                             conn'[u][j] = IF u = t /\ j = i THEN w ELSE conn[u][j]
  BY <1>3, <1>4 DEF OInv, IInv, TypeOK
<1>6. /\ w \in Ws /\ w \notin Connected /\ w \notin held /\ w \notin closing
      /\ \A k \in Key : w \notin BucketSockets(k)
  <2> DEFINE stored == UNION {BucketSockets(k) : k \in Key}
  <2>1. Free = Ws \ (stored \cup Connected \cup held \cup closing)
    BY Zenon DEF Free
  <2>2. w \notin stored => \A k \in Key : w \notin BucketSockets(k)
    BY Zenon
  <2> HIDE DEF stored
  <2>3. w \in Ws /\ w \notin stored /\ w \notin Connected /\ w \notin held /\ w \notin closing
    BY <2>1
  <2> QED
    BY <2>2, <2>3, Zenon
<1>7. \A u \in Task : \A j \in DOMAIN conn[u] : conn[u][j] # w
  BY <1>6 DEF Connected
<1>8. ConnectsDiffer'
  <2> SUFFICES ASSUME NEW t1 \in Task, NEW t2 \in Task,
                      NEW i1 \in DOMAIN conn'[t1], NEW i2 \in DOMAIN conn'[t2],
                      conn'[t1][i1] = conn'[t2][i2], conn'[t1][i1] \in Ws
               PROVE  t1 = t2 /\ i1 = i2
    BY DEF ConnectsDiffer
  <2>1. CASE t1 = t /\ i1 = i
    BY <1>5, <1>7, <2>1
  <2>2. CASE t2 = t /\ i2 = i
    BY <1>5, <1>7, <2>2
  <2>3. CASE ~(t1 = t /\ i1 = i) /\ ~(t2 = t /\ i2 = i)
    BY <1>5, <2>3 DEF OInv, ConnectsDiffer
  <2> QED
    BY <2>1, <2>2, <2>3
<1>9. Connected' \subseteq Connected \cup {w}
  BY <1>5 DEF Connected
<1>10. EntriesDiffer' /\ \A k \in Key : BucketSockets(k)' = BucketSockets(k)
  BY <1>1 DEF OInv, EntriesDiffer, BucketSockets
<1>11. PlacesDiffer'
  <2>1. PlacesDiffer
    BY DEF OInv
  <2>2. \A k \in Key : BucketSockets(k)' \cap (Connected \cup held \cup closing)' = {}
    BY <1>1, <1>6, <1>9, <1>10, <2>1 DEF PlacesDiffer
  <2>3. Connected' \cap (held \cup closing)' = {} /\ held' \cap closing' = {}
    BY <1>1, <1>6, <1>9, <2>1 DEF PlacesDiffer
  <2> QED
    BY <2>2, <2>3 DEF PlacesDiffer
<1> QED
  BY <1>2, <1>8, <1>10, <1>11 DEF OInv

\* What a refill has collected it no longer has among its connect tasks.
Collected(t) == [u \in Task |-> IF u = t THEN 1 ELSE 0]

LEMMA CollectShifts ==
    ASSUME OInv, NEW t \in Task, Collect(t)
    PROVE  /\ ConnectsShifted(Collected(t))
           /\ Head(conn[t]) \in Ws => Head(conn[t]) \in Connected \ Connected'
<1>1. /\ \A u \in Task : conn[u] \in Seq(Outcome)
      /\ conn[t] # <<>>
  BY DEF Collect, OInv, IInv, TypeOK
<1>2. \A u \in Task \ {t} : conn'[u] = conn[u]
  BY DEF Collect, Finish, OInv, IInv, TypeOK
<1>3. DOMAIN conn'[t] = {} \/ conn'[t] = Tail(conn[t])
  BY DEF Collect, Finish, OInv, IInv, TypeOK
<1>4. \A i \in DOMAIN conn'[t] :
          i \in Nat \ {0} /\ i + 1 \in DOMAIN conn[t] /\ conn'[t][i] = conn[t][i + 1]
  <2>1. CASE DOMAIN conn'[t] = {}
    BY <2>1
  <2>2. CASE conn'[t] = Tail(conn[t])
    BY <1>1, <2>2
  <2> QED
    BY <1>3, <2>1, <2>2
<1>5. \A u \in Task \ {t} : \A i \in DOMAIN conn'[u] :
          i + 0 \in DOMAIN conn[u] /\ conn'[u][i] = conn[u][i + 0]
  BY <1>1, <1>2
<1>6. ConnectsShifted(Collected(t))
  BY <1>4, <1>5 DEF ConnectsShifted, Collected
<1>7. ASSUME Head(conn[t]) \in Ws PROVE Head(conn[t]) \in Connected \ Connected'
  <2>1. 1 \in DOMAIN conn[t] /\ conn[t][1] = Head(conn[t])
    BY <1>1
  <2>2. Head(conn[t]) \in Connected
    BY <1>7, <2>1 DEF Connected
  <2>3. ASSUME NEW u \in Task, NEW i \in DOMAIN conn'[u], conn'[u][i] = Head(conn[t])
        PROVE  FALSE
    <3>1. CASE u = t
      <4>1. i + 1 = 1
        BY <1>4, <1>7, <2>1, <2>3, <3>1 DEF OInv, ConnectsDiffer
      <4> QED
        BY <1>4, <3>1, <4>1
    <3>2. CASE u # t
      BY <1>2, <1>7, <2>1, <2>3, <3>2 DEF OInv, ConnectsDiffer
    <3> QED
      BY <3>1, <3>2
  <2> QED
    BY <2>2, <2>3 DEF Connected
<1> QED
  BY <1>6, <1>7

\* The bucket of the refill, before and after it has collected a socket.
LEMMA CollectAppends ==
    ASSUME OInv, NEW t \in Task, NEW k \in Key, keyOf[t] = k, Collect(t), Head(conn[t]) # Failed
    PROVE  /\ Head(conn[t]) \in Ws
           /\ idle[k] \in Seq(Entry)
           /\ idle'[k] = Append(idle[k], [ws |-> Head(conn[t]), age |-> 0])
           /\ \A key \in Key \ {k} : idle'[key] = idle[key]
           /\ BucketSockets(k)' = BucketSockets(k) \cup {Head(conn[t])}
<1> DEFINE ws == Head(conn[t])
<1>1. conn[t] \in Seq(Outcome) /\ conn[t] # <<>> /\ ws # Pending
  BY DEF Collect, OInv, IInv, TypeOK
<1>2. ws \in Ws
  BY <1>1 DEF Outcome
<1>3. idle \in [Key -> Seq(Entry)] /\ idle[k] \in Seq(Entry)
  BY DEF OInv, IInv, TypeOK
<1>4. idle' = [idle EXCEPT ![k] = Append(idle[k], [ws |-> ws, age |-> 0])]
  BY DEF Collect
<1>5. /\ idle'[k] = Append(idle[k], [ws |-> ws, age |-> 0])
      /\ \A key \in Key \ {k} : idle'[key] = idle[key]
  BY <1>3, <1>4
<1>6. [ws |-> ws, age |-> 0] \in Entry
  BY <1>2, MaxAgeAssumption DEF Entry
<1>7. /\ DOMAIN idle'[k] = DOMAIN idle[k] \cup {Len(idle[k]) + 1}
      /\ \A i \in DOMAIN idle[k] : idle'[k][i] = idle[k][i]
      /\ idle'[k][Len(idle[k]) + 1] = [ws |-> ws, age |-> 0]
  BY <1>3, <1>5, <1>6
<1>8. BucketSockets(k)' = BucketSockets(k) \cup {ws}
  <2> DEFINE n == Len(idle[k]) + 1
  <2>1. idle'[k][n].ws = ws
    BY <1>7
  <2>2. {idle'[k][i].ws : i \in DOMAIN idle'[k]} = {idle[k][i].ws : i \in DOMAIN idle[k]} \cup {ws}
    <3> HIDE DEF n, ws
    <3> QED
      BY <1>7, <2>1 DEF n
  <2> QED
    BY <2>2 DEF BucketSockets
<1> QED
  BY <1>2, <1>3, <1>5, <1>8

LEMMA CollectOwned == ASSUME OInv, NEW t \in Task, Collect(t) PROVE OInv'
<1> DEFINE ws == Head(conn[t])
<1>1. UNCHANGED <<held, closing>>
  BY DEF Collect
<1>2. IInv' /\ TypeOK'
  BY CollectKeeps DEF OInv, IInv
<1>3. Collected(t) \in [Task -> Nat] /\ ConnectsShifted(Collected(t))
  BY CollectShifts DEF Collected
<1>4. CASE ws = Failed
  <2>1. UNCHANGED idle
    BY <1>4 DEF Collect
  <2> QED
    BY <1>1, <1>2, <1>3, <2>1, Unshifted, LosingKeeps
<1>5. CASE ws # Failed
  <2> PICK k \in Key : keyOf[t] = k
    BY DEF Collect, OInv, IInv, TypeOK, OneRefillPerKey, Active
  <2>1. /\ ws \in Ws /\ idle[k] \in Seq(Entry)
        /\ idle'[k] = Append(idle[k], [ws |-> ws, age |-> 0])
        /\ \A key \in Key \ {k} : idle'[key] = idle[key]
        /\ BucketSockets(k)' = BucketSockets(k) \cup {ws}
    BY <1>5, CollectAppends
  <2>2. \A key \in Key \ {k} : BucketSockets(key)' = BucketSockets(key)
    BY <2>1 DEF BucketSockets
  <2>3. ConnectsDiffer' /\ Connected' \subseteq Connected
    BY <1>2, <1>3, ShiftedConnects
  <2>4. ws \in Connected \ Connected'
    BY <2>1, CollectShifts
  <2>5. PlacesDiffer
    BY DEF OInv
  <2>6. \A key \in Key : ws \notin BucketSockets(key)
    BY <2>4, <2>5 DEF PlacesDiffer
  <2>7. EntriesDiffer'
    <3>1. [ws |-> ws, age |-> 0] \in Entry
      BY <2>1, MaxAgeAssumption DEF Entry
    <3>2. /\ DOMAIN idle'[k] = DOMAIN idle[k] \cup {Len(idle[k]) + 1}
          /\ \A i \in DOMAIN idle[k] : idle'[k][i] = idle[k][i]
          /\ idle'[k][Len(idle[k]) + 1].ws = ws
      BY <2>1, <3>1
    <3>3. \A key \in Key : \A i \in DOMAIN idle[key] : idle[key][i].ws # ws
      BY <2>6 DEF BucketSockets
    <3>4. ASSUME NEW k1 \in Key, NEW i \in DOMAIN idle'[k1]
          PROVE  \/ k1 = k /\ i = Len(idle[k]) + 1 /\ idle'[k1][i].ws = ws
                 \/ i \in DOMAIN idle[k1] /\ idle'[k1][i].ws = idle[k1][i].ws
      BY <2>1, <3>2
    <3> SUFFICES ASSUME NEW k1 \in Key, NEW k2 \in Key,
                        NEW i \in DOMAIN idle'[k1], NEW j \in DOMAIN idle'[k2],
                        idle'[k1][i].ws = idle'[k2][j].ws
                 PROVE  k1 = k2 /\ i = j
      BY DEF EntriesDiffer
    <3> QED
      BY <3>3, <3>4 DEF OInv, EntriesDiffer
  <2>8. PlacesDiffer'
    <3>1. \A key \in Key : BucketSockets(key)' \cap (Connected \cup held \cup closing)' = {}
      <4>1. BucketSockets(k)' \cap (Connected \cup held \cup closing)' = {}
        BY <1>1, <2>1, <2>3, <2>4, <2>5 DEF PlacesDiffer
      <4>2. \A key \in Key \ {k} : BucketSockets(key)' \cap (Connected \cup held \cup closing)' = {}
        BY <1>1, <2>2, <2>3, <2>5 DEF PlacesDiffer
      <4> QED
        BY <4>1, <4>2
    <3>2. Connected' \cap (held \cup closing)' = {} /\ held' \cap closing' = {}
      BY <1>1, <2>3, <2>5 DEF PlacesDiffer
    <3> QED
      BY <3>1, <3>2 DEF PlacesDiffer
  <2> QED
    BY <1>2, <2>3, <2>7, <2>8 DEF OInv
<1> QED
  BY <1>4, <1>5

-----------------------------------------------------------------------------
(* The first theorem.                                                      *)

LEMMA OwnershipInductive == OInv /\ [Next]_vars => OInv'
<1> SUFFICES ASSUME OInv, [Next]_vars PROVE OInv'
  OBVIOUS
<1>1. CASE \E k \in Key : Warmup(k)
  BY <1>1, WarmupOwned
<1>2. CASE \E k \in Key : GetHit(k) \/ GetMiss(k)
  BY <1>2, GetHitOwned, GetMissOwned
<1>3. CASE \E t \in Task : StartRefill(t) \/ ConnectOk(t) \/ ConnectFail(t) \/ Collect(t)
  BY <1>3, StartRefillOwned, ConnectOkOwned, ConnectFailOwned, CollectOwned
<1>4. CASE \E w \in Ws : QuietClose(w) \/ Release(w) \/ PeerClose(w)
  BY <1>4, OtherOwned
<1>5. CASE Tick
  BY <1>5, TickOwned
<1>6. CASE UNCHANGED vars
  <2>1. UNCHANGED <<idle, conn, held, closing>>
    BY <1>6 DEF vars
  <2>2. IInv'
    BY <1>6 DEF vars, OInv, IInv, TypeOK, OneRefillPerKey, RefillFits, BucketBound, Active
  <2> QED
    BY <2>1, <2>2, Unshifted, LosingKeeps
<1> QED
  BY <1>1, <1>2, <1>3, <1>4, <1>5, <1>6 DEF Next

LEMMA Ownership == Spec => []OInv
<1>1. Init /\ IInv => OInv
  BY DEF Init, OInv, EntriesDiffer, ConnectsDiffer, PlacesDiffer, BucketSockets, Connected
<1>2. QED
  BY <1>1, OwnershipInductive, Invariance, PTL DEF Spec

\* get() of proxy/pool.py never gives one connection to two clients, and never
\* one that a refill or a _quiet_close task still has, for any number of keys,
\* refills, clients and sockets.
THEOREM OneOwner == Spec => []ExclusiveOwner
<1>1. OInv => ExclusiveOwner
  BY DEF OInv, EntriesDiffer, ConnectsDiffer, PlacesDiffer, ExclusiveOwner
<1>2. QED
  BY <1>1, Ownership, PTL

-----------------------------------------------------------------------------
(* WsPool implements SocketStore.                                          *)

\* The store of each key, as the refinement mapping gives it.
Stored == [k \in Key |-> BucketSockets(k)]

\* A bucket of n entries has at most n sockets.
LEMMA BucketCardinality ==
    ASSUME OInv, NEW k \in Key
    PROVE  /\ Cardinality(BucketSockets(k)) \in Nat
           /\ Cardinality(BucketSockets(k)) <= Len(idle[k])
<1>1. idle[k] \in Seq(Entry) /\ Len(idle[k]) \in Nat /\ DOMAIN idle[k] = 1 .. Len(idle[k])
  BY DEF OInv, IInv, TypeOK
<1> DEFINE f == [i \in 1 .. Len(idle[k]) |-> idle[k][i].ws]
<1>2. f \in Surjection(1 .. Len(idle[k]), BucketSockets(k))
  BY <1>1 DEF BucketSockets, Surjection
<1>3. IsFiniteSet(1 .. Len(idle[k])) /\ Cardinality(1 .. Len(idle[k])) = Len(idle[k])
  BY <1>1, FS_Interval
<1>4. /\ IsFiniteSet(BucketSockets(k))
      /\ Cardinality(BucketSockets(k)) <= Cardinality(1 .. Len(idle[k]))
  BY <1>2, <1>3, FS_Surjection
<1>5. Cardinality(BucketSockets(k)) \in Nat
  BY <1>4, FS_CardinalityType
<1> QED
  BY <1>3, <1>4, <1>5

\* A step that changes neither the buckets' sockets nor the clients' is none of
\* the store.
LEMMA StoreStutters ==
    ASSUME \A k \in Key : BucketSockets(k)' = BucketSockets(k), UNCHANGED held
    PROVE  UNCHANGED Store!vars
  BY DEF Store!vars

LEMMA RoomLeft ==
    ASSUME NEW m \in Nat, NEW n \in Nat, NEW c \in Nat \ {0}, m <= n, n + c <= PoolSize
    PROVE  m < PoolSize
  BY PoolSizeAssumption

LEMMA SameBuckets ==
    ASSUME UNCHANGED idle PROVE \A k \in Key : BucketSockets(k)' = BucketSockets(k)
  BY DEF BucketSockets

LEMMA GetHitLends ==
    ASSUME OInv, NEW k \in Key, GetHit(k) PROVE Store!Next
<1>1. PICK i \in DOMAIN idle[k] :
        /\ idle' = [idle EXCEPT ![k] = SubSeq(idle[k], i + 1, Len(idle[k]))]
        /\ held' = held \cup {idle[k][i].ws}
  BY DEF GetHit
<1> DEFINE w == idle[k][i].ws
           dropped == Dropped(k, i)
<1>2. /\ {w} \cup dropped \subseteq BucketSockets(k) /\ {w} \cap dropped = {}
      /\ BucketSockets(k)' = BucketSockets(k) \ ({w} \cup dropped)
  BY <1>1, HitShifts
<1>3. \A key \in Key \ {k} : BucketSockets(key)' = BucketSockets(key)
  BY <1>1 DEF BucketSockets, OInv, IInv, TypeOK
<1>4. w \in Ws
  BY EntrySocket DEF OInv, IInv, TypeOK
<1> HIDE DEF w, dropped
<1>5. Stored' = [Stored EXCEPT ![k] = @ \ (dropped \cup {w})]
  BY <1>2, <1>3 DEF Stored
<1>6. dropped \in SUBSET BucketSockets(k) /\ w \in Stored[k] /\ dropped \subseteq Stored[k] \ {w}
  BY <1>2 DEF Stored
<1>7. held' = held \cup {w}
  BY <1>1 DEF w
<1>8. Store!Lend(k, w, dropped)
  BY <1>5, <1>6, <1>7 DEF Stored, Store!Lend
<1> QED
  BY <1>4, <1>6, <1>8 DEF Stored, Store!Next

LEMMA GetMissDrops ==
    ASSUME OInv, NEW k \in Key, GetMiss(k) PROVE Store!Next
<1>1. idle' = [idle EXCEPT ![k] = <<>>] /\ UNCHANGED held
  BY DEF GetMiss
<1>2. BucketSockets(k)' = {} /\ \A key \in Key \ {k} : BucketSockets(key)' = BucketSockets(key)
  BY <1>1 DEF BucketSockets, OInv, IInv, TypeOK
<1>3. Stored' = [Stored EXCEPT ![k] = {}]
  BY <1>2 DEF Stored
<1>4. Store!Drop(k)
  BY <1>1, <1>3 DEF Stored, Store!Drop
<1> QED
  BY <1>4 DEF Store!Next

\* RefillFits says that there is room for what a refill collects, and the one
\* place a socket has that the store does not have it yet.
LEMMA CollectDeposits ==
    ASSUME OInv, NEW t \in Task, Collect(t), Head(conn[t]) # Failed PROVE Store!Next
<1> DEFINE ws == Head(conn[t])
<1> PICK k \in Key : keyOf[t] = k
  BY DEF Collect, OInv, IInv, TypeOK, OneRefillPerKey, Active
<1>1. /\ ws \in Ws /\ idle[k] \in Seq(Entry)
      /\ \A key \in Key \ {k} : idle'[key] = idle[key]
      /\ BucketSockets(k)' = BucketSockets(k) \cup {ws}
  BY CollectAppends
<1>2. \A key \in Key \ {k} : BucketSockets(key)' = BucketSockets(key)
  BY <1>1 DEF BucketSockets
<1>3. UNCHANGED held
  BY DEF Collect
<1>4. ws \in Connected
  BY <1>1, CollectShifts
<1>5. ws \notin held /\ \A key \in Key : ws \notin BucketSockets(key)
  BY <1>4 DEF OInv, PlacesDiffer
<1>6. Cardinality(BucketSockets(k)) < PoolSize
  <2>1. Len(conn[t]) \in Nat \ {0} /\ Len(idle[k]) \in Nat
    BY <1>1 DEF Collect, OInv, IInv, TypeOK
  <2>2. Len(idle[k]) + Len(conn[t]) <= PoolSize
    BY DEF Collect, OInv, IInv, RefillFits
  <2>3. /\ Cardinality(BucketSockets(k)) \in Nat
        /\ Cardinality(BucketSockets(k)) <= Len(idle[k])
    BY BucketCardinality
  <2> QED
    BY <2>1, <2>2, <2>3, RoomLeft
<1> HIDE DEF ws
<1>7. Stored' = [Stored EXCEPT ![k] = @ \cup {ws}]
  BY <1>1, <1>2 DEF Stored
<1>8. Store!Deposit(k, ws)
  <2>1. /\ ws \notin held
        /\ \A other \in Key : ws \notin Stored[other]
        /\ Cardinality(Stored[k]) < PoolSize
    BY <1>5, <1>6 DEF Stored
  <2>2. Store!Cardinality(Stored[k]) = Cardinality(Stored[k])
    BY Zenon DEF Cardinality, Store!Cardinality
  <2> QED
    BY <1>3, <1>7, <2>1, <2>2, Zenon DEF Stored, Store!Deposit
<1> QED
  BY <1>1, <1>8 DEF Store!Next

\* Every step of the pool is one of the store, or leaves it alone.
LEMMA StepSimulation == OInv /\ [Next]_vars => [Store!Next]_(Store!vars)
<1> SUFFICES ASSUME OInv, [Next]_vars PROVE Store!Next \/ UNCHANGED Store!vars
  OBVIOUS
<1>1. CASE UNCHANGED <<idle, held>>
  BY <1>1, SameBuckets, StoreStutters
<1>2. CASE \E k \in Key : GetHit(k) \/ GetMiss(k)
  BY <1>2, GetHitLends, GetMissDrops
<1>3. ASSUME NEW t \in Task, Collect(t) PROVE Store!Next \/ UNCHANGED <<idle, held>>
  <2>1. CASE Head(conn[t]) = Failed
    BY <1>3, <2>1 DEF Collect
  <2>2. CASE Head(conn[t]) # Failed
    BY <1>3, <2>2, CollectDeposits
  <2> QED
    BY <2>1, <2>2
<1>4. ASSUME NEW w \in Ws, Release(w) PROVE Store!Next
  <2>1. UNCHANGED idle /\ w \in held /\ held' = held \ {w}
    BY <1>4 DEF Release
  <2>2. UNCHANGED Stored
    BY <2>1, SameBuckets DEF Stored
  <2>3. Store!Return(w)
    BY <2>1, <2>2 DEF Stored, Store!Return
  <2> QED
    BY <2>3 DEF Store!Next
<1>5. CASE Tick
  <2>1. UNCHANGED held
    BY <1>5 DEF Tick
  <2> QED
    BY <1>5, <2>1, TickShifts, StoreStutters
<1>6. \/ UNCHANGED <<idle, held>>
      \/ \E k \in Key : GetHit(k) \/ GetMiss(k)
      \/ \E t \in Task : Collect(t)
      \/ \E w \in Ws : Release(w)
      \/ Tick
  BY DEF Next, vars, Warmup, StartRefill, ConnectOk, ConnectFail, QuietClose, PeerClose
<1> QED
  BY <1>1, <1>2, <1>3, <1>4, <1>5, <1>6

\* proxy/pool.py does what a store of sockets promises, however its refills,
\* connects, closes and get() calls interleave.
THEOREM PoolImplementsStore == Spec => ImplementsStore
<1>1. Init => Store!Init
  BY DEF Init, Store!Init, BucketSockets
<1>2. QED
  BY <1>1, StepSimulation, Ownership, PTL DEF Spec, ImplementsStore, Store!Spec

-----------------------------------------------------------------------------
(* Nothing too old is left behind what get() hands out.                    *)

\* What get() relies on when it stops at the first usable entry: a bucket is in
\* the order in which its connections were made.
OldestFirst ==
    \A k \in Key : \A i, j \in DOMAIN idle[k] : i < j => idle[k][i].age >= idle[k][j].age

SweptInv == IInv /\ OldestFirst

\* The buckets get() has not searched are as they were, and the one it has
\* searched has lost what was in front, up to and with the entry it handed out.
LEMMA HitLeaves ==
    ASSUME TypeOK, NEW k \in Key, NEW i \in DOMAIN idle[k],
           idle' = [idle EXCEPT ![k] = SubSeq(idle[k], i + 1, Len(idle[k]))]
    PROVE  /\ \A key \in Key \ {k} : idle'[key] = idle[key]
           /\ \A j \in DOMAIN idle'[k] :
                 j \in Nat \ {0} /\ j + i \in DOMAIN idle[k] /\ idle'[k][j] = idle[k][j + i]
<1>1. idle[k] \in Seq(Entry) /\ idle'[k] = SubSeq(idle[k], i + 1, Len(idle[k]))
  BY DEF TypeOK
<1>2. \A key \in Key \ {k} : idle'[key] = idle[key]
  BY DEF TypeOK
<1>3. \A j \in DOMAIN idle'[k] :
          j \in Nat \ {0} /\ j + i \in DOMAIN idle[k] /\ idle'[k][j] = idle[k][j + i]
  BY <1>1
<1> QED
  BY <1>2, <1>3

\* The ages of the entries of a bucket can be compared.
LEMMA AgesTyped ==
    ASSUME TypeOK
    PROVE  \A k \in Key : \A i \in DOMAIN idle[k] : i \in Nat /\ idle[k][i].age \in 0 .. MaxAge + 1
<1> SUFFICES ASSUME NEW k \in Key, NEW i \in DOMAIN idle[k]
             PROVE  i \in Nat /\ idle[k][i].age \in 0 .. MaxAge + 1
  OBVIOUS
<1>1. idle[k] \in Seq(Entry)
  BY DEF TypeOK
<1>2. i \in Nat /\ idle[k][i] \in Entry
  BY <1>1
<1> QED
  BY <1>2 DEF Entry

\* get() takes from the front, so that the order stays.
LEMMA HitOrdered ==
    ASSUME TypeOK, OldestFirst, NEW k \in Key, GetHit(k)
    PROVE  OldestFirst'
<1>1. PICK i \in DOMAIN idle[k] :
          idle' = [idle EXCEPT ![k] = SubSeq(idle[k], i + 1, Len(idle[k]))]
  BY DEF GetHit
<1>2. /\ \A key \in Key \ {k} : idle'[key] = idle[key]
      /\ \A j \in DOMAIN idle'[k] :
            j \in Nat \ {0} /\ j + i \in DOMAIN idle[k] /\ idle'[k][j] = idle[k][j + i]
  BY <1>1, HitLeaves
<1>3. i \in Nat
  BY AgesTyped
<1> SUFFICES ASSUME NEW key \in Key, NEW j1 \in DOMAIN idle'[key], NEW j2 \in DOMAIN idle'[key],
                    j1 < j2
             PROVE  idle'[key][j1].age >= idle'[key][j2].age
  BY DEF OldestFirst
<1>4. CASE key = k
  <2>1. j1 + i < j2 + i
    BY <1>2, <1>3, <1>4
  <2> QED
    BY <1>2, <1>4, <2>1 DEF OldestFirst
<1>5. CASE key # k
  BY <1>2, <1>5 DEF OldestFirst
<1> QED
  BY <1>4, <1>5

\* The entry a refill puts behind the others is the youngest.
LEMMA CollectOrdered ==
    ASSUME TypeOK, OldestFirst, NEW t \in Task, Collect(t)
    PROVE  OldestFirst'
<1> DEFINE ws == Head(conn[t])
           e == [ws |-> ws, age |-> 0]
<1>1. CASE UNCHANGED idle
  BY <1>1 DEF OldestFirst
<1>2. CASE ws # Failed
  <2>1. idle' = [idle EXCEPT ![keyOf[t]] = Append(idle[keyOf[t]], e)]
    BY <1>2 DEF Collect
  <2>2. e.age = 0
    OBVIOUS
  <2> HIDE DEF e, ws
  <2> SUFFICES ASSUME NEW k \in Key, NEW i \in DOMAIN idle'[k], NEW j \in DOMAIN idle'[k], i < j
               PROVE  idle'[k][i].age >= idle'[k][j].age
    BY DEF OldestFirst
  <2>3. CASE keyOf[t] # k
    <3>1. idle'[k] = idle[k]
      BY <2>1, <2>3 DEF TypeOK
    <3> QED
      BY <3>1 DEF OldestFirst
  <2>4. CASE keyOf[t] = k
    <3>1. idle'[k] = Append(idle[k], e) /\ idle[k] \in Seq(Entry)
      BY <2>1, <2>4 DEF TypeOK
    <3>2. /\ DOMAIN idle'[k] = 1 .. Len(idle[k]) + 1
          /\ DOMAIN idle[k] = 1 .. Len(idle[k]) /\ Len(idle[k]) \in Nat
          /\ \A n \in DOMAIN idle[k] : idle'[k][n] = idle[k][n]
          /\ idle'[k][Len(idle[k]) + 1] = e
      BY <3>1
    <3>3. i \in DOMAIN idle[k] /\ (j \in DOMAIN idle[k] \/ j = Len(idle[k]) + 1)
      BY <3>2
    <3>4. CASE j \in DOMAIN idle[k]
      BY <3>2, <3>3, <3>4 DEF OldestFirst
    <3>5. CASE j = Len(idle[k]) + 1
      <4>1. idle[k][i].age >= 0
        BY <3>3, AgesTyped, MaxAgeAssumption
      <4> QED
        BY <2>2, <3>2, <3>3, <3>5, <4>1
    <3> QED
      BY <3>3, <3>4, <3>5
  <2> QED
    BY <2>3, <2>4
<1> QED
  BY <1>1, <1>2 DEF Collect

\* Time passes for all entries alike.
LEMMA TickOrdered == ASSUME TypeOK, OldestFirst, Tick PROVE OldestFirst'
<1> SUFFICES ASSUME NEW k \in Key, NEW i \in DOMAIN idle'[k], NEW j \in DOMAIN idle'[k], i < j
             PROVE  idle'[k][i].age >= idle'[k][j].age
  BY DEF OldestFirst
<1>1. /\ DOMAIN idle'[k] = DOMAIN idle[k]
      /\ idle'[k][i].age = Older(idle[k][i].age) /\ idle'[k][j].age = Older(idle[k][j].age)
  BY DEF Tick
<1> DEFINE a == idle[k][i].age
           b == idle[k][j].age
<1>2. a >= b /\ a \in 0 .. MaxAge + 1 /\ b \in 0 .. MaxAge + 1
  BY <1>1, AgesTyped DEF OldestFirst
<1> HIDE DEF a, b
<1>3. Older(a) >= Older(b)
  BY <1>2, MaxAgeAssumption DEF Older
<1> QED
  BY <1>1, <1>3 DEF a, b

\* Every step keeps the order of the buckets.
LEMMA SweptInductive == SweptInv /\ [Next]_vars /\ IInv' => SweptInv'
<1> SUFFICES ASSUME IInv, OldestFirst, [Next]_vars PROVE OldestFirst'
  BY DEF SweptInv
<1> USE DEF IInv
<1>1. CASE UNCHANGED idle
  BY <1>1 DEF OldestFirst
<1>2. ASSUME NEW k \in Key, GetHit(k) PROVE OldestFirst'
  BY <1>2, HitOrdered
<1>3. ASSUME NEW k \in Key, GetMiss(k) PROVE OldestFirst'
  <2>1. idle'[k] = <<>> /\ \A key \in Key \ {k} : idle'[key] = idle[key]
    BY <1>3 DEF GetMiss, TypeOK
  <2> QED
    BY <2>1 DEF OldestFirst
<1>4. ASSUME NEW t \in Task, Collect(t) PROVE OldestFirst'
  BY <1>4, CollectOrdered
<1>5. CASE Tick
  BY <1>5, TickOrdered
<1> QED
  BY <1>1, <1>2, <1>3, <1>4, <1>5
  DEF Next, Warmup, StartRefill, ConnectOk, ConnectFail, QuietClose, Release, PeerClose, vars

\* The property a step of StaleSwept has.
SweptStep ==
    \A k \in Key : held' # held /\ Len(idle'[k]) < Len(idle[k]) =>
        \A i \in DOMAIN idle'[k] : idle'[k][i].age <= MaxAge

\* Only get() takes an entry and gives it to a handler in one step, and what it
\* leaves in the bucket is no older.
LEMMA StepSweeps == SweptInv /\ [Next]_vars => SweptStep
<1> SUFFICES ASSUME IInv, OldestFirst, [Next]_vars,
                    NEW k \in Key, held' # held, Len(idle'[k]) < Len(idle[k]),
                    NEW j \in DOMAIN idle'[k]
             PROVE  idle'[k][j].age <= MaxAge
  BY DEF SweptInv, SweptStep
<1> USE DEF IInv
<1>1. idle'[k] # idle[k]
  <2>1. Len(idle[k]) \in Nat
    BY DEF TypeOK
  <2> QED
    BY <2>1
<1>2. PICK key \in Key : GetHit(key)
  BY <1>1 DEF Next, Warmup, GetMiss, StartRefill, ConnectOk, ConnectFail, Collect,
     QuietClose, Release, PeerClose, Tick, vars
<1>3. PICK i \in DOMAIN idle[key] :
          /\ Usable(idle[key][i])
          /\ idle' = [idle EXCEPT ![key] = SubSeq(idle[key], i + 1, Len(idle[key]))]
  BY <1>2 DEF GetHit
<1>4. /\ \A other \in Key \ {key} : idle'[other] = idle[other]
      /\ \A n \in DOMAIN idle'[key] :
            n \in Nat \ {0} /\ n + i \in DOMAIN idle[key] /\ idle'[key][n] = idle[key][n + i]
  BY <1>3, HitLeaves
<1>5. key = k
  BY <1>1, <1>4
<1>6. i \in Nat /\ i < j + i /\ idle[k][i].age \in 0 .. MaxAge + 1
      /\ idle[k][j + i].age \in 0 .. MaxAge + 1
  BY <1>4, <1>5, AgesTyped
<1>7. idle[k][i].age >= idle[k][j + i].age
  BY <1>4, <1>5, <1>6 DEF OldestFirst
<1>8. idle[k][i].age <= MaxAge
  BY <1>3, <1>5 DEF Usable
<1>9. idle'[k][j].age = idle[k][j + i].age
  BY <1>4, <1>5
<1> DEFINE a == idle[k][i].age
           b == idle[k][j + i].age
<1> HIDE DEF a, b
<1>10. b <= MaxAge
  BY <1>6, <1>7, <1>8, MaxAgeAssumption DEF a, b
<1> QED
  BY <1>9, <1>10 DEF b

\* get() of proxy/pool.py stops at the first entry it can use; whatever refills
\* and time have done to the bucket, nothing too old is left behind that entry.
THEOREM NothingStaleLeft == Spec => StaleSwept
<1>1. Init => OldestFirst
  BY DEF Init, OldestFirst
<1>2. SweptInv /\ [Next]_vars => [SweptStep]_vars
  BY StepSweeps
<1> QED
  BY <1>1, <1>2, SweptInductive, Invariance, PTL DEF Spec, SweptInv, StaleSwept, SweptStep

=============================================================================
