--------------------------- MODULE ServicesProofs ---------------------------
(***************************************************************************)
(* The two daemons that serve clients over a socket, luna-ai-d and         *)
(* mahina-control-d, keep what their modules promise for any number of     *)
(* clients and any requests.  They share no state: each part is an         *)
(* inductive invariant of its own.                                         *)
(***************************************************************************)
EXTENDS AiDaemon, ControlDaemon, FiniteSetTheorems, WellFoundedInduction, TLAPS

\* A leaf that names no prover goes to SMT, to Zenon and to SMT once more, the
\* solver's encoding being limited by the clock.
USE SMTT(30), Zenon, SMTT(60)

(* mahina-control-d's IdempotencyStore, module ControlDaemon.              *)

ControlSpec == ControlInit /\ [][ControlNext]_control

\* A run has its answer in the store, but for the one about to be put there.
Stored == IF stage = "store" /\ Remembered(req) THEN Len(runs) - 1 ELSE Len(runs)

Ids  == {r.id : r \in Asking \cup {NoRequest}}
Runs == [id : Ids, ok : BOOLEAN]

StoreTypes ==
  /\ line \in [Users -> Asking \cup {NoRequest}]
  /\ req \in Asking \cup {NoRequest}
  /\ incoming \in Seq(Users)
  /\ stage \in {"read_line", "dispatch", "store", "reply"} => peer \in Users
  /\ queue \in Seq(Ids)
  /\ runs \in Seq(Runs)

\* The queue has the ids of the last runs, each once, and the map their
\* answers; one is missing only if Capacity others are there.
QueueInv ==
  /\ Len(queue) <= Stored
  /\ \A j \in 1 .. Len(queue) : queue[j] = runs[Stored - Len(queue) + j].id
  /\ \A i, j \in 1 .. Len(queue) : queue[i] = queue[j] => i = j
  /\ DOMAIN entries = {queue[j] : j \in 1 .. Len(queue)}
  /\ Len(queue) = Stored \/ Len(queue) >= Capacity

\* An answer of the last run of this id.
Latest(answer, id) ==
  /\ answer.run \in DOMAIN runs
  /\ runs[answer.run] = [id |-> id, ok |-> answer.ok]
  /\ \A k \in DOMAIN runs : k > answer.run => runs[k].id # id

AnswersInv ==
  /\ \A id \in DOMAIN entries : Latest(entries[id], id)
  /\ stage \in {"dispatch", "store"} /\ Remembered(req) => req.id \notin DOMAIN entries
  /\ stage = "store" /\ Remembered(req) =>
       response.run = Len(runs) /\ Latest(response, req.id)
  /\ stage = "reply" /\ Remembered(req) => Latest(response, req.id)

\* The first half of RetriesAreSafe.
Spaced ==
  \A i, j \in DOMAIN runs : (i < j /\ runs[i].id = runs[j].id) =>
    Cardinality({runs[k].id : k \in i+1 .. j-1}) >= Capacity

ControlInv == StoreTypes /\ QueueInv /\ AnswersInv /\ Spaced

\* The store of answers is empty when mahina-control-d starts.
LEMMA StoreStarts == ControlInit => ControlInv
<1> SUFFICES ASSUME ControlInit PROVE ControlInv
  OBVIOUS
<1>1. StoreTypes
  BY DEF ControlInit, StoreTypes
<1>2. QueueInv
  BY DEF ControlInit, QueueInv, Stored
<1>3. AnswersInv
  BY DEF ControlInit, AnswersInv
<1>4. Spaced
  BY DEF ControlInit, Spaced
<1> QED
  BY <1>1, <1>2, <1>3, <1>4 DEF ControlInv

\* A step that leaves the store and the runs alone, and neither ends nor
\* begins the handling of a request, keeps what is known of them.
LEMMA StoreIsLeft ==
  ASSUME QueueInv, AnswersInv, Spaced, UNCHANGED <<queue, entries, runs>>,
         \/ UNCHANGED <<req, stage, response>>
         \/ stage \notin {"store"} /\ stage' \notin {"dispatch", "store", "reply"}
  PROVE  QueueInv' /\ AnswersInv' /\ Spaced'
<1>1. Stored' = Stored
  BY DEF Stored
<1>2. QueueInv'
  BY <1>1 DEF QueueInv
<1>3. AnswersInv'
  BY DEF AnswersInv, Latest
<1>4. Spaced'
  BY DEF Spaced
<1> QED
  BY <1>2, <1>3, <1>4

\* The ids in the queue are as many as its entries.
LEMMA QueueCount ==
  ASSUME StoreTypes, QueueInv
  PROVE  /\ IsFiniteSet(DOMAIN entries)
         /\ Cardinality(DOMAIN entries) = Len(queue)
<1> DEFINE n == Len(queue)
<1> DEFINE f == [k \in 1 .. n |-> queue[k]]
<1>1. n \in Nat
  BY DEF StoreTypes
<1>2. DOMAIN entries = {queue[k] : k \in 1 .. n}
  BY DEF QueueInv
<1>3. \A i, j \in 1 .. n : queue[i] = queue[j] => i = j
  BY DEF QueueInv
<1> HIDE DEF n
<1>4. f \in Bijection(1 .. n, DOMAIN entries)
  <2>1. f \in [1 .. n -> DOMAIN entries]
    BY <1>2
  <2>2. \A i, j \in 1 .. n : f[i] = f[j] => i = j
    BY <1>3
  <2>3. \A t \in DOMAIN entries : \E k \in 1 .. n : f[k] = t
    BY <1>2
  <2> HIDE DEF f
  <2> QED
    BY <2>1, <2>2, <2>3 DEF Bijection, Injection, Surjection, IsInjective
<1>5. ExistsBijection(1 .. n, DOMAIN entries)
  BY <1>4 DEF ExistsBijection
<1>6. Cardinality(DOMAIN entries) = n
  BY <1>1, <1>5, FS_CountingElements
<1>7. IsFiniteSet(DOMAIN entries)
  BY <1>1, <1>5, FS_NatBijection
<1> QED
  BY <1>6, <1>7 DEF n

\* Dispatch runs an id the store does not have: Capacity others were run since
\* it was run before.
LEMMA DispatchKeeps ==
  ASSUME ControlInv, Dispatch
  PROVE  ControlInv'
<1> USE DEF ControlInv
<1> PICK ok \in BOOLEAN :
      /\ runs' = IF Remembered(req) THEN Append(runs, [id |-> req.id, ok |-> ok]) ELSE runs
      /\ response' = [ok |-> ok, code |-> IF ok THEN 0 ELSE 500, run |-> Len(runs')]
  BY DEF Dispatch
<1>0. /\ stage = "dispatch" /\ stage' = "store"
      /\ UNCHANGED <<line, incoming, peer, req, queue, entries>>
  BY DEF Dispatch, store
<1>a. response'.ok = ok /\ response'.run = Len(runs')
  OBVIOUS
<1> PICK x : x = req.id
  OBVIOUS
<1> PICK r : r = [id |-> x, ok |-> ok]
  OBVIOUS
<1>b. r \in Runs /\ r.id = x
  BY DEF Runs, StoreTypes, Ids
<1> DEFINE m == Len(runs)
<1>c. m \in Nat /\ Stored = m
  BY <1>0 DEF StoreTypes, Stored
<1>1. CASE ~Remembered(req)
  <2>1. runs' = runs /\ ~Remembered(req)'
    BY <1>0, <1>1 DEF Remembered, is_mutating
  <2>2. StoreTypes'
    BY <1>0, <2>1 DEF StoreTypes
  <2>3. Stored' = Stored
    BY <1>0, <2>1 DEF Stored
  <2>4. QueueInv'
    BY <1>0, <2>1, <2>3 DEF QueueInv
  <2>5. AnswersInv'
    BY <1>0, <2>1 DEF AnswersInv, Latest
  <2>6. Spaced'
    BY <2>1 DEF Spaced
  <2> QED
    BY <2>2, <2>4, <2>5, <2>6
<1>2. CASE Remembered(req)
  <2>1. runs' = Append(runs, r) /\ Remembered(req)' /\ x \notin DOMAIN entries
    BY <1>0, <1>2 DEF Remembered, is_mutating, AnswersInv
  <2>2. /\ runs' \in Seq(Runs) /\ Len(runs') = m + 1 /\ DOMAIN runs' = 1 .. m + 1
        /\ DOMAIN runs = 1 .. m
        /\ runs'[m + 1] = r /\ \A k \in 1 .. m : runs'[k] = runs[k]
    BY <1>b, <2>1 DEF StoreTypes
  <2>3. StoreTypes'
    BY <1>0, <2>2 DEF StoreTypes
  <2>4. Stored' = m
    BY <1>0, <1>c, <2>1, <2>2 DEF Stored
  <2>5. Len(queue) \in Nat
    BY DEF StoreTypes
  <2> HIDE DEF m
  <2>6. QueueInv'
    BY <1>0, <1>c, <2>2, <2>4, <2>5 DEF QueueInv
  <2>7. AnswersInv'
    <3>1. \A id \in DOMAIN entries : Latest(entries[id], id)'
      <4> SUFFICES ASSUME NEW id \in DOMAIN entries PROVE Latest(entries[id], id)'
        OBVIOUS
      <4>1. Latest(entries[id], id) /\ id # x
        BY <2>1 DEF AnswersInv
      <4> QED
        BY <1>0, <1>b, <1>c, <2>2, <4>1 DEF Latest
    <3>2. Latest(response, req.id)'
      BY <1>0, <1>a, <1>c, <2>2 DEF Latest
    <3> QED
      BY <1>0, <1>a, <2>1, <3>1, <3>2 DEF AnswersInv
  <2>8. Spaced'
    <3> SUFFICES ASSUME NEW i \in 1 .. m + 1, NEW j \in 1 .. m + 1, i < j,
                        runs'[i].id = runs'[j].id
                 PROVE  Cardinality({runs'[k].id : k \in i+1 .. j-1}) >= Capacity
      BY <2>2, Zenon DEF Spaced
    <3>1. CASE j \in 1 .. m
      <4>1. {runs'[k].id : k \in i+1 .. j-1} = {runs[k].id : k \in i+1 .. j-1}
        BY <1>c, <2>2, <3>1
      <4>2. i \in DOMAIN runs /\ j \in DOMAIN runs /\ runs[i].id = runs[j].id
        BY <1>c, <2>2, <3>1
      <4> QED
        BY <4>1, <4>2 DEF Spaced
    <3>2. CASE j = m + 1
      <4> DEFINE L == Len(queue)
      <4> DEFINE T == {runs'[k].id : k \in i+1 .. m}
      <4>1. i \in 1 .. m /\ runs[i].id = x
        BY <1>b, <1>c, <2>2, <3>2
      <4>2. /\ L \in Nat /\ L <= m
            /\ \A k \in 1 .. L : queue[k] = runs[m - L + k].id
            /\ DOMAIN entries = {queue[k] : k \in 1 .. L}
            /\ L = m \/ L >= Capacity
        BY <1>c, <2>5 DEF QueueInv
      <4> HIDE DEF L
      <4>3. i <= m - L
        <5>1. SUFFICES ASSUME i > m - L PROVE FALSE
          BY <1>c, <4>1, <4>2
        <5>2. i - (m - L) \in 1 .. L /\ m - L + (i - (m - L)) = i
          BY <1>c, <4>1, <4>2, <5>1
        <5>3. queue[i - (m - L)] = x
          BY <4>1, <4>2, <5>2
        <5> QED
          BY <2>1, <4>2, <5>2, <5>3
      <4>4. L >= Capacity
        BY <1>c, <4>1, <4>2, <4>3
      <4>5. DOMAIN entries \subseteq T
        <5> SUFFICES ASSUME NEW k \in 1 .. L PROVE queue[k] \in T
          BY <4>2, Zenon
        <5>1. m - L + k \in i+1 .. m /\ m - L + k \in 1 .. m
          BY <1>c, <4>1, <4>2, <4>3
        <5>2. queue[k] = runs'[m - L + k].id
          BY <2>2, <4>2, <5>1, Zenon
        <5> QED
          BY <5>1, <5>2, Zenon
      <4>6. IsFiniteSet(T)
        <5> DEFINE f == [k \in i+1 .. m |-> runs'[k].id]
        <5>1. f \in Surjection(i+1 .. m, T)
          BY Zenon DEF Surjection
        <5>2. IsFiniteSet(i+1 .. m)
          BY <1>c, <4>1, FS_Interval
        <5> HIDE DEF f, T
        <5> QED
          BY ONLY <5>1, <5>2, FS_Surjection
      <4>7. Cardinality(DOMAIN entries) <= Cardinality(T)
        BY <4>5, <4>6, FS_Subset, Zenon
      <4>8. Cardinality(DOMAIN entries) = L
        BY QueueCount DEF L
      <4>9. Cardinality(T) \in Nat
        BY <4>6, FS_CardinalityType, Zenon
      <4>10. j - 1 = m
        BY <1>c, <3>2
      <4>11. {runs'[k].id : k \in i+1 .. j-1} = T
        BY <4>10, Zenon
      <4> HIDE DEF T
      <4>12. Cardinality(T) >= Capacity
        BY ONLY <4>2, <4>4, <4>7, <4>8, <4>9, ControlAssumption, SMTT(30), SMTT(60)
      <4> QED
        BY <4>11, <4>12, Zenon
    <3>3. j \in 1 .. m \/ j = m + 1
      BY <1>c
    <3> QED
      BY <3>1, <3>2, <3>3, Zenon
  <2> QED
    BY <2>3, <2>6, <2>7, <2>8
<1> QED
  BY <1>1, <1>2

\* Insert: the id goes to the end of the queue, the oldest making room.
LEMMA StoreKeeps ==
  ASSUME ControlInv, Store
  PROVE  ControlInv'
<1> USE DEF ControlInv
<1>0. /\ stage = "store" /\ stage' = "reply"
      /\ UNCHANGED <<line, incoming, peer, req, response, runs>>
  BY DEF Store
<1>a. Stored' = Len(runs) /\ Len(runs) \in Nat
  BY <1>0 DEF Stored, StoreTypes
<1>b. Spaced'
  BY <1>0 DEF Spaced
<1>1. CASE ~Remembered(req)
  <2>1. UNCHANGED <<queue, entries>> /\ ~Remembered(req)'
    BY <1>0, <1>1 DEF Store, store, Remembered, is_mutating
  <2>2. StoreTypes'
    BY <1>0, <2>1 DEF StoreTypes
  <2>3. Stored' = Stored
    BY <1>0, <1>1, <1>a DEF Stored
  <2>4. QueueInv'
    BY <1>0, <2>1, <2>3 DEF QueueInv
  <2>5. AnswersInv'
    BY <1>0, <2>1 DEF AnswersInv, Latest
  <2> QED
    BY <1>b, <2>2, <2>4, <2>5
<1>2. CASE Remembered(req)
  <2> PICK x : x = req.id
    OBVIOUS
  <2> PICK n \in Nat : n = Len(runs) - 1 /\ n = Stored
    <3>1. Len(queue) \in Nat /\ Len(queue) <= Stored
      BY DEF QueueInv, StoreTypes
    <3> QED
      BY <1>0, <1>2, <1>a, <3>1 DEF Stored
  <2> PICK L \in Nat : L = Len(queue)
    BY DEF StoreTypes
  <2>1. /\ x \notin DOMAIN entries /\ x \in Ids
        /\ Latest(response, x) /\ response.run = n + 1
    BY <1>0, <1>2, <1>a DEF AnswersInv, StoreTypes, Ids
  <2>2. runs[n + 1].id = x /\ n + 1 \in DOMAIN runs
    BY <2>1 DEF Latest
  <2>3. Cardinality(DOMAIN entries) = L
    BY QueueCount
  <2> PICK out : out = IF Cardinality(DOMAIN entries) >= Capacity /\ queue # << >>
                       THEN {Head(queue)} ELSE {}
    BY Zenon
  <2>4. /\ queue' = Append(IF out = {} THEN queue ELSE Tail(queue), x)
        /\ entries' = Keep(DOMAIN entries \ out, entries, x, response)
    BY <1>2, <2>1, Zenon DEF Store, Insert
  <2>5. /\ queue \in Seq(Ids) /\ DOMAIN queue = 1 .. L /\ L <= n
        /\ \A j \in 1 .. L : queue[j] = runs[n - L + j].id
        /\ \A i, j \in 1 .. L : queue[i] = queue[j] => i = j
        /\ DOMAIN entries = {queue[j] : j \in 1 .. L}
        /\ L = n \/ L >= Capacity
    <3>1. queue \in Seq(Ids) /\ DOMAIN queue = 1 .. L
      BY DEF StoreTypes
    <3>2. QueueInv /\ n = Stored /\ L = Len(queue)
      OBVIOUS
    <3> QED
      BY ONLY <3>1, <3>2, Zenon DEF QueueInv
  <2>6. /\ DOMAIN entries' = (DOMAIN entries \ out) \cup {x}
        /\ entries'[x] = response
        /\ \A i \in DOMAIN entries \ out : entries'[i] = entries[i]
    BY <2>1, <2>4 DEF Keep
  <2>7. AnswersInv'
    <3>1. \A id \in DOMAIN entries' : Latest(entries[id], id)'
      BY <1>0, <2>1, <2>6 DEF AnswersInv, Latest
    <3>2. Latest(response, req.id)'
      BY <1>0, <2>1 DEF Latest
    <3> QED
      BY <1>0, <3>1, <3>2 DEF AnswersInv
  <2>8. StoreTypes' /\ QueueInv'
    <3>1. CASE out = {}
      <4>1. queue' = Append(queue, x)
        BY <2>4, <3>1, Zenon
      <4>2. /\ queue' \in Seq(Ids) /\ Len(queue') = L + 1
            /\ queue'[L + 1] = x /\ \A j \in 1 .. L : queue'[j] = queue[j]
        BY <2>1, <2>5, <4>1
      <4>3. L = n \/ L + 1 >= Capacity
        BY ONLY L \in Nat, <2>5, ControlAssumption
      <4>4. DOMAIN entries' = {queue'[j] : j \in 1 .. L + 1}
        <5>1. DOMAIN entries' = {queue[j] : j \in 1 .. L} \cup {x}
          BY <2>5, <2>6, <3>1, ZenonT(60)
        <5> QED
          BY ONLY L \in Nat, <4>2, <5>1
      <4>5. QueueInv'
        <5>1. Stored' = n + 1 /\ runs' = runs /\ runs[n + 1].id = x
          BY <1>0, <1>a, <2>2
        <5>2. \A j \in 1 .. L + 1 : queue'[j] = runs[(n + 1) - (L + 1) + j].id
          <6> SUFFICES ASSUME NEW j \in 1 .. L + 1
                       PROVE  queue'[j] = runs[(n + 1) - (L + 1) + j].id
            OBVIOUS
          <6>1. (n + 1) - (L + 1) + j = n - L + j
            OBVIOUS
          <6>2. CASE j = L + 1
            BY <2>2, <4>2, <6>1, <6>2
          <6>3. CASE j \in 1 .. L
            BY <2>5, <4>2, <6>1, <6>3, Zenon
          <6> QED
            BY <6>2, <6>3
        <5>3. \A i, j \in 1 .. L + 1 : queue'[i] = queue'[j] => i = j
          <6>1. \A i \in 1 .. L : queue'[i] # x
            BY ONLY <2>1, <2>5, <4>2, SMTT(30), SMTT(60)
          <6> QED
            BY ONLY L \in Nat, <2>5, <4>2, <6>1, SMTT(30), SMTT(60)
        <5> QED
          BY ONLY L \in Nat, n \in Nat, <2>5, <4>2, <4>3, <4>4,
                  <5>1, <5>2, <5>3, ControlAssumption, SMTT(30), SMTT(60) DEF QueueInv
      <4> QED
        BY <1>0, <4>2, <4>5 DEF StoreTypes
    <3>2. CASE out # {}
      <4>1. queue # << >> /\ L >= Capacity /\ out = {queue[1]}
        <5>1. out = IF L >= Capacity /\ queue # << >> THEN {Head(queue)} ELSE {}
          BY <2>3
        <5>2. queue # << >> /\ L >= Capacity /\ out = {Head(queue)}
          BY ONLY <3>2, <5>1
        <5> QED
          BY ONLY <2>5, <5>2
      <4>2. L >= 1
        BY <2>5, <4>1
      <4>3. queue' = Append(Tail(queue), x)
        BY <2>4, <3>2
      <4>4. /\ Tail(queue) \in Seq(Ids) /\ Len(Tail(queue)) = L - 1
            /\ \A j \in 1 .. L - 1 : Tail(queue)[j] = queue[j + 1]
        BY <2>5, <4>1
      <4>5. /\ queue' \in Seq(Ids) /\ Len(queue') = L
            /\ queue'[L] = x /\ \A j \in 1 .. L - 1 : queue'[j] = queue[j + 1]
        BY <2>1, <4>2, <4>3, <4>4
      <4>6. DOMAIN entries' = {queue'[j] : j \in 1 .. L}
        <5>1. {queue[j] : j \in 1 .. L} \ {queue[1]} = {queue[j + 1] : j \in 1 .. L - 1}
          <6>1. \A j \in 1 .. L : j # 1 => j - 1 \in 1 .. L - 1 /\ (j - 1) + 1 = j
            OBVIOUS
          <6>2. \A j \in 1 .. L - 1 : j + 1 \in 1 .. L /\ j + 1 # 1
            OBVIOUS
          <6>3. 1 \in 1 .. L
            BY <4>2
          <6>4. \A j \in 1 .. L - 1 : queue[j + 1] # queue[1]
            BY ONLY <2>5, <6>2, <6>3
          <6> QED
            BY ONLY <6>1, <6>2, <6>4
        <5>2. DOMAIN entries' = {queue[j + 1] : j \in 1 .. L - 1} \cup {x}
          BY ONLY <2>5, <2>6, <4>1, <5>1, Zenon
        <5>3. \A j \in 1 .. L : j = L \/ j \in 1 .. L - 1
          OBVIOUS
        <5>4. L \in 1 .. L /\ \A j \in 1 .. L - 1 : j \in 1 .. L
          BY <4>2
        <5> QED
          BY ONLY <4>5, <5>2, <5>3, <5>4
      <4>7. QueueInv'
        <5>1. Stored' = n + 1 /\ runs' = runs
          BY <1>0, <1>a
        <5>2. \A j \in 1 .. L : queue'[j] = runs[(n + 1) - L + j].id
          <6> SUFFICES ASSUME NEW j \in 1 .. L
                       PROVE  queue'[j] = runs[(n + 1) - L + j].id
            OBVIOUS
          <6>1. CASE j = L
            <7>1. (n + 1) - L + j = n + 1
              BY <6>1
            <7> QED
              BY <2>2, <4>5, <6>1, <7>1
          <6>2. CASE j # L
            <7>1. (n + 1) - L + j = n - L + (j + 1) /\ j + 1 \in 1 .. L /\ j \in 1 .. L - 1
              BY <6>2
            <7> QED
              BY <2>5, <4>5, <7>1
          <6> QED
            BY <6>1, <6>2
        <5>3. \A i, j \in 1 .. L : queue'[i] = queue'[j] => i = j
          <6>1. \A i \in 1 .. L - 1 : queue'[i] # x
            BY ONLY L \in Nat, <2>1, <2>5, <4>5, SMTT(30), SMTT(60)
          <6>2. \A i, j \in 1 .. L - 1 : queue'[i] = queue'[j] => i = j
            <7>1. \A i \in 1 .. L - 1 : i + 1 \in 1 .. L
              OBVIOUS
            <7>2. \A i, j \in 1 .. L - 1 : i + 1 = j + 1 => i = j
              OBVIOUS
            <7> QED
              BY ONLY <2>5, <4>5, <7>1, <7>2, SMTT(30), SMTT(60)
          <6>3. \A i \in 1 .. L : i = L \/ i \in 1 .. L - 1
            OBVIOUS
          <6> QED
            BY ONLY <4>5, <6>1, <6>2, <6>3, SMTT(30), SMTT(60)
        <5> QED
          BY ONLY L \in Nat, n \in Nat, <2>5, <4>1, <4>5, <4>6,
                  <5>1, <5>2, <5>3, ControlAssumption, SMTT(30), SMTT(60) DEF QueueInv
      <4> QED
        BY <1>0, <4>5, <4>7 DEF StoreTypes
    <3> QED
      BY <3>1, <3>2
  <2> QED
    BY <1>b, <2>7, <2>8
<1> QED
  BY <1>1, <1>2

\* A request whose id the store has gets its answer, and is not run.
LEMMA ProcessKeeps ==
  ASSUME ControlInv, Process
  PROVE  ControlInv'
<1> USE DEF ControlInv
<1>0. /\ stage = "read_line" /\ peer \in Users /\ req' = line[peer]
      /\ line' = [line EXCEPT ![peer] = NoRequest]
      /\ UNCHANGED <<incoming, peer, queue, entries, runs>>
  BY DEF Process, store, StoreTypes
<1>1. /\ stage' \in {"reply", "dispatch"}
      /\ stage' = "dispatch" => req'.id \notin DOMAIN entries
      /\ stage' = "reply" => \/ req'.id \in DOMAIN entries /\ response' = entries[req'.id]
                             \/ req'.kind \in {"garbled", "unknown", "denied"}
  BY DEF Process, Answers
<1>2. StoreTypes'
  BY <1>0, <1>1 DEF StoreTypes
<1>3. Stored' = Stored
  BY <1>0, <1>1 DEF Stored
<1>4. QueueInv'
  BY <1>0, <1>3 DEF QueueInv
<1>5. AnswersInv'
  BY <1>0, <1>1 DEF AnswersInv, Latest, Remembered, is_mutating
<1>6. Spaced'
  BY <1>0 DEF Spaced
<1> QED
  BY <1>2, <1>4, <1>5, <1>6

\* Every step of mahina-control-d and of its clients keeps the store right.
LEMMA ControlStep == ControlInv /\ [ControlNext]_control => ControlInv'
<1> SUFFICES ASSUME ControlInv, [ControlNext]_control PROVE ControlInv'
  OBVIOUS
<1> USE DEF ControlInv
<1>1. ASSUME NEW u \in Users, ControlConnect(u) PROVE ControlInv'
  <2>1. StoreTypes'
    BY <1>1 DEF ControlConnect, StoreTypes, store
  <2> QED
    BY <1>1, <2>1, StoreIsLeft DEF ControlConnect, store
<1>2. ASSUME NEW u \in Users, ControlCall(u) PROVE ControlInv'
  <2>1. StoreTypes'
    BY <1>2 DEF ControlCall, StoreTypes, store
  <2> QED
    BY <1>2, <2>1, StoreIsLeft DEF ControlCall, store
<1>3. ASSUME NEW u \in Users, ControlClose(u) \/ ControlKilled(u) PROVE ControlInv'
  <2>1. StoreTypes'
    BY <1>3 DEF ControlClose, ControlKilled, HangsUp, StoreTypes, store
  <2> QED
    BY <1>3, <2>1, StoreIsLeft DEF ControlClose, ControlKilled, HangsUp, store
<1>4. CASE ControlAccept
  <2>1. StoreTypes'
    BY <1>4 DEF ControlAccept, StoreTypes, store
  <2> QED
    BY <1>4, <2>1, StoreIsLeft DEF ControlAccept, store
<1>5. CASE ControlEof
  <2>1. StoreTypes'
    BY <1>5 DEF ControlEof, StoreTypes, store
  <2> QED
    BY <1>5, <2>1, StoreIsLeft DEF ControlEof, store
<1>6. CASE Reply
  <2>1. StoreTypes'
    BY <1>6 DEF Reply, StoreTypes, store
  <2> QED
    BY <1>6, <2>1, StoreIsLeft DEF Reply, store
<1>7. CASE Killed
  <2>1. StoreTypes'
    BY <1>7 DEF Killed, StoreTypes
  <2>2. QueueInv'
    BY <1>7 DEF Killed, QueueInv, Stored
  <2>3. AnswersInv' /\ Spaced'
    BY <1>7 DEF Killed, AnswersInv, Spaced
  <2> QED
    BY <2>1, <2>2, <2>3
<1>8. CASE Restarted
  <2>1. StoreTypes'
    BY <1>8 DEF Restarted, StoreTypes, store
  <2> QED
    BY <1>8, <2>1, StoreIsLeft DEF Restarted, store
<1>9. CASE UNCHANGED control
  <2>1. StoreTypes'
    BY <1>9 DEF control, StoreTypes, store
  <2> QED
    BY <1>9, <2>1, StoreIsLeft DEF control, store
<1> QED
  BY <1>1, <1>2, <1>3, <1>4, <1>5, <1>6, <1>7, <1>8, <1>9,
     ProcessKeeps, DispatchKeeps, StoreKeeps DEF ControlNext, ServeControl

\* Within one life of the daemon a request id is run again only after Capacity
\* others were, and a caller that asks again learns how the last run of its id
\* went: for any number of callers, any requests and any capacity, however the
\* calls, hang-ups, retries, deaths and restarts interleave.
THEOREM RetriesAreNotRerun == ControlSpec => []RetriesAreSafe
<1>1. ControlInv => RetriesAreSafe
  BY DEF ControlInv, Spaced, AnswersInv, Latest, RetriesAreSafe
<1> QED
  BY StoreStarts, ControlStep, <1>1, PTL DEF ControlSpec

-----------------------------------------------------------------------------

(* luna-ai-d's clients, module AiDaemon.                                   *)

DaemonSpec == DaemonInit /\ [][DaemonNext]_daemon

Modes == {"DEVSHELL", "FOCUS", "CREATIVE", "STUDY", "AMBIENT"}

\* Each entry of the client table is an open, polled descriptor, once.
TableInv ==
  /\ polled \subseteq Fds
  /\ conn \in [polled -> Peers]
  /\ \A f, g \in polled : conn[f] = conn[g] => f = g
  /\ table \in Seq(Fds)
  /\ \A i, j \in DOMAIN table : table[i] = table[j] => i = j
  /\ {table[i] : i \in DOMAIN table} = polled
  /\ Len(table) <= MaxClients

\* Peers that wait are not connected, and those that are not were told nothing.
PeersInv ==
  /\ waiting \subseteq Peers
  /\ \A p \in waiting : \A f \in polled : conn[f] # p
  /\ told \in [Peers -> {"nothing"} \cup Modes]
  /\ mode \in Modes
  /\ \A p \in Peers : (\A f \in polled : conn[f] # p) => told[p] = "nothing"
  /\ NobodyHasAnOldMode

\* No two events of a batch are about one descriptor, and each is about the
\* connection it was reported for.
Events == [fd : Fds \cup {0}, peer : Peers \cup {0}, hup : BOOLEAN]

BatchInv ==
  /\ batch \in Seq(Events)
  /\ \A i, j \in DOMAIN batch :
       batch[i].fd = batch[j].fd /\ batch[i].fd # 0 => i = j
  /\ \A i \in DOMAIN batch : batch[i].fd # 0 =>
       batch[i].fd \in polled /\ conn[batch[i].fd] = batch[i].peer

DaemonInv == TableInv /\ PeersInv /\ BatchInv

\* When luna-ai-d starts nobody is connected.
LEMMA DaemonStarts == DaemonInit => DaemonInv
<1> SUFFICES ASSUME DaemonInit PROVE DaemonInv
  OBVIOUS
<1>1. TableInv
  BY AiAssumption DEF DaemonInit, TableInv
<1>2. PeersInv
  BY DEF DaemonInit, PeersInv, NobodyHasAnOldMode, Modes
<1>3. BatchInv
  BY DEF DaemonInit, BatchInv
<1> QED
  BY <1>1, <1>2, <1>3 DEF DaemonInv

\* A set of naturals that is not empty has a least element.
LEMMA LeastElement ==
  ASSUME NEW P, P \subseteq Nat, P # {}
  PROVE  \E k \in P : \A l \in P : k <= l
<1>1. \E k \in P : \A l \in P : ~(<<l, k>> \in OpToRel(<, Nat))
  BY NatLessThanWellFounded, WFMin
<1>2. \E k \in P : \A l \in P : ~(l < k)
  BY <1>1, Zenon DEF OpToRel
<1> QED
  BY <1>2

\* There is a descriptor for one client more, and the lowest is free.
LEMMA LowestIsFree ==
  ASSUME TableInv
  PROVE  LowestFree \in Fds /\ LowestFree \notin polled
<1>1. Cardinality(Peers) \in Nat /\ IsFiniteSet(Peers)
  BY AiAssumption, FS_CardinalityType
<1>2. conn \in Injection(polled, Peers)
  BY DEF TableInv, Injection, IsInjective
<1>3. Cardinality(polled) <= Cardinality(Peers)
  BY <1>1, <1>2, FS_Injection
<1>4. Cardinality(Fds) = Cardinality(Peers) + 1
  <2> DEFINE c == Cardinality(Peers)
  <2> HIDE DEF c
  <2>1. c \in Nat
    BY <1>1 DEF c
  <2>2. Cardinality(1..c + 1) = IF 1 > c + 1 THEN 0 ELSE (c + 1) - 1 + 1
    BY <2>1, FS_Interval
  <2> QED
    BY <2>1, <2>2 DEF Fds, c
<1>5. Fds \ polled # {}
  <2>1. polled \subseteq Fds
    BY DEF TableInv
  <2>2. Fds # polled
    BY <1>1, <1>3, <1>4
  <2> QED
    BY <2>1, <2>2
<1>6. Fds \ polled \subseteq Nat
  BY <1>1 DEF Fds
<1>7. \E k \in Fds \ polled : \A l \in Fds \ polled : k <= l
  BY <1>5, <1>6, LeastElement, Zenon
<1>8. DOMAIN conn = polled
  BY DEF TableInv
<1> QED
  BY <1>7, <1>8 DEF LowestFree

\* epoll_wait reports a descriptor at most once.
LEMMA BatchArrives ==
  ASSUME DaemonInv, EpollWait
  PROVE  BatchInv'
<1>1. ASSUME NEW e \in Ready
      PROVE  \/ e = [fd |-> 0, peer |-> 0, hup |-> FALSE]
             \/ /\ e.fd \in polled
                /\ e = [fd |-> e.fd, peer |-> conn[e.fd], hup |-> conn[e.fd] \in gone]
  BY DEF Ready
<1>2. ASSUME NEW e \in Ready, NEW g \in Ready, e.fd = g.fd
      PROVE  e = g
  <2>1. 0 \notin polled
    BY AiAssumption, FS_CardinalityType DEF DaemonInv, TableInv, Fds
  <2>2. CASE e.fd \in polled
    <3>1. e = [fd |-> e.fd, peer |-> conn[e.fd], hup |-> conn[e.fd] \in gone]
      BY <1>1, <2>1, <2>2
    <3>2. g = [fd |-> e.fd, peer |-> conn[e.fd], hup |-> conn[e.fd] \in gone]
      BY <1>1, <1>2, <2>1, <2>2
    <3> QED
      BY ONLY <3>1, <3>2
  <2>3. CASE e.fd \notin polled
    BY <1>1, <1>2, <2>3, Zenon
  <2> QED
    BY <2>2, <2>3
<1>3. Cardinality(Ready) \in Nat
  <2> DEFINE F == [e \in Ready |-> e.fd]
  <2>1. \A e \in Ready : e.fd \in Fds \cup {0}
    BY <1>1 DEF DaemonInv, TableInv
  <2>2. F \in Injection(Ready, Fds \cup {0})
    BY <1>2, <2>1 DEF Injection, IsInjective
  <2>3. IsFiniteSet(Fds)
    BY AiAssumption, FS_CardinalityType, FS_Interval DEF Fds
  <2>4. IsFiniteSet(Fds \cup {0})
    BY <2>3, FS_AddElement
  <2> QED
    BY <2>2, <2>4, FS_Injection, FS_CardinalityType
<1>4. PICK n \in Nat : batch' \in [1..n -> Ready] /\ IsInjective(batch')
  BY <1>3, AiAssumption DEF EpollWait
<1>5. Ready \subseteq Events
  <2> SUFFICES ASSUME NEW e \in Ready PROVE e \in Events
    OBVIOUS
  <2>1. CASE e = [fd |-> 0, peer |-> 0, hup |-> FALSE]
    BY <2>1 DEF Events
  <2>2. CASE /\ e.fd \in polled
             /\ e = [fd |-> e.fd, peer |-> conn[e.fd], hup |-> conn[e.fd] \in gone]
    <3>1. e.fd \in Fds /\ conn[e.fd] \in Peers
      BY <2>2 DEF DaemonInv, TableInv
    <3>2. ASSUME NEW a \in Fds \cup {0}, NEW b \in Peers \cup {0}, NEW c \in BOOLEAN
          PROVE  [fd |-> a, peer |-> b, hup |-> c] \in Events
      BY DEF Events
    <3>3. (conn[e.fd] \in gone) \in BOOLEAN
      OBVIOUS
    <3>4. [fd |-> e.fd, peer |-> conn[e.fd], hup |-> conn[e.fd] \in gone] \in Events
      BY <3>1, <3>2, <3>3, Zenon
    <3> QED
      BY <2>2, <3>4, Zenon
  <2> QED
    BY <1>1, <2>1, <2>2
<1>6. batch' \in Seq(Events)
  BY <1>4, <1>5
<1>7. UNCHANGED <<polled, conn>>
  BY DEF EpollWait
<1>8. ASSUME NEW i \in DOMAIN batch', batch'[i].fd # 0
      PROVE  batch'[i].fd \in polled /\ conn[batch'[i].fd] = batch'[i].peer
  <2>1. batch'[i] \in Ready
    BY <1>4
  <2> QED
    BY <1>1, <1>8, <2>1
<1>9. ASSUME NEW i \in DOMAIN batch', NEW j \in DOMAIN batch',
             batch'[i].fd = batch'[j].fd
      PROVE  i = j
  <2>1. batch'[i] \in Ready /\ batch'[j] \in Ready
    BY <1>4
  <2>2. batch'[i] = batch'[j]
    BY <1>2, <1>9, <2>1
  <2> QED
    BY <1>4, <2>2 DEF IsInjective
<1> QED
  BY <1>6, <1>7, <1>8, <1>9 DEF BatchInv

\* The first event is served; the connections of the others stay.
LEMMA BatchServed ==
  ASSUME BatchInv, batch # << >>, batch' = Tail(batch),
         \A f \in polled : f # batch[1].fd \/ f = 0 =>
           f \in polled' /\ conn'[f] = conn[f]
  PROVE  BatchInv'
<1> DEFINE n == Len(batch)
<1>1. /\ n \in Nat \ {0} /\ DOMAIN batch = 1 .. n /\ DOMAIN batch' = 1 .. n - 1
      /\ \A k \in 1 .. n - 1 : batch'[k] = batch[k + 1]
      /\ batch' \in Seq(Events)
  BY DEF BatchInv
<1> HIDE DEF n
<1>2. ASSUME NEW i \in 1 .. n - 1, batch'[i].fd # 0
      PROVE  batch'[i].fd \in polled' /\ conn'[batch'[i].fd] = batch'[i].peer
  <2>1. i + 1 \in 1 .. n /\ 1 \in 1 .. n /\ i + 1 # 1
    BY <1>1
  <2>2. batch'[i] = batch[i + 1]
    BY <1>1
  <2>3. batch[i + 1].fd # batch[1].fd
    BY <1>1, <1>2, <2>1, <2>2 DEF BatchInv
  <2>4. batch[i + 1].fd \in polled /\ conn[batch[i + 1].fd] = batch[i + 1].peer
    BY <1>1, <1>2, <2>1, <2>2 DEF BatchInv
  <2> QED
    BY <2>2, <2>3, <2>4, Zenon
<1>3. ASSUME NEW i \in 1 .. n - 1, NEW j \in 1 .. n - 1,
             batch'[i].fd = batch'[j].fd, batch'[i].fd # 0
      PROVE  i = j
  <2>1. i + 1 \in 1 .. n /\ j + 1 \in 1 .. n
    BY <1>1
  <2>2. batch'[i] = batch[i + 1] /\ batch'[j] = batch[j + 1]
    BY <1>1
  <2>3. i + 1 = j + 1
    BY <1>1, <1>3, <2>1, <2>2 DEF BatchInv
  <2> QED
    BY <2>3
<1> QED
  BY <1>1, <1>2, <1>3 DEF BatchInv

\* Accepting a client keeps the table and the epoll set in step.
LEMMA AcceptKeeps ==
  ASSUME DaemonInv, AcceptClient
  PROVE  DaemonInv'
<1>0. TableInv /\ PeersInv /\ BatchInv
  BY DEF DaemonInv
<1>1. PICK p \in waiting :
        /\ waiting' = waiting \ {p}
        /\ IF HasRoom
           THEN /\ table' = Append(table, LowestFree)
                /\ conn' = [fd \in DOMAIN conn \cup {LowestFree} |->
                             IF fd = LowestFree THEN p ELSE conn[fd]]
                /\ polled' = polled \cup {LowestFree}
                /\ UNCHANGED gone
           ELSE /\ gone' = gone \cup {p}
                /\ UNCHANGED <<table, conn, polled>>
  BY DEF AcceptClient
<1>2. p \in Peers /\ (\A f \in polled : conn[f] # p)
  BY <1>0 DEF PeersInv
<1>3. UNCHANGED <<told, mode>> /\ batch # << >> /\ batch[1].fd = 0
        /\ batch' = Tail(batch)
  BY DEF AcceptClient
<1>4. told[p] = "nothing"
  BY <1>0, <1>2 DEF PeersInv
<1>5. CASE HasRoom
  <2>1. LowestFree \in Fds /\ LowestFree \notin polled
    BY <1>0, LowestIsFree
  <2>3. PICK y : y = LowestFree
    OBVIOUS
  <2>4. /\ y \in Fds /\ y \notin polled
        /\ table' = Append(table, y)
        /\ conn' = [fd \in polled \cup {y} |-> IF fd = y THEN p ELSE conn[fd]]
        /\ polled' = polled \cup {y}
    BY <1>0, <1>1, <1>5, <2>1, <2>3 DEF TableInv
  <2>5. Len(table) < MaxClients /\ Len(table) \in Nat
    BY <1>0, <1>5 DEF HasRoom, TableInv
  <2>6. TableInv'
    <3>1. polled' \subseteq Fds /\ conn' \in [polled' -> Peers]
      BY <1>0, <1>2, <2>4 DEF TableInv
    <3>2. \A f, g \in polled' : conn'[f] = conn'[g] => f = g
      BY <1>0, <1>2, <2>4 DEF TableInv
    <3> DEFINE n == Len(table)
    <3>3. /\ table' \in Seq(Fds) /\ DOMAIN table = 1 .. n
          /\ DOMAIN table' = 1 .. n + 1 /\ Len(table') = n + 1
          /\ \A k \in 1 .. n : table'[k] = table[k]
          /\ table'[n + 1] = y
      BY <1>0, <2>4 DEF TableInv
    <3>4. n \in Nat
      BY <2>5
    <3> HIDE DEF n
    <3>5. \A k \in 1 .. n : table[k] \in polled
      BY <1>0, <3>3 DEF TableInv
    <3>6. \A i, j \in DOMAIN table' : table'[i] = table'[j] => i = j
      BY <1>0, <2>4, <3>3, <3>4, <3>5 DEF TableInv
    <3>7. {table'[i] : i \in DOMAIN table'} = polled'
      <4>1. \A f \in polled : \E i \in 1 .. n : table[i] = f
        BY <1>0, <3>3 DEF TableInv
      <4>2. \A i \in 1 .. n + 1 : table'[i] \in polled'
        BY <2>4, <3>3, <3>4, <3>5
      <4>3. \A f \in polled' : \E i \in 1 .. n + 1 : table'[i] = f
        BY <2>4, <3>3, <3>4, <4>1
      <4> QED
        BY <3>3, <4>2, <4>3
    <3>8. Len(table') <= MaxClients
      BY <2>5, <3>3, AiAssumption DEF n
    <3> QED
      BY <3>1, <3>2, <3>3, <3>6, <3>7, <3>8 DEF TableInv
  <2>7. PeersInv'
    <3>1. conn'[y] = p /\ \A f \in polled : conn'[f] = conn[f]
      BY <2>4
    <3>2. DOMAIN conn' = polled'
      BY <2>4
    <3>3. NobodyHasAnOldMode'
      BY <1>0, <1>3, <1>4, <2>4, <3>1, <3>2
      DEF PeersInv, TableInv, NobodyHasAnOldMode
    <3>4. \A q \in waiting' : \A f \in polled' : conn'[f] # q
      BY <1>0, <1>1, <2>4, <3>1 DEF PeersInv
    <3> QED
      BY <1>0, <1>1, <1>3, <2>4, <3>1, <3>3, <3>4, ZenonT(60) DEF PeersInv
  <2>8. BatchInv'
    BY <1>0, <1>3, <2>4, BatchServed
  <2> QED
    BY <2>6, <2>7, <2>8 DEF DaemonInv
<1>6. CASE ~HasRoom
  <2>1. UNCHANGED <<table, conn, polled>>
    BY <1>1, <1>6
  <2>2. TableInv' /\ PeersInv'
    <3>1. TableInv'
      BY <1>0, <2>1 DEF TableInv
    <3>2. NobodyHasAnOldMode'
      BY <1>0, <1>3, <2>1 DEF PeersInv, NobodyHasAnOldMode
    <3>3. PeersInv'
      BY <1>0, <1>1, <1>3, <2>1, <3>2 DEF PeersInv
    <3> QED
      BY <3>1, <3>3, ZenonT(60)
  <2>3. BatchInv'
    BY <1>0, <1>3, <2>1, BatchServed
  <2> QED
    BY <2>2, <2>3 DEF DaemonInv
<1> QED
  BY <1>5, <1>6

\* So does dropping one,
LEMMA DropKeeps ==
  ASSUME DaemonInv, DropClient
  PROVE  DaemonInv'
<1>0. TableInv /\ PeersInv /\ BatchInv
  BY DEF DaemonInv
<1>1. batch # << >> /\ batch[1].fd # 0 /\ 1 \in DOMAIN batch
  <2>1. batch # << >> /\ batch[1].fd # 0
    BY Zenon DEF DropClient
  <2>2. batch \in Seq(Events)
    BY <1>0, Zenon DEF BatchInv
  <2> QED
    BY ONLY <2>1, <2>2, SMTT(30), SMTT(60)
<1>2. PICK x \in polled : x = batch[1].fd
  BY <1>0, <1>1 DEF BatchInv
<1>3. PICK q \in Peers : q = conn[x]
  BY <1>0 DEF TableInv
<1>4. /\ table' = WithoutClient(x) /\ polled' = polled \ {x}
      /\ conn' = [f \in polled \ {x} |-> conn[f]]
      /\ told' = [told EXCEPT ![q] = "nothing"]
      /\ batch' = Tail(batch) /\ UNCHANGED <<waiting, mode>>
  BY <1>0, <1>2, <1>3 DEF DropClient, TableInv
<1>5. TableInv'
  <2> DEFINE n == Len(table)
  <2>1. /\ n \in Nat /\ DOMAIN table = 1 .. n /\ n <= MaxClients
        /\ \A i \in 1 .. n : table[i] \in polled
        /\ \A i, j \in 1 .. n : table[i] = table[j] => i = j
    BY <1>0 DEF TableInv
  <2>2. PICK k \in 1 .. n : table[k] = x
    BY <1>0 DEF TableInv
  <2>3. /\ n - 1 \in Nat /\ DOMAIN table' = 1 .. n - 1
        /\ \A i \in 1 .. n - 1 : table'[i] = table[IF i = k THEN n ELSE i]
    BY <1>4, <2>1, <2>2 DEF WithoutClient
  <2>4. table' \in Seq(Fds) /\ Len(table') = n - 1
    <3>1. \A i \in 1 .. n - 1 : (IF table[i] = x THEN table[n] ELSE table[i]) \in Fds
      BY <1>0, <2>1, <2>2 DEF TableInv
    <3>2. table' \in [1 .. n - 1 -> Fds]
      BY <1>4, <3>1 DEF WithoutClient
    <3> QED
      BY <2>3, <3>2
  <2> HIDE DEF n
  <2>5. \A i, j \in DOMAIN table' : table'[i] = table'[j] => i = j
    BY <2>1, <2>2, <2>3
  <2>6. {table'[i] : i \in DOMAIN table'} = polled'
    <3>1. \A i \in 1 .. n - 1 : table'[i] \in polled'
      BY <1>4, <2>1, <2>2, <2>3
    <3>2. ASSUME NEW f \in polled'
          PROVE  \E i \in 1 .. n - 1 : table'[i] = f
      <4>1. PICK j \in 1 .. n : table[j] = f
        BY <1>0, <1>4, <2>1 DEF TableInv
      <4>2. j # k
        BY <1>4, <2>2, <4>1
      <4>3. CASE j = n
        <5>1. k \in 1 .. n - 1
          BY <2>1, <4>2, <4>3
        <5> QED
          BY <2>3, <4>1, <4>3, <5>1
      <4>4. CASE j # n
        <5>1. j \in 1 .. n - 1
          BY <2>1, <4>4
        <5> QED
          BY <2>3, <4>1, <4>2, <5>1
      <4> QED
        BY <4>3, <4>4
    <3> QED
      BY <2>3, <3>1, <3>2
  <2>7. /\ polled' \subseteq Fds /\ conn' \in [polled' -> Peers]
        /\ \A f, g \in polled' : conn'[f] = conn'[g] => f = g
    BY <1>0, <1>4 DEF TableInv
  <2>8. Len(table') <= MaxClients
    BY <2>1, <2>4, AiAssumption
  <2> QED
    BY <2>4, <2>5, <2>6, <2>7, <2>8 DEF TableInv
<1>6. PeersInv'
  <2>1. \A f \in polled' : conn'[f] = conn[f] /\ conn[f] # q /\ f \in polled
    BY <1>0, <1>3, <1>4 DEF TableInv
  <2>2. told' \in [Peers -> {"nothing"} \cup Modes]
    BY <1>0, <1>4 DEF PeersInv
  <2>3. \A p \in Peers : told'[p] = IF p = q THEN "nothing" ELSE told[p]
    BY <1>0, <1>4 DEF PeersInv
  <2>4. ASSUME NEW p \in Peers, \A f \in polled' : conn'[f] # p
        PROVE  told'[p] = "nothing"
    BY <1>0, <1>3, <1>4, <2>1, <2>3, <2>4 DEF PeersInv
  <2>5. NobodyHasAnOldMode'
    <3> SUFFICES ASSUME NEW f \in DOMAIN conn'
                 PROVE  told'[conn'[f]] \in {"nothing", mode'}
      BY DEF NobodyHasAnOldMode
    <3>1. f \in polled' /\ f \in DOMAIN conn /\ conn[f] \in Peers
      BY <1>0, <1>4 DEF TableInv
    <3> QED
      BY <1>0, <1>4, <2>1, <2>3, <3>1 DEF PeersInv, NobodyHasAnOldMode
  <2>6. \A p \in waiting' : \A f \in polled' : conn'[f] # p
    BY <1>0, <1>4, <2>1 DEF PeersInv
  <2> QED
    BY <1>0, <1>4, <2>2, <2>4, <2>5, <2>6 DEF PeersInv
<1>7. BatchInv'
  BY <1>0, <1>1, <1>2, <1>4, BatchServed
<1> QED
  BY <1>5, <1>6, <1>7 DEF DaemonInv

\* and so does handling what one has sent.
LEMMA DataKeeps ==
  ASSUME DaemonInv, HandleData
  PROVE  DaemonInv'
<1>0. TableInv /\ PeersInv /\ BatchInv
  BY DEF DaemonInv
<1>a. batch # << >> /\ batch[1].fd # 0 /\ batch' = Tail(batch)
      /\ table' = table /\ polled' = polled /\ conn' = conn /\ waiting' = waiting
  BY Zenon DEF HandleData
<1>b. batch \in Seq(Events)
      /\ \A i \in DOMAIN batch : batch[i].fd # 0 => batch[i].fd \in polled
  BY <1>0, Zenon DEF BatchInv
<1>1. batch # << >> /\ batch[1].fd # 0 /\ 1 \in DOMAIN batch
        /\ batch' = Tail(batch) /\ UNCHANGED <<table, polled, conn, waiting>>
  BY ONLY <1>a, <1>b, SMTT(30), SMTT(60)
<1>2. batch[1].fd \in polled
  BY <1>1, <1>b, ZenonT(60)
<1>3. PICK q \in Peers : q = conn[batch[1].fd]
  BY <1>0, <1>2 DEF TableInv
<1>4. PICK r : r = request[q]
  BY Zenon
<1>5. /\ mode' = IF r.cmd = "set_active_app" THEN ModeOf(r.app) ELSE mode
      /\ \/ mode' = mode /\ told' = [told EXCEPT ![q] = mode]
         \/ mode' = mode /\ told' = told
         \/ told' = Broadcast(mode')
  BY <1>3, <1>4, Zenon DEF HandleData
<1>6. mode' \in Modes
  BY <1>0, <1>5 DEF PeersInv, ModeOf, Modes
<1>7. \A p \in Peers : (\E i \in DOMAIN table : conn[table[i]] = p)
                          <=> (\E f \in polled : conn[f] = p)
  BY <1>0 DEF TableInv
<1>8. /\ told' \in [Peers -> {"nothing"} \cup Modes]
      /\ \A p \in Peers : (\A f \in polled : conn[f] # p) => told'[p] = "nothing"
      /\ \A f \in polled : told'[conn[f]] \in {"nothing", mode'}
  <2>1. CASE mode' = mode /\ told' = [told EXCEPT ![q] = mode]
    BY <1>0, <1>2, <1>3, <2>1 DEF PeersInv, TableInv,
       NobodyHasAnOldMode
  <2>2. CASE mode' = mode /\ told' = told
    BY <1>0, <2>2 DEF PeersInv, TableInv, NobodyHasAnOldMode
  <2>3. CASE told' = Broadcast(mode')
    <3>1. \A p \in Peers : told'[p] = IF \E f \in polled : conn[f] = p
                                      THEN mode' ELSE told[p]
      BY <1>7, <2>3 DEF Broadcast
    <3>2. told' \in [Peers -> {"nothing"} \cup Modes]
      BY <1>0, <1>6, <2>3 DEF Broadcast, PeersInv
    <3> QED
      BY <1>0, <3>1, <3>2 DEF PeersInv, TableInv
  <2> QED
    BY <1>5, <2>1, <2>2, <2>3
<1>9. TableInv' /\ PeersInv'
  BY <1>0, <1>1, <1>6, <1>8 DEF TableInv, PeersInv, NobodyHasAnOldMode
<1>10. BatchInv'
  BY <1>0, <1>1, BatchServed
<1> QED
  BY <1>9, <1>10 DEF DaemonInv

\* Every step of luna-ai-d and of its clients keeps table and epoll set in
\* step.
LEMMA DaemonStep == DaemonInv /\ [DaemonNext]_daemon => DaemonInv'
<1> SUFFICES ASSUME DaemonInv, [DaemonNext]_daemon PROVE DaemonInv'
  OBVIOUS
<1>1. ASSUME UNCHANGED <<table, polled, conn, waiting, told, mode>>
      PROVE  TableInv' /\ PeersInv' /\ (UNCHANGED batch => BatchInv')
  BY <1>1 DEF DaemonInv, TableInv, PeersInv, BatchInv,
     NobodyHasAnOldMode
<1>2. ASSUME NEW p \in Peers, PeerConnects(p)
      PROVE  DaemonInv'
  <2>1. \A f \in polled : conn[f] # p
    BY <1>2 DEF PeerConnects, Fresh, DaemonInv, TableInv
  <2> QED
    BY <1>2, <2>1 DEF PeerConnects, DaemonInv, TableInv, PeersInv,
       BatchInv,
                      NobodyHasAnOldMode
<1>3. ASSUME NEW p \in Peers, PeerSends(p) \/ PeerHangsUp(p)
      PROVE  DaemonInv'
  BY <1>1, <1>3 DEF PeerSends, PeerHangsUp, DaemonInv
<1>4. CASE EpollWait
  BY <1>1, <1>4, BatchArrives DEF EpollWait, DaemonInv
<1>5. CASE UNCHANGED daemon
  BY <1>1, <1>5 DEF daemon, DaemonInv
<1> QED
  BY <1>2, <1>3, <1>4, <1>5, AcceptKeeps, DropKeeps, DataKeeps
     DEF DaemonNext

\* The client table, the open connections and the epoll set of luna-ai-d agree,
\* and no event of a batch is about a closed connection (add_client,
\* remove_client, the event loop), for any number of clients, of table entries
\* and of events in a batch.
THEOREM TableIsEpoll == DaemonSpec => []TableMatchesEpoll
<1>1. DaemonInv => TableMatchesEpoll
  <2> SUFFICES ASSUME DaemonInv PROVE TableMatchesEpoll
    OBVIOUS
  <2> DEFINE n == Len(table)
  <2>1. n \in Nat /\ DOMAIN table = 1 .. n /\ n <= MaxClients
    BY DEF DaemonInv, TableInv
  <2>2. Range(table) = polled /\ polled = DOMAIN conn
    BY DEF DaemonInv, TableInv, Range
  <2>3. table \in Bijection(1 .. n, polled)
    <3>1. table \in [1 .. n -> polled]
      BY <2>1 DEF DaemonInv, TableInv
    <3>2. \A i, j \in 1 .. n : table[i] = table[j] => i = j
      BY <2>1 DEF DaemonInv, TableInv
    <3>3. \A f \in polled : \E i \in 1 .. n : table[i] = f
      BY <2>1 DEF DaemonInv, TableInv
    <3> QED
      BY <2>1, <3>1, <3>2, <3>3 DEF Bijection, Injection, Surjection,
         IsInjective
  <2>4. Cardinality(polled) = Cardinality(1 .. n)
    BY <2>1, <2>3, FS_Interval, FS_Bijection DEF ExistsBijection
  <2>5. Cardinality(1 .. n) = n
    <3> HIDE DEF n
    <3>1. Cardinality(1 .. n) = IF 1 > n THEN 0 ELSE n - 1 + 1
      BY <2>1, FS_Interval
    <3> QED
      BY <2>1, <3>1
  <2> QED
    BY <2>1, <2>2, <2>4, <2>5 DEF TableMatchesEpoll, DaemonInv, BatchInv
<1> QED
  BY <1>1, DaemonStarts, DaemonStep, PTL DEF DaemonSpec

\* A client that was told a mode was told the present one (broadcast_mode,
\* handle_client_data), whoever comes and goes in the batch that changes it.
THEOREM ModesAreCurrent == DaemonSpec => []NobodyHasAnOldMode
<1>1. DaemonInv => NobodyHasAnOldMode
  BY DEF DaemonInv, PeersInv
<1> QED
  BY <1>1, DaemonStarts, DaemonStep, PTL DEF DaemonSpec
=============================================================================
