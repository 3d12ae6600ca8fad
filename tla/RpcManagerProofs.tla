-------------------------- MODULE RpcManagerProofs --------------------------
(***************************************************************************)
(* RpcManager for every set of endpoints and every number of concurrent    *)
(* calls.                                                                  *)
(***************************************************************************)
EXTENDS RpcManager, SequenceTheorems, TLAPS

-----------------------------------------------------------------------------
(* What pop and the rebuilt array do to a sequence without repetitions.    *)
Distinct(q) == \A i, j \in 1..Len(q) : q[i] = q[j] => i = j
Within(u, q) == \E i \in 1..Len(q) : q[i] = u

LEMMA FrontProperties ==
    ASSUME NEW S, NEW q \in Seq(S), NEW n \in Nat, Len(q) = n + 1
    PROVE  /\ Front(q) \in Seq(S) /\ Len(Front(q)) = n
           /\ \A i \in 1..n : Front(q)[i] = q[i]
           /\ Last(q) \in S /\ Last(q) = q[n + 1]
<1>1. \A i \in 1..n + 1 : q[i] \in S
    BY ElementOfSeq
<1>2. Front(q) = SubSeq(q, 1, n)
    <2>1. Len(q) - 1 = n
        OBVIOUS
    <2> QED BY <2>1 DEF Front
<1>3. n \in Int /\ 1 \in Int /\ \A i \in 1..n : q[i] \in S
    BY <1>1
<1>4. /\ SubSeq(q, 1, n) \in Seq(S)
      /\ Len(SubSeq(q, 1, n)) = IF 1 <= n THEN n - 1 + 1 ELSE 0
      /\ \A i \in 1..n - 1 + 1 : SubSeq(q, 1, n)[i] = q[1 + i - 1]
    BY <1>3, SubSeqProperties
<1>5. (IF 1 <= n THEN n - 1 + 1 ELSE 0) = n /\ 1..n - 1 + 1 = 1..n
    OBVIOUS
<1>6. Len(Front(q)) = n
    BY <1>2, <1>4, <1>5
<1>7. ASSUME NEW i \in 1..n PROVE Front(q)[i] = q[i]
    <2>1. i \in 1..n - 1 + 1 /\ 1 + i - 1 = i
        BY <1>5
    <2> QED BY <2>1, <1>2, <1>4
<1> QED BY <1>1, <1>2, <1>4, <1>6, <1>7 DEF Last

LEMMA PutBackProperties ==
    ASSUME NEW S, NEW q \in Seq(S), NEW u \in S
    PROVE  /\ PutBack(u, q) \in Seq(S) /\ Len(PutBack(u, q)) = Len(q) + 1
           /\ PutBack(u, q)[1] = u
           /\ \A i \in 2..Len(q) + 1 : PutBack(u, q)[i] = q[i - 1]
<1>1. <<u>> \in Seq(S) /\ Len(<<u>>) = 1 /\ <<u>>[1] = u /\ Len(q) \in Nat
    BY LenProperties
<1>2. /\ <<u>> \o q \in Seq(S) /\ Len(<<u>> \o q) = Len(<<u>>) + Len(q)
      /\ \A i \in 1..Len(<<u>>) + Len(q) :
            (<<u>> \o q)[i] = IF i <= Len(<<u>>) THEN <<u>>[i] ELSE q[i - Len(<<u>>)]
    BY <1>1, ConcatProperties
<1> QED BY <1>1, <1>2 DEF PutBack

LEMMA Popped ==
    ASSUME NEW S, NEW q \in Seq(S), Len(q) >= 1, Distinct(q)
    PROVE  /\ Front(q) \in Seq(S) /\ Len(Front(q)) + 1 = Len(q) /\ Distinct(Front(q))
           /\ Last(q) \in S /\ Within(Last(q), q)
           /\ \A v : Within(v, Front(q)) <=> Within(v, q) /\ v # Last(q)
<1>1. PICK n \in Nat : Len(q) = n + 1
    <2>1. Len(q) \in Nat
        BY LenProperties
    <2>2. Len(q) - 1 \in Nat /\ Len(q) = (Len(q) - 1) + 1
        BY <2>1
    <2> QED BY <2>2
<1>2. /\ Front(q) \in Seq(S) /\ Len(Front(q)) = n
      /\ \A i \in 1..n : Front(q)[i] = q[i]
      /\ Last(q) \in S /\ Last(q) = q[n + 1]
    BY <1>1, FrontProperties
<1>3. n + 1 \in 1..n + 1 /\ \A i \in 1..n : i \in 1..n + 1 /\ i # n + 1
    OBVIOUS
<1>4. \A i \in 1..n + 1 : i \in 1..n \/ i = n + 1
    OBVIOUS
<1>5. Distinct(Front(q))
    BY <1>1, <1>2, <1>3 DEF Distinct
<1>6. Within(Last(q), q)
    BY <1>1, <1>2, <1>3 DEF Within
<1>7. ASSUME NEW v PROVE Within(v, Front(q)) <=> Within(v, q) /\ v # Last(q)
    <2>1. ASSUME Within(v, Front(q)) PROVE Within(v, q) /\ v # Last(q)
        <3>1. PICK i \in 1..n : q[i] = v
            BY <2>1, <1>2 DEF Within
        <3> QED BY <3>1, <1>1, <1>2, <1>3 DEF Within, Distinct
    <2>2. ASSUME Within(v, q), v # Last(q) PROVE Within(v, Front(q))
        <3>1. PICK i \in 1..n + 1 : q[i] = v
            BY <2>2, <1>1 DEF Within
        <3>2. i \in 1..n
            BY <3>1, <2>2, <1>2, <1>4
        <3> QED BY <3>1, <3>2, <1>2 DEF Within
    <2> QED BY <2>1, <2>2
<1>8. Len(Front(q)) + 1 = Len(q)
    BY <1>1, <1>2
<1> QED BY <1>2, <1>5, <1>6, <1>7, <1>8

LEMMA Pushed ==
    ASSUME NEW S, NEW q \in Seq(S), NEW u \in S, Distinct(q), ~Within(u, q)
    PROVE  /\ PutBack(u, q) \in Seq(S) /\ Len(PutBack(u, q)) = Len(q) + 1
           /\ Distinct(PutBack(u, q))
           /\ \A v : Within(v, PutBack(u, q)) <=> Within(v, q) \/ v = u
<1> DEFINE r == PutBack(u, q)
<1>1. /\ r \in Seq(S) /\ Len(r) = Len(q) + 1 /\ r[1] = u
      /\ \A i \in 2..Len(q) + 1 : r[i] = q[i - 1]
    BY PutBackProperties
<1>2. Len(q) \in Nat
    BY LenProperties
<1> HIDE DEF r
\* Each place of r is the first, or one further than a place of q.
<1>3. ASSUME NEW i \in 1..Len(r)
      PROVE  \/ i = 1 /\ r[i] = u
             \/ i # 1 /\ i - 1 \in 1..Len(q) /\ r[i] = q[i - 1]
    <2>1. CASE i = 1
        BY <2>1, <1>1
    <2>2. CASE i # 1
        <3>1. i \in 2..Len(q) + 1 /\ i - 1 \in 1..Len(q)
            BY <2>2, <1>1, <1>2
        <3> QED BY <2>2, <3>1, <1>1
    <2> QED BY <2>1, <2>2
<1>4. ASSUME NEW i \in 1..Len(r), NEW j \in 1..Len(r), r[i] = r[j]
      PROVE  i = j
    <2>1. CASE i = 1 /\ j # 1
        BY <2>1, <1>3, <1>4 DEF Within
    <2>2. CASE i # 1 /\ j = 1
        BY <2>2, <1>3, <1>4 DEF Within
    <2>3. CASE i # 1 /\ j # 1
        <3>1. /\ i - 1 \in 1..Len(q) /\ r[i] = q[i - 1]
              /\ j - 1 \in 1..Len(q) /\ r[j] = q[j - 1]
            BY <2>3, <1>3
        <3>2. i - 1 = j - 1
            BY <3>1, <1>4 DEF Distinct
        <3>3. i \in Int /\ j \in Int
            BY <1>1, <1>2
        <3> QED BY <3>2, <3>3
    <2> QED BY <2>1, <2>2, <2>3
<1>5. ASSUME NEW v PROVE Within(v, r) <=> Within(v, q) \/ v = u
    <2>1. ASSUME Within(v, r) PROVE Within(v, q) \/ v = u
        BY <2>1, <1>3 DEF Within
    <2>2. ASSUME Within(v, q) PROVE Within(v, r)
        <3>1. PICK i \in 1..Len(q) : q[i] = v
            BY <2>2 DEF Within
        <3>2. i + 1 \in 1..Len(r) /\ i + 1 \in 2..Len(q) + 1 /\ (i + 1) - 1 = i
            BY <1>1, <1>2
        <3>3. r[i + 1] = v
            BY <3>1, <3>2, <1>1
        <3> QED BY <3>2, <3>3 DEF Within
    <2>3. 1 \in 1..Len(r)
        BY <1>1, <1>2
    <2> QED BY <2>1, <2>2, <2>3, <1>1 DEF Within
<1>6. Distinct(r)
    BY <1>4 DEF Distinct
<1> QED BY <1>1, <1>5, <1>6 DEF r

-----------------------------------------------------------------------------
(* The inductive invariant.  Besides Conserved: as long as a URL is left   *)
(* that nobody tried since call c began, the untried ones are the end of   *)
(* the queue, where URLs are taken, and before them are at least those     *)
(* that c itself has taken and put back.                                   *)
UntriedLast(q, known, n) ==
    \E k \in 1..Len(q) :
        /\ n < k
        /\ \A u \in URLs : u \notin known <=> \E i \in k..Len(q) : q[i] = u

PutBackBy(c) == IF pc[c] = "probe" THEN numTries[c] - 1 ELSE numTries[c]

TriedOK ==
    \A c \in Callers :
        UnderWay(c) => tried[c] = URLs \/ UntriedLast(rpcURLs, tried[c], PutBackBy(c))

IInv == TypeOK /\ Conserved /\ TriedOK

(* The last URL is taken: it was untried, or all are tried.                *)
LEMMA UntriedTake ==
    ASSUME NEW q \in Seq(URLs), Len(q) >= 1, Distinct(q), NEW known \in SUBSET URLs,
           NEW n \in Int, UntriedLast(q, known, n)
    PROVE  \/ known \cup {Last(q)} = URLs
           \/ UntriedLast(Front(q), known \cup {Last(q)}, n)
<1>1. PICK m \in Nat : Len(q) = m + 1
    <2>1. Len(q) \in Nat
        BY LenProperties
    <2>2. Len(q) - 1 \in Nat /\ Len(q) = (Len(q) - 1) + 1
        BY <2>1
    <2> QED BY <2>2
<1>2. /\ Len(Front(q)) = m /\ \A i \in 1..m : Front(q)[i] = q[i]
      /\ Last(q) = q[m + 1] /\ Last(q) \in URLs
    BY <1>1, FrontProperties
<1>3. PICK k \in 1..m + 1 :
        n < k /\ \A u \in URLs : u \notin known <=> \E i \in k..m + 1 : q[i] = u
    BY <1>1 DEF UntriedLast
<1> DEFINE front == Front(q)
           last == Last(q)
<1> HIDE DEF front, last
<1>4. CASE k = m + 1
    <2>1. \A u \in URLs : u \notin known => u = last
        BY <1>2, <1>3, <1>4 DEF last
    <2> QED BY <2>1, <1>2 DEF last
<1>5. CASE k # m + 1
    <2>1. k \in 1..m
        BY <1>5
    <2>2. ASSUME NEW u \in URLs
          PROVE  u \notin known \cup {last} <=> \E i \in k..m : front[i] = u
        <3>1. ASSUME u \notin known, u # last PROVE \E i \in k..m : front[i] = u
            <4>1. PICK i \in k..m + 1 : q[i] = u
                BY <1>3, <3>1
            <4>2. i # m + 1
                BY <4>1, <3>1, <1>2 DEF last
            <4>3. i \in k..m /\ i \in 1..m
                BY <4>2, <2>1
            <4> QED BY <4>1, <4>3, <1>2 DEF front
        <3>2. ASSUME NEW i \in k..m, front[i] = u PROVE u \notin known /\ u # last
            <4>1. i \in 1..m /\ i \in 1..m + 1 /\ i \in k..m + 1 /\ i # m + 1
                  /\ m + 1 \in 1..m + 1
                BY <2>1
            <4>2. q[i] = u
                BY <3>2, <4>1, <1>2 DEF front
            <4>3. u \notin known
                BY <4>1, <4>2, <1>3
            <4>4. q[i] # q[m + 1]
                BY <4>1, <1>1 DEF Distinct
            <4> QED BY <4>2, <4>3, <4>4, <1>2 DEF last
        <3> QED BY <3>1, <3>2
    <2>3. Len(front) = m
        BY <1>2 DEF front
    <2>4. UntriedLast(front, known \cup {last}, n)
        BY <2>1, <2>2, <2>3, <1>3 DEF UntriedLast
    <2> QED BY <2>4 DEF front, last
<1> QED BY <1>4, <1>5

(* A URL goes back in front: the untried ones are one place further.       *)
LEMMA UntriedPutBack ==
    ASSUME NEW q \in Seq(URLs), NEW u \in URLs, NEW known \in SUBSET URLs,
           NEW n \in Int, UntriedLast(q, known, n)
    PROVE  UntriedLast(PutBack(u, q), known, n + 1)
<1> DEFINE r == PutBack(u, q)
<1>1. /\ Len(r) = Len(q) + 1 /\ \A i \in 2..Len(q) + 1 : r[i] = q[i - 1]
      /\ Len(q) \in Nat
    BY PutBackProperties, LenProperties
<1>2. PICK k \in 1..Len(q) :
        n < k /\ \A v \in URLs : v \notin known <=> \E i \in k..Len(q) : q[i] = v
    BY DEF UntriedLast
<1> HIDE DEF r
<1>3. ASSUME NEW v \in URLs
      PROVE  v \notin known <=> \E i \in k + 1..Len(r) : r[i] = v
    <2>1. ASSUME NEW i \in k..Len(q), q[i] = v PROVE \E j \in k + 1..Len(r) : r[j] = v
        <3>1. i + 1 \in k + 1..Len(r) /\ i + 1 \in 2..Len(q) + 1 /\ (i + 1) - 1 = i
            BY <1>1
        <3> QED BY <3>1, <2>1, <1>1
    <2>2. ASSUME NEW i \in k + 1..Len(r), r[i] = v PROVE \E j \in k..Len(q) : q[j] = v
        <3>1. i - 1 \in k..Len(q) /\ i \in 2..Len(q) + 1
            BY <1>1
        <3> QED BY <3>1, <2>2, <1>1
    <2> QED BY <2>1, <2>2, <1>2
<1>4. k + 1 \in 1..Len(r) /\ n + 1 < k + 1
    BY <1>1, <1>2
<1>5. UntriedLast(r, known, n + 1)
    BY <1>3, <1>4 DEF UntriedLast
<1> QED BY <1>5 DEF r

(* The number of URLs put back is a lower bound.                           *)
LEMMA UntriedFewer ==
    ASSUME NEW q \in Seq(URLs), NEW known, NEW n \in Int, NEW m \in Int, m <= n,
           UntriedLast(q, known, n)
    PROVE  UntriedLast(q, known, m)
<1>1. Len(q) \in Nat
    BY LenProperties
<1>2. PICK k \in 1..Len(q) :
        n < k /\ \A v \in URLs : v \notin known <=> \E i \in k..Len(q) : q[i] = v
    BY DEF UntriedLast
<1>3. m < k
    BY <1>1, <1>2
<1> QED BY <1>2, <1>3 DEF UntriedLast

(* A call that is under way is one of these, and has taken some number.    *)
LEMMA CallTypes ==
    ASSUME TypeOK, NEW c \in Callers
    PROVE  /\ numTries[c] \in Nat /\ PutBackBy(c) \in Int /\ tried[c] \in SUBSET URLs
           /\ rpcURLs \in Seq(URLs) /\ Len(rpcURLs) \in Nat
<1>1. numTries[c] \in Nat /\ tried[c] \in SUBSET URLs /\ rpcURLs \in Seq(URLs)
    BY DEF TypeOK
<1>2. PutBackBy(c) \in Int
    BY <1>1 DEF PutBackBy
<1> QED BY <1>1, <1>2, LenProperties

LEMMA InitEstablishes == Init => IInv
<1> SUFFICES ASSUME Init PROVE IInv
    OBVIOUS
<1>1. Len(InitQueue) \in Nat /\ \A i \in 1..Len(InitQueue) : InitQueue[i] \in URLs
    BY PoolAssumption, LenProperties, ElementOfSeq
<1>2. Len(InitQueue) >= 1 /\ InitQueue[1] \in URLs
    BY PoolAssumption, <1>1
<1>3. TypeOK
    BY PoolAssumption, <1>2 DEF Init, TypeOK
<1>4. Holders = {} /\ \A c \in Callers : ~UnderWay(c)
    BY DEF Init, Holders, UnderWay
<1>5. Conserved
    BY PoolAssumption, <1>4 DEF Init, Conserved
<1> QED BY <1>3, <1>4, <1>5 DEF IInv, TriedOK

-----------------------------------------------------------------------------
(* Conserved, in the words of the lemmas on sequences.                     *)
LEMMA ConservedMeans ==
    Conserved <=> /\ Distinct(rpcURLs)
                  /\ \A c, d \in Holders : rpc[c] = rpc[d] => c = d
                  /\ \A u \in URLs : Within(u, rpcURLs) <=> ~\E c \in Holders : rpc[c] = u
BY DEF Conserved, Distinct, Within

LEMMA ConservedMeansNext ==
    Conserved' <=> /\ Distinct(rpcURLs')
                   /\ \A c, d \in Holders' : rpc'[c] = rpc'[d] => c = d
                   /\ \A u \in URLs : Within(u, rpcURLs') <=> ~\E c \in Holders' : rpc'[c] = u
BY DEF Conserved, Distinct, Within

-----------------------------------------------------------------------------
(* A caller that takes a URL out becomes a holder; the one that puts it    *)
(* back stops being one.                                                   *)
LEMMA TakePreserves ==
    ASSUME IInv, NEW c \in Callers, Take(c)
    PROVE  IInv'
<1> DEFINE u == Last(rpcURLs)
           rest == Front(rpcURLs)
<1>1. /\ TypeOK /\ rpcURLs \in Seq(URLs) /\ Distinct(rpcURLs)
      /\ c \notin Holders /\ pc[c] = "loop"
    BY ConservedMeans DEF IInv, TypeOK, Take, Holders
<1>2. Len(rpcURLs) >= 1
    BY <1>1, CallTypes DEF Take
<1>3. /\ rest \in Seq(URLs) /\ Len(rest) + 1 = Len(rpcURLs) /\ Distinct(rest)
      /\ u \in URLs /\ Within(u, rpcURLs)
      /\ \A v : Within(v, rest) <=> Within(v, rpcURLs) /\ v # u
    BY <1>1, <1>2, Popped
<1>4. /\ PutBack(u, rest) \in Seq(URLs) /\ Len(PutBack(u, rest)) = Len(rest) + 1
      /\ Distinct(PutBack(u, rest))
      /\ \A v : Within(v, PutBack(u, rest)) <=> Within(v, rest) \/ v = u
    BY <1>3, Pushed
<1> HIDE DEF rest, u
<1>5. /\ numTries' = [numTries EXCEPT ![c] = @ + 1]
      /\ rpc' = [rpc EXCEPT ![c] = u]
      /\ tried' = [d \in Callers |-> IF UnderWay(d) THEN tried[d] \cup {u} ELSE {}]
      /\ UNCHANGED <<healthy, recent, want>>
      /\ \/ rpcURLs' = PutBack(u, rest) /\ Goto(c, "test")
         \/ rpcURLs' = rest /\ Goto(c, "probe")
    BY DEF Take, u, rest
\* The URL taken was in the queue, so nobody holds it.
<1>6. \A d \in Holders : rpc[d] # u
    BY <1>1, <1>3, ConservedMeans DEF IInv
<1>7. \A d \in Holders : d \in Callers /\ rpc'[d] = rpc[d]
    BY <1>1, <1>5 DEF TypeOK, Holders
<1>8. TypeOK'
    <2>1. rpcURLs' \in Seq(URLs) /\ pc' \in [Callers -> {"idle", "loop", "probe", "test", "returned", "failed"}]
        BY <1>1, <1>3, <1>4, <1>5 DEF TypeOK, Goto
    <2>2. numTries' \in [Callers -> Nat]
        BY <1>1, <1>5 DEF TypeOK
    <2>3. rpc' \in [Callers -> URLs] /\ tried' \in [Callers -> SUBSET URLs]
        BY <1>1, <1>3, <1>5 DEF TypeOK
    <2> QED BY <2>1, <2>2, <2>3, <1>1, <1>5 DEF TypeOK
\* What was the end of the queue for a call under way still is, one shorter.
<1>11. ASSUME NEW d \in Callers, UnderWay(d)'
       PROVE  /\ UnderWay(d) /\ tried'[d] = tried[d] \cup {u}
              /\ tried'[d] = URLs \/ UntriedLast(rest, tried'[d], PutBackBy(d))
    <2>1. UnderWay(d) /\ tried'[d] = tried[d] \cup {u}
        BY <1>1, <1>5, <1>11 DEF UnderWay, Goto, TypeOK
    <2>2. tried[d] \in SUBSET URLs /\ PutBackBy(d) \in Int
        BY <1>1, CallTypes
    <2>3. CASE tried[d] = URLs
        BY <2>1, <2>3, <1>3
    <2>4. CASE UntriedLast(rpcURLs, tried[d], PutBackBy(d))
        BY <2>1, <2>2, <2>4, <1>1, <1>2, UntriedTake DEF u, rest
    <2> QED BY <2>1, <2>3, <2>4 DEF IInv, TriedOK
<1>9. CASE rpcURLs' = PutBack(u, rest) /\ Goto(c, "test")
    <2>1. Holders' = Holders
        BY <1>1, <1>9 DEF Goto, TypeOK, Holders
    <2>2. \A v : Within(v, rpcURLs') <=> Within(v, rpcURLs)
        BY <1>3, <1>4, <1>9
    <2>3. Conserved'
        BY <2>1, <2>2, <1>4, <1>7, <1>9, ConservedMeans, ConservedMeansNext DEF IInv
    <2>4. ASSUME NEW d \in Callers, UnderWay(d)', tried'[d] # URLs
          PROVE  UntriedLast(rpcURLs', tried'[d], PutBackBy(d)')
        <3>1. /\ UntriedLast(rest, tried'[d], PutBackBy(d))
              /\ tried'[d] \in SUBSET URLs /\ PutBackBy(d) \in Int /\ numTries[d] \in Nat
            BY <2>4, <1>1, <1>8, <1>11, CallTypes DEF TypeOK
        <3>2. UntriedLast(rpcURLs', tried'[d], PutBackBy(d) + 1)
            BY <3>1, <1>3, <1>9, UntriedPutBack
        <3>3. PutBackBy(d)' \in Int /\ PutBackBy(d)' <= PutBackBy(d) + 1
            BY <3>1, <1>1, <1>5, <1>9 DEF PutBackBy, Goto, TypeOK
        <3> QED BY <3>1, <3>2, <3>3, <1>8, UntriedFewer DEF TypeOK
    <2> QED BY <1>8, <2>3, <2>4 DEF IInv, TriedOK
<1>10. CASE rpcURLs' = rest /\ Goto(c, "probe")
    <2>1. Holders' = Holders \cup {c} /\ rpc'[c] = u
        BY <1>1, <1>5, <1>10 DEF Goto, TypeOK, Holders
    <2>2. \A d, e \in Holders' : rpc'[d] = rpc'[e] => d = e
        BY <2>1, <1>6, <1>7, ConservedMeans DEF IInv
    <2>3. \A v \in URLs : Within(v, rpcURLs') <=> ~\E d \in Holders' : rpc'[d] = v
        BY <2>1, <1>3, <1>6, <1>7, <1>10, ConservedMeans DEF IInv
    <2>4. Conserved'
        BY <2>2, <2>3, <1>3, <1>10, ConservedMeansNext
    <2>5. ASSUME NEW d \in Callers PROVE PutBackBy(d)' = PutBackBy(d)
        <3>1. numTries[d] \in Nat
            BY <1>1, CallTypes
        <3>2. CASE d = c
            BY <3>1, <3>2, <1>1, <1>5, <1>10 DEF PutBackBy, Goto, TypeOK
        <3>3. CASE d # c
            BY <3>3, <1>1, <1>5, <1>10 DEF PutBackBy, Goto, TypeOK
        <3> QED BY <3>2, <3>3
    <2>6. TriedOK'
        BY <2>5, <1>10, <1>11 DEF TriedOK
    <2> QED BY <1>8, <2>4, <2>6 DEF IInv
<1> QED BY <1>5, <1>9, <1>10

LEMMA ProbePreserves ==
    ASSUME IInv, NEW c \in Callers, Probe(c)
    PROVE  IInv'
<1> DEFINE u == rpc[c]
<1>1. /\ TypeOK /\ rpcURLs \in Seq(URLs) /\ Distinct(rpcURLs)
      /\ c \in Holders /\ u \in URLs
    BY ConservedMeans DEF IInv, TypeOK, Probe, Holders
<1>2. ~Within(u, rpcURLs)
    BY <1>1, ConservedMeans DEF IInv
<1>3. /\ PutBack(u, rpcURLs) \in Seq(URLs) /\ Len(PutBack(u, rpcURLs)) = Len(rpcURLs) + 1
      /\ Distinct(PutBack(u, rpcURLs))
      /\ \A v : Within(v, PutBack(u, rpcURLs)) <=> Within(v, rpcURLs) \/ v = u
    BY <1>1, <1>2, Pushed
<1>4. /\ rpcURLs' = PutBack(u, rpcURLs) /\ rpc' = rpc /\ Goto(c, "test")
      /\ healthy' \subseteq URLs /\ recent' \subseteq URLs
      /\ UNCHANGED <<want, numTries, tried>>
    BY <1>1 DEF Probe, TypeOK
<1>5. TypeOK'
    BY <1>1, <1>3, <1>4 DEF TypeOK, Goto
<1>6. Holders' = Holders \ {c}
    BY <1>1, <1>4 DEF Goto, TypeOK, Holders
<1>7. \A d \in Holders : rpc[d] = u => d = c
    BY <1>1, ConservedMeans DEF IInv
<1>8. \A v \in URLs : Within(v, rpcURLs') <=> ~\E d \in Holders' : rpc'[d] = v
    BY <1>1, <1>3, <1>4, <1>6, <1>7, ConservedMeans DEF IInv
<1>9. Conserved'
    BY <1>3, <1>4, <1>6, <1>8, ConservedMeans, ConservedMeansNext DEF IInv
<1>10. ASSUME NEW d \in Callers, UnderWay(d)', tried[d] # URLs
       PROVE  UntriedLast(rpcURLs', tried[d], PutBackBy(d)')
    <2>1. UnderWay(d)
        BY <1>1, <1>4, <1>10 DEF UnderWay, Goto, TypeOK, Holders
    <2>2. /\ UntriedLast(rpcURLs, tried[d], PutBackBy(d))
          /\ tried[d] \in SUBSET URLs /\ PutBackBy(d) \in Int /\ numTries[d] \in Nat
        BY <2>1, <1>1, <1>10, CallTypes DEF IInv, TriedOK
    <2>3. UntriedLast(rpcURLs', tried[d], PutBackBy(d) + 1)
        BY <2>2, <1>1, <1>4, UntriedPutBack
    <2>4. PutBackBy(d)' \in Int /\ PutBackBy(d)' <= PutBackBy(d) + 1
        BY <2>2, <1>1, <1>4 DEF PutBackBy, Goto, TypeOK
    <2> QED BY <2>2, <2>3, <2>4, <1>5, UntriedFewer DEF TypeOK
<1>11. TriedOK'
    BY <1>4, <1>10 DEF TriedOK
<1> QED BY <1>5, <1>9, <1>11 DEF IInv

LEMMA NextPreserves == IInv /\ [Next]_vars => IInv'
<1> SUFFICES ASSUME IInv, [Next]_vars PROVE IInv'
    OBVIOUS
<1>0. TypeOK
    BY DEF IInv
\* Steps that leave the queue and the hands of the callers alone, and with
\* them what a call that stays under way has counted.
<1>s. ASSUME UNCHANGED <<rpcURLs, rpc>>, Holders' = Holders, TypeOK', TriedOK'
      PROVE  IInv'
    <2>1. Conserved'
        BY <1>s DEF IInv, Conserved
    <2> QED BY <1>s, <2>1 DEF IInv
<1>k. ASSUME UNCHANGED rpcURLs, NEW d \in Callers, UnderWay(d)', UnderWay(d),
             tried'[d] = tried[d], PutBackBy(d)' = PutBackBy(d)
      PROVE  tried'[d] = URLs \/ UntriedLast(rpcURLs', tried'[d], PutBackBy(d)')
    BY <1>k DEF IInv, TriedOK
<1>1. ASSUME NEW c \in Callers, Call(c) PROVE IInv'
    <2>1. TypeOK'
        <3>1. {rpc[d] : d \in Holders} \in SUBSET URLs
            BY <1>0 DEF TypeOK, Holders
        <3> QED BY <3>1, <1>0, <1>1 DEF Call, Goto, TypeOK
    <2>2. Holders' = Holders
        BY <1>0, <1>1 DEF Call, Goto, TypeOK, Holders, UnderWay
    <2>3. ASSUME NEW d \in Callers, UnderWay(d)'
          PROVE  tried'[d] = URLs \/ UntriedLast(rpcURLs', tried'[d], PutBackBy(d)')
        <3>1. CASE d # c
            <4>1. UnderWay(d) /\ tried'[d] = tried[d] /\ PutBackBy(d)' = PutBackBy(d)
                BY <3>1, <2>3, <1>0, <1>1 DEF Call, Goto, TypeOK, UnderWay, PutBackBy
            <4> QED BY <4>1, <2>3, <1>k, <1>1 DEF Call
        <3>2. CASE d = c
            <4>1. /\ Len(rpcURLs) >= 1 /\ PutBackBy(c)' = 0
                  /\ tried'[c] = {rpc[e] : e \in Holders} /\ rpcURLs' = rpcURLs
                BY <3>2, <2>3, <1>0, <1>1, CallTypes
                DEF Call, Goto, TypeOK, UnderWay, PutBackBy
            <4>2. \A u \in URLs : u \notin tried'[c] <=> Within(u, rpcURLs)
                BY <4>1, ConservedMeans DEF IInv
            <4>3. 1 \in 1..Len(rpcURLs) /\ 0 < 1
                BY <4>1, <1>0, CallTypes
            <4>4. UntriedLast(rpcURLs, tried'[c], 0)
                BY <4>2, <4>3 DEF UntriedLast, Within
            <4> QED BY <3>2, <4>1, <4>4
        <3> QED BY <3>1, <3>2
    <2> QED BY <2>1, <2>2, <2>3, <1>s, <1>1 DEF Call, TriedOK
<1>2. ASSUME NEW c \in Callers, Take(c) PROVE IInv'
    BY <1>2, TakePreserves
<1>3. ASSUME NEW c \in Callers, Probe(c) PROVE IInv'
    BY <1>3, ProbePreserves
<1>4. ASSUME NEW c \in Callers, Test(c) PROVE IInv'
    <2>1. TypeOK'
        BY <1>0, <1>4 DEF Test, Goto, Leave, TypeOK
    <2>2. Holders' = Holders
        BY <1>0, <1>4 DEF Test, Goto, Leave, TypeOK, Holders
    <2>3. ASSUME NEW d \in Callers, UnderWay(d)'
          PROVE  UnderWay(d) /\ tried'[d] = tried[d] /\ PutBackBy(d)' = PutBackBy(d)
        BY <2>3, <1>0, <1>4 DEF Test, Goto, Leave, TypeOK, UnderWay, PutBackBy
    <2>4. TriedOK'
        BY <2>3, <1>k, <1>4 DEF Test, TriedOK
    <2> QED BY <2>1, <2>2, <2>4, <1>s, <1>4 DEF Test
<1>5. ASSUME NEW c \in Callers, Fail(c) PROVE IInv'
    <2>1. TypeOK'
        BY <1>0, <1>5 DEF Fail, Goto, Leave, TypeOK
    <2>2. Holders' = Holders
        BY <1>0, <1>5 DEF Fail, Goto, Leave, TypeOK, Holders
    <2>3. ASSUME NEW d \in Callers, UnderWay(d)'
          PROVE  UnderWay(d) /\ tried'[d] = tried[d] /\ PutBackBy(d)' = PutBackBy(d)
        BY <2>3, <1>0, <1>5 DEF Fail, Goto, Leave, TypeOK, UnderWay, PutBackBy
    <2>4. TriedOK'
        BY <2>3, <1>k, <1>5 DEF Fail, TriedOK
    <2> QED BY <2>1, <2>2, <2>4, <1>s, <1>5 DEF Fail
<1>6. ASSUME NEW u \in URLs, Expire(u) PROVE IInv'
    <2>1. TypeOK'
        BY <1>0, <1>6 DEF Expire, TypeOK
    <2>2. Holders' = Holders /\ TriedOK'
        BY <1>6 DEF Expire, Holders, IInv, TriedOK, UnderWay, PutBackBy
    <2> QED BY <2>1, <2>2, <1>s, <1>6 DEF Expire
<1>7. CASE UNCHANGED vars
    <2>1. TypeOK' /\ Holders' = Holders /\ TriedOK'
        BY <1>0, <1>7 DEF vars, TypeOK, Holders, IInv, TriedOK, UnderWay, PutBackBy
    <2> QED BY <2>1, <1>s, <1>7 DEF vars
<1> QED BY <1>1, <1>2, <1>3, <1>4, <1>5, <1>6, <1>7 DEF Next, Step

-----------------------------------------------------------------------------
(* The theorems.                                                           *)

(* The strengthened invariant holds in every reachable state.              *)
THEOREM Invariance == Spec => []IInv
BY InitEstablishes, NextPreserves, PTL DEF Spec

(* Types, for any number of endpoints and calls.                           *)
THEOREM TypeCorrect == Spec => []TypeOK
<1>1. IInv => TypeOK
    BY DEF IInv
<1> QED BY <1>1, Invariance, PTL

(* No interleaving of getRPC calls loses or duplicates an endpoint.        *)
THEOREM EndpointsConserved == Spec => []Conserved
<1>1. IInv => Conserved
    BY DEF IInv
<1> QED BY <1>1, Invariance, PTL

(* "No healthy RPCs" is thrown only after every endpoint was tried by this  *)
(* call or by another one beside it.                                       *)
THEOREM FailsAfterTrying == Spec => FailsAfterAll
<1>1. ASSUME IInv, [Next]_vars,
             NEW c \in Callers, pc[c] = "loop", pc'[c] = "failed"
      PROVE  tried[c] = URLs
    <2>0. TypeOK
        BY <1>1 DEF IInv
    <2>1. Fail(c)
        <3>1. ASSUME NEW d \in Callers, Call(d) \/ Take(d) \/ Probe(d) \/ Test(d) PROVE FALSE
            BY <3>1, <2>0, <1>1 DEF Call, Take, Probe, Test, Goto, Leave, TypeOK, UnderWay
        <3>2. ASSUME NEW d \in Callers, Fail(d) PROVE d = c
            BY <3>2, <2>0, <1>1 DEF Fail, Goto, Leave, TypeOK
        <3>3. ASSUME NEW u \in URLs, Expire(u) PROVE FALSE
            BY <3>3, <1>1 DEF Expire
        <3>4. ASSUME UNCHANGED vars PROVE FALSE
            BY <3>4, <1>1 DEF vars
        <3> QED BY <3>1, <3>2, <3>3, <3>4, <1>1 DEF Next, Step
    <2>2. numTries[c] >= Len(rpcURLs) /\ numTries[c] \in Nat /\ Len(rpcURLs) \in Nat
        BY <2>0, <2>1, CallTypes DEF Fail
    <2>3. PutBackBy(c) = numTries[c] /\ UnderWay(c)
        BY <1>1 DEF PutBackBy, UnderWay
    <2>4. ~UntriedLast(rpcURLs, tried[c], numTries[c])
        BY <2>2 DEF UntriedLast
    <2> QED BY <2>3, <2>4, <1>1 DEF IInv, TriedOK
<1>2. IInv /\ [Next]_vars
        => [\A c \in Callers : pc[c] = "loop" /\ pc'[c] = "failed" => tried[c] = URLs]_vars
    BY <1>1
<1> QED BY <1>2, Invariance, PTL DEF Spec, FailsAfterAll
=============================================================================
