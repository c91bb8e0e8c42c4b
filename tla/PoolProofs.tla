----------------------------- MODULE PoolProofs -----------------------------
(***************************************************************************)
(* The pool of connections, for any number of handlers and connections.    *)
(***************************************************************************)
EXTENDS ConnectionPool, SequenceTheorems, FiniteSetTheorems, TLAPS

-----------------------------------------------------------------------------
(* Queues without repetition.                                              *)

In(q, x) == \E i \in DOMAIN q : q[i] = x

LEMMA QueueIsJoined ==
    ASSUME NEW q \in Seq(Reqs), IsInjective(q), NEW x \in Reqs, ~In(q, x)
    PROVE  /\ Append(q, x) \in Seq(Reqs) /\ IsInjective(Append(q, x))
           /\ \A y : In(Append(q, x), y) <=> In(q, y) \/ y = x
<1> DEFINE n == Len(q)
           s == Append(q, x)
<1>1. /\ s \in Seq(Reqs) /\ n \in Nat /\ DOMAIN q = 1 .. n /\ DOMAIN s = 1 .. (n + 1)
      /\ s[n + 1] = x
      /\ \A i \in 1 .. n : s[i] = q[i] /\ q[i] # x
  BY DEF In
<1> HIDE DEF n, s
<1>2. IsInjective(s)
  BY <1>1 DEF IsInjective
<1>3. ASSUME NEW y PROVE In(s, y) <=> In(q, y) \/ y = x
  <2>1. ASSUME NEW i \in 1 .. n PROVE In(s, q[i])
    BY <1>1, <2>1 DEF In
  <2>2. In(s, x)
    BY <1>1 DEF In
  <2>3. ASSUME In(s, y), y # x PROVE In(q, y)
    BY <1>1, <2>3 DEF In
  <2> QED
    BY <1>1, <2>1, <2>2, <2>3 DEF In
<1> QED
  BY <1>1, <1>2, <1>3 DEF s

\* Without its i-th element, a queue has the others, in their order.
LEMMA QueueIsLeft ==
    ASSUME NEW q \in Seq(Reqs), IsInjective(q), NEW i \in DOMAIN q
    PROVE  /\ RemoveAt(q, i) \in Seq(Reqs) /\ IsInjective(RemoveAt(q, i))
           /\ \A y : In(RemoveAt(q, i), y) <=> In(q, y) /\ y # q[i]
<1> DEFINE n == Len(q)
           a == SubSeq(q, 1, i - 1)
           b == SubSeq(q, i + 1, n)
           s == RemoveAt(q, i)
<1>1. n \in Nat /\ DOMAIN q = 1 .. n /\ i \in 1 .. n /\ \A j \in 1 .. n : q[j] \in Reqs
  OBVIOUS
<1>2. /\ a \in Seq(Reqs) /\ Len(a) = i - 1
      /\ \A j \in 1 .. (i - 1) : a[j] = q[j]
  <2>1. \A j \in 1 .. (i - 1) : q[j] \in Reqs
    BY <1>1
  <2>2. /\ a \in Seq(Reqs)
        /\ Len(a) = IF 1 <= i - 1 THEN (i - 1) - 1 + 1 ELSE 0
        /\ \A j \in 1 .. ((i - 1) - 1 + 1) : a[j] = q[1 + j - 1]
    BY <1>1, <2>1, SubSeqProperties
  <2> HIDE DEF a, n
  <2> QED
    BY <1>1, <2>2
<1>3. /\ b \in Seq(Reqs) /\ Len(b) = n - i
      /\ \A j \in 1 .. (n - i) : b[j] = q[i + j]
  <2>1. \A j \in (i + 1) .. n : q[j] \in Reqs
    BY <1>1
  <2>2. /\ b \in Seq(Reqs)
        /\ Len(b) = IF i + 1 <= n THEN n - (i + 1) + 1 ELSE 0
        /\ \A j \in 1 .. (n - (i + 1) + 1) : b[j] = q[(i + 1) + j - 1]
    BY <1>1, <2>1, SubSeqProperties
  <2> HIDE DEF b, n
  <2>3. Len(b) = n - i
    BY <1>1, <2>2
  <2>4. ASSUME NEW j \in 1 .. (n - i) PROVE b[j] = q[i + j]
    <3>1. j \in 1 .. (n - (i + 1) + 1) /\ (i + 1) + j - 1 = i + j
      BY <1>1, <2>4
    <3> QED
      BY <2>2, <3>1
  <2> QED
    BY <2>2, <2>3, <2>4
<1>4. s = a \o b
  BY DEF RemoveAt
<1> HIDE DEF n, a, b, s
<1>5. /\ s \in Seq(Reqs) /\ Len(s) = n - 1 /\ DOMAIN s = 1 .. (n - 1)
      /\ \A j \in 1 .. (n - 1) : s[j] = IF j < i THEN q[j] ELSE q[j + 1]
  <2>1. /\ s \in Seq(Reqs) /\ Len(s) = Len(a) + Len(b)
        /\ \A j \in 1 .. (Len(a) + Len(b)) : s[j] = IF j <= Len(a) THEN a[j] ELSE b[j - Len(a)]
    BY <1>2, <1>3, <1>4
  <2>2. Len(s) = n - 1 /\ DOMAIN s = 1 .. (n - 1)
    BY <1>1, <1>2, <1>3, <2>1
  <2>3. ASSUME NEW j \in 1 .. (n - 1), j < i PROVE s[j] = q[j]
    BY <1>1, <1>2, <1>3, <2>1, <2>3
  <2>4. ASSUME NEW j \in 1 .. (n - 1), ~(j < i) PROVE s[j] = q[j + 1]
    <3>1. j - Len(a) \in 1 .. (n - i) /\ i + (j - Len(a)) = j + 1 /\ ~(j <= Len(a))
      BY <1>1, <1>2, <2>4
    <3>2. s[j] = b[j - Len(a)]
      BY <1>1, <1>2, <1>3, <2>1, <2>4, <3>1
    <3> QED
      BY <1>3, <3>1, <3>2
  <2> QED
    BY <2>1, <2>2, <2>3, <2>4
\* Where element j of the rest was.
<1> DEFINE at(j) == IF j < i THEN j ELSE j + 1
<1>6. ASSUME NEW j \in 1 .. (n - 1)
      PROVE  at(j) \in 1 .. n /\ at(j) # i /\ s[j] = q[at(j)]
  BY <1>1, <1>5, <1>6
<1>7. ASSUME NEW j \in 1 .. (n - 1), NEW k \in 1 .. (n - 1), at(j) = at(k) PROVE j = k
  BY <1>1, <1>7
<1> HIDE DEF at
<1>8. IsInjective(s)
  <2> SUFFICES ASSUME NEW j \in 1 .. (n - 1), NEW k \in 1 .. (n - 1), s[j] = s[k]
               PROVE  j = k
    BY <1>5 DEF IsInjective
  <2>1. q[at(j)] = q[at(k)] /\ at(j) \in 1 .. n /\ at(k) \in 1 .. n
    BY <1>6
  <2>2. at(j) = at(k)
    BY <1>1, <2>1 DEF IsInjective
  <2> QED
    BY <1>7, <2>2
<1>9. ASSUME NEW y PROVE In(s, y) <=> In(q, y) /\ y # q[i]
  <2>1. ASSUME NEW j \in 1 .. (n - 1), s[j] = y PROVE In(q, y) /\ y # q[i]
    BY <1>1, <1>6, <2>1 DEF In, IsInjective
  <2>2. ASSUME NEW j \in 1 .. n, q[j] = y, y # q[i] PROVE In(s, y)
    <3>1. CASE j < i
      <4>1. j \in 1 .. (n - 1) /\ s[j] = y
        BY <1>1, <1>5, <2>2, <3>1
      <4> QED
        BY <1>5, <4>1 DEF In
    <3>2. CASE j > i
      <4>1. j - 1 \in 1 .. (n - 1) /\ s[j - 1] = y
        BY <1>1, <1>5, <2>2, <3>2
      <4> QED
        BY <1>5, <4>1 DEF In
    <3> QED
      BY <1>1, <2>2, <3>1, <3>2
  <2> QED
    BY <1>1, <1>5, <2>1, <2>2 DEF In
<1> QED
  BY <1>5, <1>8, <1>9 DEF s

\* The head of a queue is the first of its elements.
LEMMA QueueIsServed ==
    ASSUME NEW q \in Seq(Reqs), IsInjective(q), q # <<>>
    PROVE  /\ Tail(q) \in Seq(Reqs) /\ IsInjective(Tail(q))
           /\ Head(q) \in Reqs /\ In(q, Head(q))
           /\ \A y : In(Tail(q), y) <=> In(q, y) /\ y # Head(q)
<1> DEFINE n == Len(q)
           s == Tail(q)
           h == Head(q)
<1>1. /\ n \in Nat \ {0} /\ DOMAIN q = 1 .. n /\ h = q[1] /\ h \in Reqs
      /\ s \in Seq(Reqs) /\ Len(s) = n - 1 /\ DOMAIN s = 1 .. (n - 1)
      /\ \A j \in 1 .. (n - 1) : s[j] = q[j + 1]
  OBVIOUS
<1> HIDE DEF n, s, h
<1>2. IsInjective(s)
  <2> SUFFICES ASSUME NEW j \in 1 .. (n - 1), NEW k \in 1 .. (n - 1), s[j] = s[k]
               PROVE  j = k
    BY <1>1 DEF IsInjective
  <2>1. q[j + 1] = q[k + 1] /\ j + 1 \in 1 .. n /\ k + 1 \in 1 .. n
    BY <1>1
  <2>2. j + 1 = k + 1
    BY <1>1, <2>1 DEF IsInjective
  <2> QED
    BY <2>2
<1>3. ASSUME NEW y PROVE In(s, y) <=> In(q, y) /\ y # h
  <2>1. ASSUME NEW j \in 1 .. (n - 1), s[j] = y PROVE In(q, y) /\ y # h
    BY <1>1, <2>1 DEF In, IsInjective
  <2>2. ASSUME NEW j \in 1 .. n, q[j] = y, y # h PROVE In(s, y)
    <3>1. j - 1 \in 1 .. (n - 1) /\ s[j - 1] = y
      BY <1>1, <2>2
    <3> QED
      BY <1>1, <3>1 DEF In
  <2> QED
    BY <1>1, <2>1, <2>2 DEF In
<1> QED
  BY <1>1, <1>2, <1>3 DEF s, h, In

-----------------------------------------------------------------------------
(* What may be ahead of a handler.                                         *)

Rests == UNION { Suffixes(p) : p \in Plans }

Kinds == {"sql", "supported", "settle", "rpc"}

LEMMA PlansAreSequences ==
    ASSUME NEW p \in Plans
    PROVE  p \in Seq(Kinds) /\ Len(p) \in Nat \ {0}
<1>1. Create \in Seq(Kinds) /\ Len(Create) \in Nat \ {0}
  BY DEF Create, Kinds
<1>2. Get \in Seq(Kinds) /\ Len(Get) \in Nat \ {0}
  BY DEF Get, Kinds
<1>3. Write \in Seq(Kinds) /\ Len(Write) \in Nat \ {0}
  BY DEF Write, Kinds
<1>4. Quote \in Seq(Kinds) /\ Len(Quote) \in Nat \ {0}
  BY DEF Quote, Kinds
<1>5. Pay \in Seq(Kinds) /\ Len(Pay) \in Nat \ {0}
  BY DEF Pay, Kinds
<1> QED
  BY <1>1, <1>2, <1>3, <1>4, <1>5 DEF Plans

LEMMA PlansAreRests == Plans \subseteq Rests /\ <<>> \in Rests
<1>1. ASSUME NEW p \in Plans PROVE p \in Suffixes(p) /\ <<>> \in Suffixes(p)
  <2>1. p \in Seq(Kinds) /\ 1 \in 1 .. Len(p)
    BY PlansAreSequences
  <2>2. SubSeq(p, 1, Len(p)) = p
    BY <2>1, SubSeqFull
  <2> QED
    BY <2>1, <2>2 DEF Suffixes
<1>2. Create \in Plans
  BY DEF Plans
<1> QED
  BY <1>1, <1>2 DEF Rests

LEMMA TailIsRest ==
    ASSUME NEW s \in Rests, s # <<>>
    PROVE  Tail(s) \in Rests
<1>1. PICK p \in Plans : s \in Suffixes(p)
  BY DEF Rests
<1>2. p \in Seq(Kinds)
  BY PlansAreSequences
<1>3. PICK l \in 1 .. Len(p) : s = SubSeq(p, l, Len(p))
  BY <1>1 DEF Suffixes
<1>4. Tail(s) = SubSeq(p, l + 1, Len(p))
  <2>1. Len(p) \in l .. Len(p)
    BY <1>2
  <2> QED
    BY <1>2, <1>3, <2>1, HeadTailOfSubSeq
<1>5. CASE l + 1 \in 1 .. Len(p)
  <2>1. Tail(s) \in Suffixes(p)
    BY <1>4, <1>5 DEF Suffixes
  <2> QED
    BY <2>1 DEF Rests
<1>6. CASE l + 1 \notin 1 .. Len(p)
  <2>1. SubSeq(p, l + 1, Len(p)) = <<>>
    BY <1>2, <1>6, SubSeqEmpty
  <2> QED
    BY <1>4, <2>1, PlansAreRests
<1> QED
  BY <1>5, <1>6

-----------------------------------------------------------------------------
(* The invariant.                                                          *)

PoolInvariant ==
    /\ PoolType
    /\ IsFiniteSet(held)
    /\ ConnectionsServeStatements

\* A step that leaves plan, queue and held in order leaves all in order.
LEMMA InOrder ==
    ASSUME plan' \in [Reqs -> Rests], facilitator' \in {"up", "refusing", "silent"},
           queue' \in Seq(Reqs), IsInjective(queue'),
           held' \subseteq Reqs, IsFiniteSet(held'), Cardinality(held') <= MaxConnections,
           \A r \in Reqs : Awaits(r, "sql")' <=> r \in held' \/ In(queue', r),
           \A r \in held' : ~In(queue', r)
    PROVE  PoolInvariant'
<1>1. PoolType'
  BY DEF PoolType, Rests
<1>2. ConnectionsServeStatements'
  BY DEF ConnectionsServeStatements, Queued, In
<1> QED
  BY <1>1, <1>2 DEF PoolInvariant

LEMMA PoolParts ==
    ASSUME PoolInvariant
    PROVE  /\ plan \in [Reqs -> Rests] /\ facilitator \in {"up", "refusing", "silent"}
           /\ queue \in Seq(Reqs) /\ IsInjective(queue)
           /\ held \subseteq Reqs /\ IsFiniteSet(held) /\ Cardinality(held) \in Nat
           /\ Cardinality(held) <= MaxConnections /\ MaxConnections \in Nat \ {0}
           /\ \A r \in Reqs : Awaits(r, "sql") <=> r \in held \/ In(queue, r)
           /\ \A r \in held : ~In(queue, r)
  BY PoolAssumption, FS_CardinalityType
     DEF PoolInvariant, PoolType, Rests, ConnectionsServeStatements, Queued, In

\* Giving back a connection, or none, leaves no more of them out.
LEMMA GivenBack ==
    ASSUME PoolInvariant, NEW r
    PROVE  /\ held \ {r} \subseteq Reqs /\ IsFiniteSet(held \ {r})
           /\ Cardinality(held \ {r}) <= MaxConnections
<1>1. /\ IsFiniteSet(held \ {r})
      /\ Cardinality(held \ {r}) = IF r \in held THEN Cardinality(held) - 1 ELSE Cardinality(held)
  BY PoolParts, FS_RemoveElement
<1> QED
  BY <1>1, PoolParts

\* A handler that is not in the queue goes on.
LEMMA AdvanceKeeps ==
    ASSUME PoolInvariant, NEW r \in Reqs, NEW ahead \in Rests, ~In(queue, r),
           Advance(r, ahead), UNCHANGED facilitator
    PROVE  PoolInvariant'
<1> DEFINE wants == ahead # <<>> /\ Head(ahead) = "sql"
<1>1. /\ plan' = [plan EXCEPT ![r] = ahead] /\ held' = held \ {r}
      /\ queue' = IF wants THEN Append(queue, r) ELSE queue
  BY DEF Advance, JoinQueue
<1>2. /\ queue' \in Seq(Reqs) /\ IsInjective(queue')
      /\ \A q \in Reqs : In(queue', q) <=> In(queue, q) \/ (wants /\ q = r)
  <2> HIDE DEF wants
  <2>1. CASE wants
    BY <1>1, <2>1, PoolParts, QueueIsJoined
  <2>2. CASE ~wants
    BY <1>1, <2>2, PoolParts
  <2> QED
    BY <2>1, <2>2
<1>3. plan' \in [Reqs -> Rests] /\ plan'[r] = ahead /\ \A q \in Reqs \ {r} : plan'[q] = plan[q]
  BY <1>1, PoolParts
<1>4. ASSUME NEW q \in Reqs
      PROVE  Awaits(q, "sql")' <=> q \in held' \/ In(queue', q)
  <2>1. CASE q = r
    <3>1. Awaits(q, "sql")' <=> wants
      BY <1>3, <2>1 DEF Awaits
    <3> QED
      BY <1>1, <1>2, <2>1, <3>1
  <2>2. CASE q # r
    <3>1. Awaits(q, "sql")' <=> Awaits(q, "sql")
      BY <1>3, <2>2 DEF Awaits
    <3> QED
      BY <1>1, <1>2, <2>2, <3>1, PoolParts
  <2> QED
    BY <2>1, <2>2
<1>5. \A q \in held' : ~In(queue', q)
  BY <1>1, <1>2, PoolParts
<1> QED
  BY <1>1, <1>2, <1>3, <1>4, <1>5, PoolParts, GivenBack, InOrder

\* Nor is one in the queue that holds a connection or waits for another thing.
LEMMA NotQueued ==
    ASSUME PoolInvariant, NEW r \in Reqs, r \in held \/ ~Awaits(r, "sql")
    PROVE  ~In(queue, r)
  BY PoolParts

LEMMA AcquireKeeps ==
    ASSUME PoolInvariant, Acquire
    PROVE  PoolInvariant'
<1> DEFINE h == Head(queue)
<1>1. /\ queue # <<>> /\ Cardinality(held) < MaxConnections
      /\ held' = held \cup {h} /\ queue' = Tail(queue) /\ UNCHANGED <<plan, facilitator>>
  BY DEF Acquire
<1>2. /\ queue' \in Seq(Reqs) /\ IsInjective(queue') /\ h \in Reqs /\ In(queue, h)
      /\ \A q \in Reqs : In(queue', q) <=> In(queue, q) /\ q # h
  BY <1>1, PoolParts, QueueIsServed
<1> HIDE DEF h
<1>3. /\ IsFiniteSet(held')
      /\ Cardinality(held') = IF h \in held THEN Cardinality(held) ELSE Cardinality(held) + 1
  BY <1>1, PoolParts, FS_AddElement
<1>4. Cardinality(held') <= MaxConnections
  BY <1>1, <1>3, PoolParts
<1>5. \A q \in Reqs : Awaits(q, "sql")' <=> Awaits(q, "sql")
  BY <1>1 DEF Awaits
<1> QED
  BY <1>1, <1>2, <1>3, <1>4, <1>5, PoolParts, InOrder

LEMMA AbandonKeeps ==
    ASSUME PoolInvariant, NEW r \in Reqs, Abandon(r)
    PROVE  PoolInvariant'
<1>1. /\ plan' = [plan EXCEPT ![r] = <<>>] /\ held' = held \ {r} /\ UNCHANGED facilitator
  BY DEF Abandon
<1>2. /\ queue' \in Seq(Reqs) /\ IsInjective(queue')
      /\ \A q \in Reqs : In(queue', q) <=> In(queue, q) /\ q # r
  <2>1. CASE ~Queued(r) /\ UNCHANGED queue
    BY <2>1, PoolParts DEF Queued, In
  <2>2. ASSUME NEW i \in DOMAIN queue, queue[i] = r, queue' = RemoveAt(queue, i)
        PROVE  /\ queue' \in Seq(Reqs) /\ IsInjective(queue')
               /\ \A q \in Reqs : In(queue', q) <=> In(queue, q) /\ q # r
    BY <2>2, PoolParts, QueueIsLeft
  <2> QED
    BY <2>1, <2>2 DEF Abandon
<1>3. plan' \in [Reqs -> Rests] /\ plan'[r] = <<>> /\ \A q \in Reqs \ {r} : plan'[q] = plan[q]
  BY <1>1, PoolParts, PlansAreRests
<1>4. \A q \in Reqs : Awaits(q, "sql")' <=> Awaits(q, "sql") /\ q # r
  BY <1>3 DEF Awaits
<1> QED
  BY <1>1, <1>2, <1>3, <1>4, PoolParts, GivenBack, InOrder

LEMMA PoolInitSatisfies == PoolInit => PoolInvariant
<1> SUFFICES ASSUME PoolInit PROVE PoolInvariant
  OBVIOUS
<1>1. PoolType
  BY PlansAreRests DEF PoolInit, PoolType, Rests
<1>2. IsFiniteSet(held) /\ Cardinality(held) = 0
  BY FS_EmptySet DEF PoolInit
<1>3. ConnectionsServeStatements
  BY <1>2, PoolAssumption
     DEF PoolInit, ConnectionsServeStatements, Queued, Awaits, IsInjective
<1> QED
  BY <1>1, <1>2, <1>3 DEF PoolInvariant

LEMMA PoolStepKeeps == PoolInvariant /\ [PoolNext]_poolVars => PoolInvariant'
<1> SUFFICES ASSUME PoolInvariant, [PoolNext]_poolVars PROVE PoolInvariant'
  OBVIOUS
<1>1. ASSUME NEW r \in Reqs, plan[r] # <<>> PROVE Tail(plan[r]) \in Rests
  BY <1>1, PoolParts, TailIsRest
<1>2. <<>> \in Rests /\ Plans \subseteq Rests
  BY PlansAreRests
<1>3. ASSUME NEW r \in Reqs, NEW p \in Plans, Arrive(r, p) PROVE PoolInvariant'
  <2>1. ~In(queue, r)
    BY <1>3, NotQueued DEF Arrive, Awaits
  <2> QED
    BY <1>2, <1>3, <2>1, AdvanceKeeps DEF Arrive
<1>4. ASSUME NEW r \in Reqs, StatementEnds(r) PROVE PoolInvariant'
  BY <1>1, <1>2, <1>4, NotQueued, AdvanceKeeps DEF StatementEnds, Awaits
<1>5. ASSUME NEW r \in Reqs, CallReturns(r) PROVE PoolInvariant'
  <2>1. ~In(queue, r) /\ plan[r] # <<>>
    BY <1>5, NotQueued DEF CallReturns, SupportedReturns, SettleReturns, PollEnds, Awaits
  <2>2. /\ Advance(r, Tail(plan[r])) \/ Advance(r, <<>>)
        /\ UNCHANGED facilitator
    BY <1>5 DEF CallReturns, SupportedReturns, SettleReturns, PollEnds
  <2> QED
    BY <1>1, <1>2, <2>1, <2>2, AdvanceKeeps
<1>6. ASSUME NEW r \in Reqs, Abandon(r) PROVE PoolInvariant'
  BY <1>6, AbandonKeeps
<1>7. CASE Acquire
  BY <1>7, AcquireKeeps
<1>8. CASE FacilitatorChanges \/ UNCHANGED poolVars
  <2>1. /\ UNCHANGED <<plan, queue, held>>
        /\ facilitator' \in {"up", "refusing", "silent"}
    BY <1>8, PoolParts DEF FacilitatorChanges, poolVars
  <2>2. \A q \in Reqs : Awaits(q, "sql")' <=> Awaits(q, "sql")
    BY <2>1 DEF Awaits
  <2> QED
    BY <2>1, <2>2, PoolParts, InOrder
<1> QED
  BY <1>3, <1>4, <1>5, <1>6, <1>7, <1>8 DEF PoolNext

(***************************************************************************)
(* Connections are held for statements only, no more than there are, and   *)
(* every handler with a statement to execute has one or a single place in  *)
(* the queue for one, for any number of handlers and connections.          *)
(***************************************************************************)
THEOREM ConnectionsAreServed == PoolSpec => []ConnectionsServeStatements
<1>1. PoolInvariant => ConnectionsServeStatements
  BY DEF PoolInvariant
<1> QED
  BY <1>1, PoolInitSatisfies, PoolStepKeeps, PTL DEF PoolSpec

=============================================================================
