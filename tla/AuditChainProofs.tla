-------------------------- MODULE AuditChainProofs --------------------------
(* Theorems about AuditChain, for any sets of events and sessions and any bounds. *)
EXTENDS AuditChain, TLAPS, FiniteSetTheorems

-----------------------------------------------------------------------------
(* Hashes *)

\* A hash is a sequence of at most MaxSeq events.
LEMMA HashIsSeq == \A a : a \in Hash <=> a \in Seq(Event) /\ Len(a) <= MaxSeq
<1>1. MaxSeq \in Nat
  BY AuditAssumption
<1>2. ASSUME NEW a \in Hash PROVE a \in Seq(Event) /\ Len(a) <= MaxSeq
  <2>1. PICK n \in 0..MaxSeq : a \in [1..n -> Event]
    BY DEF Hash
  <2> QED BY <1>1, <2>1
<1>3. ASSUME NEW a \in Seq(Event), Len(a) <= MaxSeq PROVE a \in Hash
  <2>1. Len(a) \in 0..MaxSeq /\ a \in [1..Len(a) -> Event]
    BY <1>1, <1>3
  <2> QED BY <2>1 DEF Hash
<1> QED BY <1>2, <1>3

\* A hash extended by one event.
LEMMA HashExtended ==
  ASSUME NEW a \in Hash, NEW e \in Event
  PROVE  /\ Append(a, e) \in Seq(Event) /\ Len(a) \in Nat
         /\ Len(Append(a, e)) = Len(a) + 1 /\ Append(a, e)[Len(a) + 1] = e
         /\ \A i \in 1..Len(a) : Append(a, e)[i] = a[i]
         /\ Len(a) < MaxSeq => Append(a, e) \in Hash
<1>1. a \in Seq(Event) /\ MaxSeq \in Nat
  BY HashIsSeq, AuditAssumption
<1>2. Append(a, e) \in Seq(Event) /\ Len(Append(a, e)) = Len(a) + 1 /\ Len(a) \in Nat
  BY <1>1
<1>3. Append(a, e)[Len(a) + 1] = e /\ \A i \in 1..Len(a) : Append(a, e)[i] = a[i]
  BY <1>1
<1>4. ASSUME NEW b, b = Append(a, e), Len(a) < MaxSeq PROVE b \in Hash
  <2>1. b \in Seq(Event) /\ Len(b) <= MaxSeq
    BY <1>1, <1>2, <1>4
  <2> QED BY <2>1, HashIsSeq
<1> QED BY <1>2, <1>3, <1>4

\* The greatest number of a set that is bounded.
LEMMA Greatest ==
  ASSUME NEW n \in Nat, NEW S \in SUBSET (0..n), S # {}
  PROVE  \E m \in S : \A x \in S : x <= m
<1> DEFINE R == OpToRel(<, Nat)
           T == {y \in Nat : n - y \in S}
<1>1. IsWellFoundedOn(R, Nat)
  BY NatLessThanWellFounded
<1>2. T \subseteq Nat /\ T # {}
  <2>1. PICK x \in S : TRUE
    OBVIOUS
  <2>2. n - x \in Nat /\ n - (n - x) = x
    BY <2>1
  <2> QED BY <2>1, <2>2
<1>3. PICK y \in T : \A z \in T : ~(<<z, y>> \in R)
  BY <1>1, <1>2, WFMin
<1>4. n - y \in S /\ y \in Nat
  BY <1>3
<1>5. ASSUME NEW x \in S PROVE x <= n - y
  <2>1. n - x \in Nat /\ n - (n - x) = x /\ x \in Nat
    OBVIOUS
  <2>2. n - x \in T
    BY <2>1
  <2>3. ~(n - x < y)
    BY <1>3, <1>4, <2>1, <2>2 DEF OpToRel
  <2> QED BY <1>4, <2>1, <2>3
<1> QED BY <1>4, <1>5

-----------------------------------------------------------------------------
(* Chains of rows *)

\* Hash a is that of the first events of hash b.
IsPre(a, b) == Len(a) <= Len(b) /\ \A i \in 1..Len(a) : a[i] = b[i]

\* The rows R hold the events of the tail's hash h that come after the hash B, one row for
\* each, in the order of their numbers.
Chain(R, B, h) ==
  /\ R \subseteq Row
  /\ B \in Hash /\ h \in Hash /\ IsPre(B, h)
  /\ \A r \in R : /\ r.chain = Append(r.prev, r.id)
                  /\ Len(B) <= Len(r.prev)
                  /\ IsPre(r.chain, h)
  /\ \A n \in Len(B) + 1..Len(h) : \E r \in R : Len(r.chain) = n
  /\ \A r, q \in R : /\ r.seq < q.seq <=> Len(r.chain) < Len(q.chain)
                     /\ r.seq = q.seq => r = q

\* The columns of a row.
LEMMA RowType ==
  ASSUME NEW r \in Row
  PROVE  /\ r.seq \in 1..MaxSeq /\ r.seq \in Nat /\ r.id \in Event
         /\ r.prev \in Hash /\ r.chain \in Hash /\ r.at \in Time /\ r.at \in Nat
<1>1. MaxSeq \in Nat /\ MaxClock \in Nat
  BY AuditAssumption
<1> QED BY <1>1 DEF Row, Seq1, Time

\* Two hashes of as many of the first events are the same.
LEMMA SamePre ==
  ASSUME NEW a \in Hash, NEW b \in Hash, NEW h, IsPre(a, h), IsPre(b, h), Len(a) = Len(b)
  PROVE  a = b
<1>1. a \in Seq(Event) /\ b \in Seq(Event)
  BY HashIsSeq
<1>2. Len(a) \in Nat /\ \A i \in 1..Len(a) : a[i] = b[i]
  BY <1>1 DEF IsPre
<1> QED BY <1>1, <1>2

\* A hash is one of the first events of itself, and so are those of its own first events.
LEMMA PreIsOrder ==
  ASSUME NEW a \in Hash, NEW b \in Hash, NEW h \in Hash
  PROVE  /\ IsPre(h, h)
         /\ IsPre(a, b) /\ IsPre(b, h) => IsPre(a, h)
         /\ IsPre(a, h) /\ IsPre(b, h) /\ Len(a) <= Len(b) => IsPre(a, b)
<1>1. Len(a) \in Nat /\ Len(b) \in Nat /\ Len(h) \in Nat
  BY HashIsSeq
<1> QED BY <1>1 DEF IsPre

\* What a row of a chain says of the chain.
LEMMA ChainRow ==
  ASSUME NEW R, NEW B, NEW h, Chain(R, B, h), NEW r \in R
  PROVE  /\ r.seq \in Nat /\ r.prev \in Hash /\ r.chain \in Hash /\ r.id \in Event
         /\ Len(B) \in Nat /\ Len(h) \in Nat /\ Len(r.prev) \in Nat
         /\ Len(r.chain) = Len(r.prev) + 1
         /\ Len(B) <= Len(r.prev) /\ Len(r.chain) <= Len(h)
         /\ IsPre(r.prev, h) /\ IsPre(r.chain, h)
         /\ h[Len(r.chain)] = r.id /\ r.chain = Append(r.prev, r.id)
<1>1. r.seq \in Nat /\ r.prev \in Hash /\ r.chain \in Hash /\ r.id \in Event
  BY AuditAssumption DEF Row, Seq1, Chain
<1>2. B \in Hash /\ h \in Hash
  BY DEF Chain
<1>3. Len(B) \in Nat /\ Len(h) \in Nat /\ Len(r.prev) \in Nat
  BY <1>1, <1>2, HashIsSeq
<1>4. r.chain = Append(r.prev, r.id) /\ Len(B) <= Len(r.prev) /\ IsPre(r.chain, h)
  BY DEF Chain
<1>5. /\ Len(r.chain) = Len(r.prev) + 1 /\ r.chain[Len(r.prev) + 1] = r.id
      /\ \A i \in 1..Len(r.prev) : r.chain[i] = r.prev[i]
  BY <1>1, <1>4, HashExtended
<1>6. Len(r.chain) <= Len(h) /\ h[Len(r.chain)] = r.id /\ IsPre(r.prev, h)
  BY <1>3, <1>4, <1>5 DEF IsPre
<1> QED BY <1>1, <1>3, <1>4, <1>5, <1>6

\* ORDER BY sequence_number LIMIT 1.
LEMMA LastIs ==
  ASSUME NEW R, NEW x \in R, \A q \in R : q.seq \in Nat /\ q.seq <= x.seq,
         \A q \in R : q.seq = x.seq => q = x
  PROVE  Last(R) = x
<1>1. Last(R) \in R /\ \A q \in R : q.seq <= Last(R).seq
  BY DEF Last
<1>2. Last(R).seq = x.seq
  BY <1>1
<1> QED BY <1>1, <1>2

\* The row with the least number is the first.
LEMMA FirstIs ==
  ASSUME NEW R, NEW x \in R, \A q \in R : q.seq \in Nat /\ q.seq >= x.seq,
         \A q \in R : q.seq = x.seq => q = x
  PROVE  First(R) = x
<1>1. First(R) \in R /\ \A q \in R : q.seq >= First(R).seq
  BY DEF First
<1>2. First(R).seq = x.seq
  BY <1>1
<1> QED BY <1>1, <1>2

\* Any rows of a chain have a last one.
LEMMA LastOfSome ==
  ASSUME NEW R, NEW B, NEW h, Chain(R, B, h), NEW S \in SUBSET R, S # {}
  PROVE  Last(S) \in S /\ \A q \in S : q.seq <= Last(S).seq
<1>1. MaxSeq \in Nat /\ \A r \in S : r.seq \in 0..MaxSeq /\ r.seq \in Nat
  BY AuditAssumption DEF Row, Seq1, Chain
<1> DEFINE N == {r.seq : r \in S}
<1>2. N \in SUBSET (0..MaxSeq) /\ N # {}
  BY <1>1
<1>3. PICK m \in N : \A n \in N : n <= m
  BY <1>1, <1>2, Greatest
<1>4. PICK x \in S : x.seq = m
  BY <1>3
<1>5. \A q \in S : q.seq <= x.seq /\ (q.seq = x.seq => q = x)
  BY <1>3, <1>4 DEF Chain
<1>6. Last(S) = x
  BY <1>1, <1>5, LastIs
<1> QED BY <1>5, <1>6

\* The last row of a chain holds the tail's hash.
LEMMA ChainLast ==
  ASSUME NEW R, NEW B, NEW h, Chain(R, B, h)
  PROVE  /\ R = {} => h = B
         /\ R # {} => /\ Last(R) \in R /\ Last(R).chain = h
                      /\ \A q \in R : q.seq <= Last(R).seq
<1>1. B \in Hash /\ h \in Hash /\ IsPre(B, h) /\ Len(B) \in Nat /\ Len(h) \in Nat
  BY HashIsSeq DEF Chain
<1>2. IsPre(h, h)
  BY <1>1, PreIsOrder
<1>3. ASSUME R = {} PROVE h = B
  <2>1. Len(B) = Len(h)
    BY <1>1, <1>3 DEF Chain, IsPre
  <2> QED BY <1>1, <1>2, <2>1, SamePre
<1>4. ASSUME R # {} PROVE Last(R).chain = h
  <2>1. PICK r \in R : TRUE
    BY <1>4
  <2>2. Len(h) \in Len(B) + 1..Len(h)
    BY <1>1, <2>1, ChainRow
  <2>3. PICK t \in R : Len(t.chain) = Len(h)
    BY <2>2 DEF Chain
  <2>4. \A q \in R : q.seq \in Nat /\ t.seq \in Nat /\ Len(q.chain) <= Len(t.chain)
    BY <2>3, ChainRow
  <2>5. \A q \in R : q.seq <= t.seq /\ (q.seq = t.seq => q = t)
    <3> SUFFICES ASSUME NEW q \in R PROVE q.seq <= t.seq /\ (q.seq = t.seq => q = t)
      OBVIOUS
    <3>1. /\ Len(q.chain) \in Nat /\ Len(t.chain) \in Nat
          /\ t.seq < q.seq <=> Len(t.chain) < Len(q.chain)
          /\ q.seq = t.seq => q = t
      BY ChainRow DEF Chain
    <3> QED BY <2>4, <3>1
  <2>6. Last(R) = t
    BY <2>4, <2>5, LastIs
  <2> QED BY <1>1, <1>2, <2>3, <2>6, ChainRow, SamePre
<1>5. R # {} => Last(R) \in R /\ \A q \in R : q.seq <= Last(R).seq
  BY LastOfSome
<1> QED BY <1>3, <1>4, <1>5

\* The first row of a chain links to the hash before the chain.
LEMMA ChainFirst ==
  ASSUME NEW R, NEW B, NEW h, Chain(R, B, h), R # {}
  PROVE  First(R) \in R /\ First(R).prev = B /\ \A q \in R : First(R).seq <= q.seq
<1>1. B \in Hash /\ IsPre(B, h) /\ Len(B) \in Nat /\ Len(h) \in Nat
  BY HashIsSeq DEF Chain
<1>2. PICK t \in R : Len(t.chain) = Len(B) + 1
  <2>1. PICK r \in R : TRUE
    OBVIOUS
  <2>2. Len(B) + 1 \in Len(B) + 1..Len(h)
    BY <1>1, <2>1, ChainRow
  <2> QED BY <2>2 DEF Chain
<1>3. ASSUME NEW q \in R
      PROVE  q.seq \in Nat /\ t.seq <= q.seq /\ (q.seq = t.seq => q = t)
  <2>1. /\ q.seq \in Nat /\ t.seq \in Nat
        /\ Len(q.chain) \in Nat /\ Len(t.chain) <= Len(q.chain)
    BY <1>1, <1>2, ChainRow
  <2>2. /\ q.seq < t.seq <=> Len(q.chain) < Len(t.chain)
        /\ q.seq = t.seq => q = t
    BY DEF Chain
  <2> QED BY <1>1, <1>2, <2>1, <2>2
<1>4. First(R) = t
  BY <1>3, FirstIs
<1>5. t.prev = B
  BY <1>1, <1>2, ChainRow, SamePre
<1> QED BY <1>3, <1>4, <1>5

\* The chain with one more row.
LEMMA ChainGrows ==
  ASSUME NEW R, NEW B, NEW h, Chain(R, B, h), NEW f \in Row,
         f.prev = h, f.chain = Append(h, f.id), \A r \in R : r.seq < f.seq
  PROVE  Chain(R \cup {f}, B, f.chain)
<1>1. /\ B \in Hash /\ h \in Hash /\ IsPre(B, h)
      /\ f.chain \in Hash /\ f.id \in Event /\ f.seq \in Nat
  <2>1. B \in Hash /\ h \in Hash /\ IsPre(B, h)
    BY DEF Chain
  <2>2. f.chain \in Hash /\ f.id \in Event /\ f.seq \in Nat
    BY RowType
  <2> QED BY <2>1, <2>2
<1>2. /\ Len(B) \in Nat /\ Len(h) \in Nat /\ Len(f.chain) = Len(h) + 1
      /\ \A i \in 1..Len(h) : f.chain[i] = h[i]
  BY <1>1, HashIsSeq, HashExtended
<1>3. IsPre(h, f.chain) /\ IsPre(f.chain, f.chain)
  BY <1>1, <1>2, PreIsOrder DEF IsPre
<1>4. IsPre(B, f.chain)
  BY <1>1, <1>3, PreIsOrder
<1>5. ASSUME NEW r \in R \cup {f}
      PROVE  /\ r.chain = Append(r.prev, r.id)
             /\ Len(B) <= Len(r.prev)
             /\ IsPre(r.chain, f.chain)
  <2>1. CASE r = f
    BY <1>1, <1>3, <2>1 DEF IsPre
  <2>2. CASE r \in R
    BY <1>1, <1>3, <2>2, ChainRow, PreIsOrder
  <2> QED BY <2>1, <2>2
<1>6. ASSUME NEW n \in Len(B) + 1..Len(f.chain) PROVE \E r \in R \cup {f} : Len(r.chain) = n
  <2>1. CASE n = Len(f.chain)
    BY <2>1
  <2>2. CASE n \in Len(B) + 1..Len(h)
    BY <2>2 DEF Chain
  <2> QED BY <1>2, <2>1, <2>2
<1>7. ASSUME NEW r \in R \cup {f}, NEW q \in R \cup {f}
      PROVE  /\ r.seq < q.seq <=> Len(r.chain) < Len(q.chain)
             /\ r.seq = q.seq => r = q
  <2>1. ASSUME NEW x \in R
        PROVE x.seq \in Nat /\ x.seq < f.seq /\ Len(x.chain) \in Nat /\ Len(x.chain) < Len(f.chain)
    BY <1>2, ChainRow
  <2>2. CASE r \in R /\ q \in R
    BY <2>2 DEF Chain
  <2>3. CASE r = f \/ q = f
    BY <1>1, <1>2, <2>1, <2>3
  <2> QED BY <2>2, <2>3
<1>8. R \cup {f} \subseteq Row
  BY DEF Chain
<1> QED BY <1>1, <1>4, <1>5, <1>6, <1>7, <1>8 DEF Chain

\* The chain without its first rows, up to row t.
LEMMA ChainCut ==
  ASSUME NEW R, NEW B, NEW h, Chain(R, B, h), NEW t \in R
  PROVE  Chain({r \in R : r.seq > t.seq}, t.chain, h)
<1> DEFINE S == {r \in R : r.seq > t.seq}
<1>1. S \subseteq Row /\ t.chain \in Hash /\ h \in Hash /\ IsPre(t.chain, h)
  BY ChainRow DEF Chain
<1>2. ASSUME NEW r \in R
      PROVE  /\ r.chain = Append(r.prev, r.id) /\ IsPre(r.chain, h)
             /\ Len(r.chain) = Len(r.prev) + 1 /\ Len(r.prev) \in Nat /\ r.seq \in Nat
             /\ r \in S <=> Len(r.chain) > Len(t.chain)
  <2>1. t.seq < r.seq <=> Len(t.chain) < Len(r.chain)
    BY DEF Chain
  <2> QED BY <2>1, ChainRow
<1>3. \A r \in S : Len(t.chain) <= Len(r.prev)
  BY <1>2, ChainRow
<1>4. ASSUME NEW n \in Len(t.chain) + 1..Len(h) PROVE \E r \in S : Len(r.chain) = n
  <2>1. n \in Len(B) + 1..Len(h) /\ n > Len(t.chain)
    BY ChainRow
  <2>2. PICK r \in R : Len(r.chain) = n
    BY <2>1 DEF Chain
  <2> QED BY <1>2, <2>1, <2>2
<1>5. \A r, q \in S : /\ r.seq < q.seq <=> Len(r.chain) < Len(q.chain)
                      /\ r.seq = q.seq => r = q
  BY DEF Chain
<1> QED BY <1>1, <1>2, <1>3, <1>4, <1>5 DEF Chain

\* The verifier finds nothing wrong with the rows from number n on, if it expects the first
\* to link to the hash sd and they are the events after sd.
LEMMA ChainIntact ==
  ASSUME NEW R, NEW B, NEW h, Chain(R, B, h), NEW n \in Nat, NEW sd \in Hash, IsPre(sd, h),
         Len(B) <= Len(sd), \A r \in R : r.seq >= n <=> Len(r.chain) > Len(sd)
  PROVE  Intact({r \in R : r.seq >= n}, sd)
<1> DEFINE S == {r \in R : r.seq >= n}
<1> SUFFICES ASSUME NEW r \in S
             PROVE  LET before == {q \in S : q.seq < r.seq} IN
                    /\ r.prev = IF before = {} THEN sd ELSE Last(before).chain
                    /\ ~PayloadLost(r)
                    /\ r.chain = Append(r.prev, r.id)
  BY DEF Intact
<1> DEFINE before == {q \in S : q.seq < r.seq}
<1>1. /\ r.prev \in Hash /\ IsPre(r.prev, h) /\ Len(r.prev) \in Nat /\ Len(sd) \in Nat
      /\ Len(r.chain) = Len(r.prev) + 1 /\ Len(r.chain) <= Len(h) /\ Len(B) <= Len(r.prev)
      /\ Len(r.chain) > Len(sd) /\ Len(h) \in Nat /\ Len(B) \in Nat
  BY HashIsSeq, ChainRow
<1>2. ASSUME NEW q \in R
      PROVE  /\ q \in before <=> Len(sd) < Len(q.chain) /\ Len(q.chain) <= Len(r.prev)
             /\ q.seq \in Nat /\ Len(q.chain) \in Nat /\ q.chain \in Hash /\ IsPre(q.chain, h)
  <2>1. q.seq < r.seq <=> Len(q.chain) < Len(r.chain)
    BY DEF Chain
  <2> QED BY <1>1, <2>1, ChainRow
<1>3. ASSUME before = {} PROVE r.prev = sd
  <2>1. Len(r.prev) <= Len(sd)
    <3> SUFFICES ASSUME Len(r.prev) > Len(sd) PROVE FALSE
      BY <1>1
    <3>1. Len(r.prev) \in Len(B) + 1..Len(h)
      BY <1>1
    <3>2. PICK q \in R : Len(q.chain) = Len(r.prev)
      BY <3>1 DEF Chain
    <3> QED BY <1>2, <1>3, <3>2
  <2> QED BY <1>1, <2>1, SamePre
<1>4. ASSUME before # {} PROVE r.prev = Last(before).chain
  <2>1. PICK x \in R : x \in before
    BY <1>4
  <2>2. Len(r.prev) \in Len(B) + 1..Len(h)
    BY <1>1, <1>2, <2>1
  <2>3. PICK p \in R : Len(p.chain) = Len(r.prev)
    BY <2>2 DEF Chain
  <2>4. p \in before
    BY <1>1, <1>2, <2>1, <2>3
  <2>5. ASSUME NEW q \in before PROVE q.seq \in Nat /\ q.seq <= p.seq /\ (q.seq = p.seq => q = p)
    <3>1. /\ p.seq < q.seq <=> Len(p.chain) < Len(q.chain)
          /\ q.seq = p.seq => q = p
      BY DEF Chain
    <3>2. q.seq \in Nat /\ p.seq \in Nat /\ Len(q.chain) \in Nat /\ Len(q.chain) <= Len(p.chain)
      BY <1>2, <2>3
    <3> QED BY <1>1, <2>3, <3>1, <3>2
  <2>6. Last(before) = p
    BY <2>4, <2>5, LastIs
  <2> QED BY <1>1, <1>2, <2>3, <2>6, SamePre
<1>5. r.chain = Append(r.prev, r.id)
  BY ChainRow
<1> QED BY <1>3, <1>4, <1>5 DEF PayloadLost

\* There are as many rows up to row t as events after the hash before the chain.
LEMMA ChainCount ==
  ASSUME NEW R, NEW B, NEW h, Chain(R, B, h), NEW t \in R
  PROVE  /\ IsFiniteSet({r \in R : r.seq <= t.seq})
         /\ Cardinality({r \in R : r.seq <= t.seq}) = Len(t.chain) - Len(B)
<1> DEFINE S == {r \in R : r.seq <= t.seq}
           T == Len(B) + 1..Len(t.chain)
           f == [r \in S |-> Len(r.chain)]
<1>1. ASSUME NEW r \in R
      PROVE  /\ Len(r.chain) \in Nat /\ Len(B) < Len(r.chain) /\ Len(r.chain) <= Len(h)
             /\ r \in S <=> Len(r.chain) <= Len(t.chain)
             /\ \A q \in R : Len(r.chain) = Len(q.chain) => r = q
  <2>1. /\ \A q \in R : /\ q.seq < r.seq <=> Len(q.chain) < Len(r.chain)
                        /\ r.seq < q.seq <=> Len(r.chain) < Len(q.chain)
                        /\ r.seq = q.seq => r = q
    BY DEF Chain
  <2>2. \A q \in R : q.seq \in Nat /\ Len(q.chain) \in Nat
    BY ChainRow
  <2>3. Len(B) < Len(r.chain) /\ Len(r.chain) <= Len(h)
    BY ChainRow
  <2> QED BY <2>1, <2>2, <2>3
<1>2. Len(B) \in Nat /\ Len(h) \in Nat
  BY ChainRow
<1>3. f \in Injection(S, T)
  BY <1>1, <1>2 DEF Injection, IsInjective
<1>4. f \in Surjection(S, T)
  <2>1. f \in [S -> T]
    BY <1>1, <1>2
  <2>2. ASSUME NEW n \in T PROVE \E r \in S : f[r] = n
    <3>1. n \in Len(B) + 1..Len(h)
      BY <1>1, <1>2
    <3>2. PICK r \in R : Len(r.chain) = n
      BY <3>1 DEF Chain
    <3> QED BY <1>1, <3>2
  <2> QED BY <2>1, <2>2 DEF Surjection
<1>5. IsFiniteSet(T) /\ Cardinality(T) = Len(t.chain) - Len(B)
  <2>1. Len(t.chain) \in Nat /\ Len(B) < Len(t.chain)
    BY <1>1
  <2>2. Len(B) + 1 \in Int /\ Len(t.chain) \in Int /\ ~(Len(B) + 1 > Len(t.chain))
    BY <1>2, <2>1
  <2> HIDE DEF T
  <2>3. IsFiniteSet(T) /\ Cardinality(T) = Len(t.chain) - (Len(B) + 1) + 1
    BY <2>2, FS_Interval DEF T
  <2> QED BY <1>2, <2>1, <2>3
<1>6. IsFiniteSet(S) /\ Cardinality(S) = Cardinality(T)
  BY <1>3, <1>4, <1>5, FS_Injection
<1> QED BY <1>5, <1>6

\* The same row but for its payload.
SameRow(r, q) == /\ r.seq = q.seq /\ r.id = q.id /\ r.prev = q.prev /\ r.chain = q.chain
                 /\ r.at = q.at

\* An erasure leaves the chain as it is.
LEMMA ChainErased ==
  ASSUME NEW R, NEW B, NEW h, Chain(R, B, h)
  PROVE  LET Q == {[r EXCEPT !.erased = @ \/ r.id \in Personal] : r \in R} IN
         /\ Chain(Q, B, h)
         /\ \A r \in R : \E q \in Q : SameRow(r, q)
         /\ \A q \in Q : \E r \in R : SameRow(r, q)
<1> DEFINE E(r) == [r EXCEPT !.erased = @ \/ r.id \in Personal]
           Q == {E(r) : r \in R}
<1>1. ASSUME NEW r \in R PROVE E(r) \in Row /\ SameRow(r, E(r))
  <2>1. r \in Row
    BY DEF Chain
  <2>2. E(r) = [r EXCEPT !.erased = r.erased \/ r.id \in Personal]
    OBVIOUS
  <2>3. (r.erased \/ r.id \in Personal) \in BOOLEAN
    BY <2>1 DEF Row
  <2> QED BY <2>1, <2>2, <2>3 DEF Row, SameRow
<1>2. Q \subseteq Row /\ \A r \in R : E(r) \in Q /\ SameRow(r, E(r))
  BY <1>1
<1>3. \A q \in Q : \E r \in R : q = E(r) /\ SameRow(r, q)
  BY <1>1
<1> HIDE DEF Q, E
<1>4. B \in Hash /\ h \in Hash /\ IsPre(B, h)
  BY DEF Chain
<1>5. ASSUME NEW q \in Q
      PROVE  q.chain = Append(q.prev, q.id) /\ Len(B) <= Len(q.prev) /\ IsPre(q.chain, h)
  <2>1. PICK r \in R : SameRow(r, q)
    BY <1>3
  <2>2. r.chain = Append(r.prev, r.id) /\ Len(B) <= Len(r.prev) /\ IsPre(r.chain, h)
    BY DEF Chain
  <2> QED BY <2>1, <2>2 DEF SameRow
<1>6. ASSUME NEW n \in Len(B) + 1..Len(h) PROVE \E q \in Q : Len(q.chain) = n
  <2>1. PICK r \in R : Len(r.chain) = n
    BY DEF Chain
  <2> QED BY <1>2, <2>1 DEF SameRow
<1>7. ASSUME NEW x \in Q, NEW y \in Q
      PROVE  /\ x.seq < y.seq <=> Len(x.chain) < Len(y.chain)
             /\ x.seq = y.seq => x = y
  <2>1. PICK r \in R : x = E(r) /\ SameRow(r, x)
    BY <1>3
  <2>2. PICK q \in R : y = E(q) /\ SameRow(q, y)
    BY <1>3
  <2>3. /\ r.seq < q.seq <=> Len(r.chain) < Len(q.chain)
        /\ r.seq = q.seq => r = q
    BY DEF Chain
  <2> QED BY <2>1, <2>2, <2>3 DEF SameRow
<1>8. Chain(Q, B, h)
  BY <1>2, <1>4, <1>5, <1>6, <1>7 DEF Chain
<1> QED BY <1>2, <1>3, <1>8 DEF Q, E

-----------------------------------------------------------------------------
(* The inductive invariant *)

\* The hash that the first row links to.
Base == IF segments = <<>> THEN Genesis ELSE segments[Len(segments)].terminal

\* The rows are the chain from the last segment on, and a segment never takes the last row.
RowsInv ==
  /\ Chain(rows, Base, TailHash)
  /\ \A r \in rows : SealedThrough < r.seq /\ r.seq < next /\ occurred[r.id] <= r.at
  /\ segments # <<>> => rows # {}
  /\ Len(TailHash) < next

SegmentsInv ==
  \A k \in DOMAIN segments :
    LET g == segments[k] IN
    /\ g.prev = IF k = 1 THEN Genesis ELSE segments[k - 1].terminal
    /\ g.count = Len(g.terminal) - Len(g.prev)
    /\ g.checkpoint <= Len(checkpoints)
    /\ g.checkpoint > 0 => checkpoints[g.checkpoint].tail >= g.last

\* Every checkpoint signs what was the tail.
CheckpointsInv ==
  \A k \in DOMAIN checkpoints :
    /\ IsPre(checkpoints[k].hash, TailHash)
    /\ checkpoints[k].tail <= TailSeq
    /\ k > 1 => checkpoints[k - 1].tail < checkpoints[k].tail

\* An event too old for any caller, a tick under way included.
Old(e) == occurred[e] + Backdate + 1 < clock

\* No event twice; one whose row was dropped is too old to come again.
EventsInv ==
  /\ \A i, j \in 1..Len(TailHash) : TailHash[i] = TailHash[j] => i = j
  /\ \A i \in 1..Len(Base) : Old(Base[i])

\* An append under way began within the last tick, with an event of an age that is accepted.
Flight(s) ==
  job[s] \in Event =>
    /\ start[s] <= clock /\ clock <= start[s] + 1
    /\ occurred[job[s]] <= start[s] /\ start[s] <= occurred[job[s]] + Backdate

\* A transaction that holds the lock: what it has read still holds.
Holding(s) ==
  /\ pc[s] \in {"locked", "insert", "commit"} => lock = s
  /\ pc[s] # "rejected"
  /\ pc[s] \in {"insert", "commit"} =>
       job[s] \in Event /\ tail[s] = TailHash /\ ~Stored(job[s])
  /\ pc[s] = "commit" =>
       /\ fresh[s] \in Row
       /\ fresh[s].id = job[s] /\ fresh[s].prev = tail[s] /\ fresh[s].at = start[s]
       /\ fresh[s].chain = Append(tail[s], job[s])
       /\ TailSeq < fresh[s].seq /\ Len(TailHash) < fresh[s].seq /\ fresh[s].seq < next

\* The numbers between n and m of rows past the retention period.
Expired(n, m) == {i \in n..m : \E r \in rows : r.seq = i /\ r.at + Retention < clock}

\* A proposed segment begins with the first row, ends with a row, and counts no row that is
\* not past the retention period.
CandidateInv ==
  job[Operator] = "seal" =>
    /\ candidate \in Segment /\ candidate.prev = Base
    /\ \A r \in rows : candidate.first <= r.seq
    /\ \E r \in rows : r.seq = candidate.last /\ r.chain = candidate.terminal
    /\ candidate.count <= Cardinality(Expired(candidate.first, candidate.last))

\* The hash is the one that the first row of the range links to, or will link to.
Seeded(s) ==
  /\ seed[s] \in Hash /\ IsPre(seed[s], TailHash) /\ Len(Base) <= Len(seed[s])
  /\ \A r \in rows : r.seq >= from[s] <=> Len(r.chain) > Len(seed[s])

\* A verification under way that no sealing has disturbed.
Verifying(s) ==
  pc[s] \in {"head", "segment", "walk", "alarm"} /\ quiet[s] =>
    /\ from[s] <= TailSeq + 1
    /\ pc[s] # "alarm"
    /\ pc[s] = "head" => from[s] = 0 /\ seed[s] = LastTerminal
    /\ pc[s] = "segment" => \A r \in rows : r.seq >= from[s]
    /\ pc[s] = "walk" => Seeded(s)

SessionsInv == \A s \in Session : Flight(s) /\ Holding(s) /\ Verifying(s)

IInv == /\ TypeOK /\ RowsInv /\ SegmentsInv /\ CheckpointsInv /\ EventsInv /\ CandidateInv
        /\ SessionsInv

-----------------------------------------------------------------------------
(* What a step leaves of the chain *)

\* The tail, as the rows and the last segment say it.
LEMMA TailFacts ==
  ASSUME TypeOK, RowsInv
  PROVE  /\ TailHash \in Hash /\ Base \in Hash /\ Len(TailHash) \in Nat /\ Len(Base) \in Nat
         /\ TailSeq \in Nat /\ TailSeq < next /\ next \in Nat
         /\ \A r \in rows : r.seq <= TailSeq
         /\ rows # {} => /\ Last(rows) \in rows /\ TailSeq = Last(rows).seq
                         /\ TailHash = Last(rows).chain
<1>1. Chain(rows, Base, TailHash)
  BY DEF RowsInv
<1>2. TailHash \in Hash /\ Base \in Hash /\ Len(TailHash) \in Nat /\ Len(Base) \in Nat
  BY <1>1, HashIsSeq DEF Chain
<1>3. next \in Nat /\ next > 0
  BY AuditAssumption DEF TypeOK
<1>4. CASE rows = {}
  <2>1. TailSeq = 0
    BY <1>4 DEF RowsInv, TailSeq, SealedThrough
  <2> QED BY <1>2, <1>3, <1>4, <2>1
<1>5. CASE rows # {}
  <2>1. Last(rows) \in rows /\ \A r \in rows : r.seq <= Last(rows).seq
    BY <1>1, <1>5, ChainLast
  <2>2. TailSeq = Last(rows).seq /\ TailHash = Last(rows).chain
    BY <1>5 DEF TailSeq, TailHash
  <2>3. Last(rows).seq \in Nat /\ Last(rows).seq < next
    BY <1>1, <2>1, ChainRow DEF RowsInv
  <2> QED BY <1>2, <1>3, <1>5, <2>1, <2>2, <2>3
<1> QED BY <1>4, <1>5

\* The step leaves the chain as it is, erased payloads apart.
Kept ==
  /\ segments' = segments /\ occurred' = occurred
  /\ rows' \subseteq Row /\ Chain(rows', Base, TailHash)
  /\ \A r \in rows : \E q \in rows' : SameRow(r, q)
  /\ \A q \in rows' : \E r \in rows : SameRow(r, q)
  /\ TailHash' = TailHash /\ TailSeq' = TailSeq

\* The chain is as it was when the rows, the segments and the events are.
LEMMA KeptUnchanged ==
  ASSUME TypeOK, RowsInv, UNCHANGED <<rows, segments, occurred>>
  PROVE  Kept
<1>1. TailHash' = TailHash /\ TailSeq' = TailSeq
  BY DEF TailHash, TailSeq, LastTerminal, SealedThrough
<1>2. \A r \in rows : SameRow(r, r)
  BY DEF SameRow
<1> QED BY <1>1, <1>2 DEF Kept, TypeOK, RowsInv

\* Erasing payloads leaves the chain as it was.
LEMMA KeptErased ==
  ASSUME TypeOK, RowsInv, Erase
  PROVE  Kept
<1>1. Chain(rows, Base, TailHash)
  BY DEF RowsInv
<1>2. /\ Chain(rows', Base, TailHash)
      /\ \A r \in rows : \E q \in rows' : SameRow(r, q)
      /\ \A q \in rows' : \E r \in rows : SameRow(r, q)
  BY <1>1, ChainErased DEF Erase
<1>3. segments' = segments /\ occurred' = occurred /\ rows # {}
  BY DEF Erase
<1>4. rows' # {} /\ rows' \subseteq Row
  BY <1>2, <1>3 DEF Chain
<1>5. Last(rows') \in rows' /\ Last(rows').chain = TailHash
  BY <1>2, <1>4, ChainLast
<1>6. TailHash' = TailHash
  BY <1>4, <1>5 DEF TailHash
<1>7. PICK r \in rows : SameRow(r, Last(rows'))
  BY <1>2, <1>5
<1>8. r.seq = Last(rows).seq
  <2>1. Last(rows) \in rows /\ Last(rows).chain = TailHash
    BY <1>1, <1>3, ChainLast
  <2>2. Len(r.chain) = Len(Last(rows).chain) /\ Len(r.chain) \in Nat
    BY <1>1, <1>5, <1>7, <2>1, ChainRow DEF SameRow
  <2>3. /\ r.seq < Last(rows).seq <=> Len(r.chain) < Len(Last(rows).chain)
        /\ Last(rows).seq < r.seq <=> Len(Last(rows).chain) < Len(r.chain)
    BY <1>1, <2>1 DEF Chain
  <2>4. r.seq \in Nat /\ Last(rows).seq \in Nat
    BY <1>1, <2>1, ChainRow
  <2> QED BY <2>2, <2>3, <2>4
<1>9. TailSeq' = TailSeq
  BY <1>3, <1>4, <1>7, <1>8 DEF TailSeq, SameRow
<1> QED BY <1>2, <1>3, <1>4, <1>6, <1>9 DEF Kept

\* What a step that leaves the chain as it is leaves of the invariants about the tables.
LEMMA KeptTables ==
  ASSUME TypeOK, RowsInv, Kept, next' \in Nat, next <= next'
  PROVE  /\ RowsInv' /\ Base' = Base /\ SealedThrough' = SealedThrough
         /\ LastTerminal' = LastTerminal
         /\ \A e : Stored(e)' <=> Stored(e)
         /\ SegmentsInv /\ CheckpointsInv /\ checkpoints' = checkpoints
              => SegmentsInv' /\ CheckpointsInv'
<1>1. Base' = Base /\ SealedThrough' = SealedThrough /\ LastTerminal' = LastTerminal
  BY DEF Kept, Base, SealedThrough, LastTerminal
<1>2. ASSUME NEW e PROVE Stored(e)' <=> Stored(e)
  BY DEF Kept, Stored, SameRow
<1>3. ASSUME NEW q \in rows'
      PROVE  SealedThrough' < q.seq /\ q.seq < next' /\ occurred'[q.id] <= q.at
  <2>1. PICK r \in rows : SameRow(r, q)
    BY DEF Kept
  <2>2. SealedThrough < r.seq /\ r.seq < next /\ occurred[r.id] <= r.at
    BY DEF RowsInv
  <2>3. r.seq \in Nat /\ next \in Nat
    BY TailFacts, ChainRow DEF RowsInv
  <2> QED BY <1>1, <2>1, <2>2, <2>3 DEF Kept, SameRow
<1>4. segments' # <<>> => rows' # {}
  BY DEF Kept, RowsInv
<1>5. Chain(rows', Base', TailHash')
  BY <1>1 DEF Kept
<1>6. Len(TailHash') < next'
  BY TailFacts DEF Kept, RowsInv
<1>7. RowsInv'
  BY <1>3, <1>4, <1>5, <1>6 DEF RowsInv
<1>8. ASSUME SegmentsInv, CheckpointsInv, checkpoints' = checkpoints
      PROVE  SegmentsInv' /\ CheckpointsInv'
  <2>1. SegmentsInv'
    BY <1>8 DEF SegmentsInv, Kept
  <2>2. CheckpointsInv'
    BY <1>8 DEF CheckpointsInv, Kept
  <2> QED BY <2>1, <2>2
<1> QED BY <1>1, <1>2, <1>7, <1>8

\* The clock is a number.
LEMMA ClockType ==
  ASSUME TypeOK
  PROVE  clock \in Nat /\ Backdate \in Nat /\ Retention \in Nat
           /\ \A e \in Event : occurred[e] \in Nat
<1>1. MaxClock \in Nat /\ Backdate \in Nat /\ Retention \in Nat
  BY AuditAssumption
<1> QED BY <1>1 DEF TypeOK, Time

\* What is said of the events stands while the chain is as it was.
LEMMA KeptEvents ==
  ASSUME TypeOK, RowsInv, EventsInv, Kept, clock' \in Nat, clock <= clock'
  PROVE  EventsInv'
<1>1. Base' = Base /\ TailHash' = TailHash /\ occurred' = occurred
  BY DEF Kept, Base
<1>2. ASSUME NEW i \in 1..Len(Base) PROVE Old(Base[i])'
  <2>1. Base[i] \in Event
    BY TailFacts, HashIsSeq
  <2>2. occurred[Base[i]] + Backdate + 1 < clock
    BY DEF EventsInv, Old
  <2>3. occurred[Base[i]] + Backdate + 1 < clock'
    BY <2>1, <2>2, ClockType
  <2> QED BY <1>1, <2>3 DEF Old
<1> QED BY <1>1, <1>2 DEF EventsInv

\* Rows do not stop being past the retention period.
LEMMA KeptCandidate ==
  ASSUME TypeOK, RowsInv, CandidateInv, Kept, clock' \in Nat, clock <= clock',
         job'[Operator] = "seal" => job[Operator] = "seal" /\ candidate' = candidate
  PROVE  CandidateInv'
<1> SUFFICES ASSUME job'[Operator] = "seal"
             PROVE  /\ candidate' \in Segment /\ candidate'.prev = Base'
                    /\ \A r \in rows' : candidate'.first <= r.seq
                    /\ \E r \in rows' : r.seq = candidate'.last /\ r.chain = candidate'.terminal
                    /\ candidate'.count <= Cardinality(Expired(candidate.first, candidate.last)')
  BY DEF CandidateInv
<1> DEFINE c == candidate
<1>1. /\ c \in Segment /\ c.prev = Base /\ candidate' = candidate
      /\ \A r \in rows : c.first <= r.seq
      /\ \E r \in rows : r.seq = c.last /\ r.chain = c.terminal
      /\ c.count <= Cardinality(Expired(c.first, c.last))
  BY DEF CandidateInv
<1>2. Base' = Base
  BY DEF Kept, Base
<1>3. \A r \in rows' : c.first <= r.seq
  BY <1>1 DEF Kept, SameRow
<1>4. \E r \in rows' : r.seq = c.last /\ r.chain = c.terminal
  BY <1>1 DEF Kept, SameRow
<1>5. Expired(c.first, c.last) \subseteq Expired(c.first, c.last)'
  <2> SUFFICES ASSUME NEW i \in c.first..c.last,
                      NEW r \in rows, r.seq = i, r.at + Retention < clock
               PROVE  \E q \in rows' : q.seq = i /\ q.at + Retention < clock'
    BY <1>1 DEF Expired
  <2>1. PICK q \in rows' : SameRow(r, q)
    BY DEF Kept
  <2>2. r.at \in Nat
    BY RowType DEF TypeOK
  <2> QED BY <2>1, <2>2, ClockType DEF SameRow
<1>6. c.first \in Int /\ c.last \in Int /\ c.count \in Nat
  BY <1>1, AuditAssumption DEF Segment, Seq1
<1>7. IsFiniteSet(Expired(c.first, c.last)')
  <2>1. IsFiniteSet(c.first..c.last)
    BY <1>6, FS_Interval
  <2>2. Expired(c.first, c.last)' \subseteq c.first..c.last
    BY <1>1 DEF Expired
  <2> QED BY <2>1, <2>2, FS_Subset
<1>8. /\ IsFiniteSet(Expired(c.first, c.last))
      /\ Cardinality(Expired(c.first, c.last)) <= Cardinality(Expired(c.first, c.last)')
  BY <1>5, <1>7, FS_Subset
<1>9. c.count <= Cardinality(Expired(c.first, c.last)')
  BY <1>1, <1>6, <1>7, <1>8, FS_CardinalityType
<1> QED BY <1>1, <1>2, <1>3, <1>4, <1>9

\* A session that does not take part in the step.
Aside(s) ==
  /\ pc'[s] = pc[s] /\ job'[s] = job[s] /\ start'[s] = start[s] /\ tail'[s] = tail[s]
  /\ fresh'[s] = fresh[s] /\ from'[s] = from[s] /\ seed'[s] = seed[s] /\ quiet'[s] = quiet[s]
  /\ lock = s => lock' = s

\* What is said of a session that waits aside stands while the chain is as it was.
LEMMA KeptSession ==
  ASSUME TypeOK, RowsInv, Kept, next' \in Nat, next <= next', clock' = clock,
         NEW s \in Session, Aside(s), Flight(s), Holding(s), Verifying(s)
  PROVE  Flight(s)' /\ Holding(s)' /\ Verifying(s)'
<1>1. /\ TailHash' = TailHash /\ TailSeq' = TailSeq /\ Base' = Base /\ occurred' = occurred
      /\ LastTerminal' = LastTerminal /\ \A e : Stored(e)' <=> Stored(e)
  BY KeptTables DEF Kept
<1>2. Flight(s)'
  BY <1>1 DEF Flight, Aside
<1>3. Holding(s)'
  <2>1. pc[s] = "commit" => fresh[s].seq \in Nat /\ fresh[s].seq < next'
    BY TailFacts, RowType DEF Holding
  <2> QED BY <1>1, <2>1 DEF Holding, Aside
<1>4. Verifying(s)'
  <2>1. ASSUME NEW q \in rows' PROVE \E r \in rows : r.seq = q.seq /\ r.chain = q.chain
    BY DEF Kept, SameRow
  <2>2. Seeded(s) => (\A r \in rows' : r.seq >= from[s] <=> Len(r.chain) > Len(seed[s]))
    BY <2>1 DEF Seeded
  <2>3. Aside(s) /\ Seeded(s) => Seeded(s)'
    BY <1>1, <2>2 DEF Seeded, Aside
  <2>4. (\A r \in rows : r.seq >= from[s]) => (\A r \in rows' : r.seq >= from[s])
    BY <2>1
  <2> QED BY <1>1, <2>3, <2>4 DEF Verifying, Aside
<1> QED BY <1>2, <1>3, <1>4

\* A session that begins, ends or is idle.
LEMMA IdleSession ==
  ASSUME NEW s \in Session, pc'[s] \in {"idle", "lock"}, Flight(s)'
  PROVE  Holding(s)' /\ Verifying(s)'
BY DEF Holding, Verifying

-----------------------------------------------------------------------------
(* The steps keep the invariant *)

\* A step that leaves the chain as it is and one session's transaction not under the lock.
LEMMA KeptByStep ==
  ASSUME IInv, TypeOK', Kept, next' \in Nat, next <= next', clock' = clock,
         SegmentsInv' /\ CheckpointsInv',
         job'[Operator] = "seal" => job[Operator] = "seal" /\ candidate' = candidate,
         NEW s \in Session, Flight(s)', Holding(s)', Verifying(s)',
         \A o \in Session : o # s => Aside(o)
  PROVE  IInv'
<1>1. RowsInv' /\ EventsInv' /\ CandidateInv'
  BY ClockType, KeptTables, KeptEvents, KeptCandidate DEF IInv
<1>2. ASSUME NEW o \in Session PROVE Flight(o)' /\ Holding(o)' /\ Verifying(o)'
  BY KeptSession DEF IInv, SessionsInv
<1> QED BY <1>1, <1>2 DEF IInv, SessionsInv

\* Where a step of one session leaves the tables alone.
LEMMA UnchangedByStep ==
  ASSUME IInv, TypeOK', UNCHANGED <<table, clock, occurred>>,
         job'[Operator] = "seal" => job[Operator] = "seal" /\ candidate' = candidate,
         NEW s \in Session, Flight(s)', Holding(s)', Verifying(s)',
         \A o \in Session : o # s => Aside(o)
  PROVE  IInv'
<1>1. /\ UNCHANGED <<rows, segments, occurred>> /\ checkpoints' = checkpoints
      /\ next' = next /\ clock' = clock /\ next \in Nat
  BY TailFacts DEF table, IInv
<1>2. Kept
  BY <1>1, KeptUnchanged DEF IInv
<1>3. SegmentsInv' /\ CheckpointsInv'
  BY <1>1, <1>2, KeptTables DEF IInv
<1> QED BY <1>1, <1>2, <1>3, KeptByStep

\* Names that are no event's.
LEMMA NoEvent ==
  /\ None \notin Event /\ "checkpoint" \notin Event /\ "seal" \notin Event
  /\ "verify" \notin Event /\ None \notin {"checkpoint", "seal", "verify"}
  /\ Operator \in Session /\ Operator \notin Server /\ Server \subseteq Session
  /\ None \notin Session /\ None \notin Hash
BY AuditAssumption DEF Session

\* The values that the types start from.
LEMMA ValueTypes ==
  /\ Genesis \in Hash
  /\ 0 \in Time /\ 0 \in 0..MaxSeq /\ MaxSeq \in Nat /\ MaxClock \in Nat
<1>1. MaxSeq \in Nat /\ MaxClock \in Nat
  BY AuditAssumption
<1>2. Genesis \in Seq(Event) /\ Len(Genesis) <= MaxSeq
  BY <1>1 DEF Genesis
<1>3. Genesis \in Hash
  BY <1>2, HashIsSeq
<1> QED BY <1>1, <1>3 DEF Time

\* A transaction that ends.
LEMMA LeaveEnds ==
  ASSUME TypeOK, NEW s \in Session, Leave(s)
  PROVE  /\ pc' \in [Session -> {"idle", "lock", "locked", "insert", "commit", "rejected",
                                 "head", "segment", "walk", "alarm"}]
         /\ job' \in [Session -> Event \cup {"checkpoint", "seal", "verify", None}]
         /\ start' \in [Session -> Time] /\ tail' \in [Session -> Hash]
         /\ fresh' \in [Session -> Row \cup {None}] /\ candidate' \in Segment \cup {None}
         /\ from' \in [Session -> 0..MaxSeq] /\ seed' \in [Session -> Hash \cup {None}]
         /\ lock' \in Session \cup {None}
         /\ pc'[s] = "idle" /\ job'[s] = None
         /\ job'[Operator] = "seal" => job[Operator] = "seal" /\ candidate' = candidate
         /\ \A o \in Session : o # s /\ quiet'[o] = quiet[o] => Aside(o)
<1>1. /\ pc' \in [Session -> {"idle", "lock", "locked", "insert", "commit", "rejected",
                              "head", "segment", "walk", "alarm"}]
      /\ start' \in [Session -> Time] /\ tail' \in [Session -> Hash]
  BY ValueTypes DEF TypeOK, Leave
<1>2. /\ job' \in [Session -> Event \cup {"checkpoint", "seal", "verify", None}]
      /\ fresh' \in [Session -> Row \cup {None}] /\ candidate' \in Segment \cup {None}
      /\ from' \in [Session -> 0..MaxSeq] /\ seed' \in [Session -> Hash \cup {None}]
      /\ lock' \in Session \cup {None}
  BY ValueTypes DEF TypeOK, Leave
<1>3. pc'[s] = "idle" /\ job'[s] = None
  BY DEF TypeOK, Leave
<1>4. job'[Operator] = "seal" => job[Operator] = "seal" /\ candidate' = candidate
  <2>1. CASE s = Operator
    BY <1>3, <2>1, NoEvent DEF TypeOK, Leave
  <2>2. CASE s # Operator
    BY <2>2, NoEvent DEF TypeOK, Leave
  <2> QED BY <2>1, <2>2
<1>5. ASSUME NEW o \in Session, o # s, quiet'[o] = quiet[o] PROVE Aside(o)
  BY <1>5 DEF TypeOK, Leave, Aside
<1> QED BY <1>1, <1>2, <1>3, <1>4, <1>5

\* A session takes the advisory lock of the chain.
LEMMA TakeLockStep ==
  ASSUME IInv, NEW s \in Session, TakeLock(s)
  PROVE  IInv'
<1>1. TypeOK /\ Flight(s)
  BY DEF IInv, SessionsInv
<1>2. TypeOK'
  BY <1>1, NoEvent DEF TypeOK, TakeLock, Step, table, walk
<1>3. Flight(s)'
  BY <1>1 DEF TypeOK, TakeLock, Flight, table, walk
<1>4. pc'[s] = "locked" /\ lock' = s
  BY <1>1 DEF TypeOK, TakeLock, Step
<1>5. Holding(s)' /\ Verifying(s)'
  BY <1>4 DEF Holding, Verifying
<1>6. ASSUME NEW o \in Session, o # s PROVE Aside(o)
  BY <1>1, <1>6, NoEvent DEF TypeOK, TakeLock, LockIsFree, Step, Aside, table, walk
<1> QED BY <1>2, <1>3, <1>5, <1>6, UnchangedByStep DEF TakeLock

\* A transaction that ends with the tables as they are.
LEMMA LeaveStep ==
  ASSUME IInv, NEW s \in Session, Leave(s), UNCHANGED <<table, clock, occurred>>,
         quiet' \in [Session -> BOOLEAN], \A o \in Session : o # s => quiet'[o] = quiet[o]
  PROVE  IInv'
<1>1. TypeOK
  BY DEF IInv
<1>2. TypeOK'
  BY <1>1, LeaveEnds DEF TypeOK, table
<1>3. pc'[s] = "idle" /\ job'[s] = None
  BY <1>1, LeaveEnds
<1>4. Flight(s)' /\ Holding(s)' /\ Verifying(s)'
  BY <1>3, NoEvent DEF Flight, Holding, Verifying
<1>5. ASSUME NEW o \in Session, o # s PROVE Aside(o)
  BY <1>1, <1>5, LeaveEnds
<1>6. job'[Operator] = "seal" => job[Operator] = "seal" /\ candidate' = candidate
  BY <1>1, LeaveEnds
<1> QED BY <1>2, <1>4, <1>5, <1>6, UnchangedByStep

\* A transaction ends, or its session breaks.
LEMMA EndStep ==
  ASSUME IInv, NEW s \in Session, End(s), UNCHANGED <<table, clock, occurred>>
  PROVE  IInv'
<1>1. /\ quiet' \in [Session -> BOOLEAN]
      /\ \A o \in Session : o # s => quiet'[o] = quiet[o]
  BY DEF IInv, TypeOK, End
<1> QED BY <1>1, LeaveStep DEF End

\* append begins with an event.
LEMMA BeginAppendStep ==
  ASSUME IInv, NEW s \in Server, NEW e \in Event, BeginAppend(s, e)
  PROVE  IInv'
<1>1. TypeOK /\ s \in Session /\ s # Operator
  BY NoEvent DEF IInv
<1>2. TypeOK'
  BY <1>1 DEF TypeOK, BeginAppend, Step, table, walk
<1>3. pc'[s] = "lock" /\ job'[s] = e /\ start'[s] = clock
  BY <1>1 DEF TypeOK, BeginAppend, Step
<1>4. Flight(s)'
  BY <1>1, <1>3, ClockType DEF Flight, BeginAppend, ClockWithinBounds
<1>5. Holding(s)' /\ Verifying(s)'
  BY <1>3 DEF Holding, Verifying
<1>6. ASSUME NEW o \in Session, o # s PROVE Aside(o)
  BY <1>1, <1>6 DEF TypeOK, BeginAppend, Step, Aside, table, walk
<1>7. job'[Operator] = "seal" => job[Operator] = "seal" /\ candidate' = candidate
  BY <1>1, NoEvent DEF TypeOK, BeginAppend
<1> QED BY <1>1, <1>2, <1>4, <1>5, <1>6, <1>7, UnchangedByStep DEF BeginAppend

\* append reads the tail of the chain.
LEMMA ReadTailStep ==
  ASSUME IInv, NEW s \in Server, ReadTail(s)
  PROVE  IInv'
<1>1. TypeOK /\ s \in Session /\ s # Operator /\ Flight(s) /\ Holding(s)
  BY NoEvent DEF IInv, SessionsInv
<1>2. CASE Stored(job[s])
  BY <1>1, <1>2, EndStep DEF ReadTail
<1>3. CASE ~Stored(job[s])
  <2>1. /\ tail' = [tail EXCEPT ![s] = TailHash] /\ pc' = [pc EXCEPT ![s] = "insert"]
        /\ UNCHANGED <<lock, job, start, fresh, candidate, walk, table, clock, occurred>>
    BY <1>3 DEF ReadTail, Step
  <2>2. TypeOK'
    BY <1>1, <2>1, TailFacts DEF IInv, TypeOK, table, walk
  <2>3. Flight(s)'
    BY <1>1, <2>1 DEF Flight
  <2>4. Holding(s)' /\ Verifying(s)'
    <3>1. pc'[s] = "insert" /\ tail'[s] = TailHash
      BY <1>1, <2>1 DEF TypeOK
    <3>2. lock' = s
      BY <1>1, <2>1 DEF ReadTail, Holding
    <3>3. TailHash' = TailHash /\ job'[s] \in Event /\ ~Stored(job[s])'
      BY <1>3, <2>1 DEF TailHash, LastTerminal, Stored, table, ReadTail
    <3> QED BY <3>1, <3>2, <3>3 DEF Holding, Verifying
  <2>5. ASSUME NEW o \in Session, o # s PROVE Aside(o)
    BY <1>1, <2>1, <2>5 DEF TypeOK, Aside, walk
  <2> QED BY <1>1, <2>1, <2>2, <2>3, <2>4, <2>5, UnchangedByStep
<1> QED BY <1>2, <1>3

\* A new row of the tail is refused by no committed row.
LEMMA NoClash ==
  ASSUME TypeOK, RowsInv, NEW e \in Event, ~Stored(e),
         NEW r, r.id = e, r.prev = TailHash, r.chain = Append(TailHash, e)
  PROVE  ~Clash(r, rows)
<1> SUFFICES ASSUME NEW q \in rows PROVE q.id # e /\ q.prev # TailHash /\ q.chain # r.chain
  BY DEF Clash
<1>1. Chain(rows, Base, TailHash)
  BY DEF RowsInv
<1>2. q.id # e
  BY DEF Stored
<1>3. /\ Len(q.prev) \in Nat /\ Len(q.chain) = Len(q.prev) + 1
      /\ Len(q.chain) <= Len(TailHash) /\ Len(TailHash) \in Nat
  BY <1>1, ChainRow
<1>4. Len(r.chain) = Len(TailHash) + 1
  BY TailFacts, HashExtended
<1> QED BY <1>2, <1>3, <1>4

\* append inserts its row after the tail that it read.
LEMMA InsertStep ==
  ASSUME IInv, NEW s \in Server, Insert(s)
  PROVE  IInv'
<1>1. TypeOK /\ RowsInv /\ s \in Session /\ s # Operator /\ Flight(s) /\ Holding(s)
  BY NoEvent DEF IInv, SessionsInv
<1>2. pc[s] = "insert" /\ lock = s /\ job[s] \in Event /\ tail[s] = TailHash /\ ~Stored(job[s])
  BY <1>1 DEF Holding, Insert
<1>3. next \in Nat /\ next <= MaxSeq /\ next' = next + 1 /\ MaxSeq \in Nat
  BY <1>1, TailFacts, ValueTypes DEF Insert
<1> DEFINE r == [seq |-> next, id |-> job[s], prev |-> tail[s],
                 chain |-> Append(tail[s], job[s]), at |-> start[s], erased |-> FALSE]
<1>4. ~Clash(r, rows)
  BY <1>1, <1>2, NoClash
<1>5. fresh' = [fresh EXCEPT ![s] = r] /\ pc' = [pc EXCEPT ![s] = "commit"]
  BY <1>4 DEF Insert, Step
<1>6. UNCHANGED <<rows, segments, checkpoints, lock, clock, occurred, job, start, tail,
                  candidate, walk>>
  BY DEF Insert
<1>7. r \in Row
  <2>1. Len(TailHash) < MaxSeq
    BY <1>1, <1>3, TailFacts DEF RowsInv
  <2>2. Append(tail[s], job[s]) \in Hash
    BY <1>1, <1>2, <2>1, TailFacts, HashExtended
  <2>3. next \in Seq1 /\ start[s] \in Time /\ tail[s] \in Hash
    BY <1>1, <1>3 DEF TypeOK, Seq1
  <2> QED BY <1>2, <2>2, <2>3 DEF Row
<1>8. TypeOK'
  BY <1>1, <1>3, <1>5, <1>6, <1>7 DEF TypeOK, walk
<1>9. Kept /\ TailHash' = TailHash /\ TailSeq' = TailSeq
  BY <1>1, <1>6, KeptUnchanged DEF Kept
<1>10. SegmentsInv' /\ CheckpointsInv'
  BY <1>1, <1>3, <1>6, <1>9, KeptTables DEF IInv
<1>11. Flight(s)'
  BY <1>1, <1>6 DEF Flight
<1>12. Holding(s)' /\ Verifying(s)'
  <2>1. pc'[s] = "commit" /\ fresh'[s] = r /\ lock' = s
    BY <1>1, <1>2, <1>5, <1>6 DEF TypeOK
  <2>2. ~Stored(job[s])'
    BY <1>2, <1>6 DEF Stored
  <2>3. TailSeq < next /\ Len(TailHash) < next /\ next < next'
    BY <1>1, <1>3, TailFacts DEF RowsInv
  <2> HIDE DEF r
  <2>4. r.seq = next /\ r.id = job[s] /\ r.prev = tail[s] /\ r.at = start[s]
        /\ r.chain = Append(tail[s], job[s])
    BY DEF r
  <2> QED BY <1>2, <1>6, <1>7, <1>9, <2>1, <2>2, <2>3, <2>4 DEF Holding, Verifying
<1>13. ASSUME NEW o \in Session, o # s PROVE Aside(o)
  BY <1>1, <1>5, <1>6, <1>13 DEF TypeOK, Aside, walk
<1> QED
  <2>1. next' \in Nat /\ next <= next' /\ clock' = clock
    BY <1>3, <1>6
  <2>2. job'[Operator] = "seal" => job[Operator] = "seal" /\ candidate' = candidate
    BY <1>6
  <2> QED BY <1>1, <1>8, <1>9, <1>10, <1>11, <1>12, <1>13, <2>1, <2>2, KeptByStep

\* A checkpoint begins, with its verification.
LEMMA CheckpointBegins ==
  ASSUME IInv, NEW s \in Server, BeginCheckpoint(s)
  PROVE  IInv'
<1>1. TypeOK /\ s \in Session /\ s # Operator
  BY NoEvent DEF IInv
<1>2. TypeOK'
  BY <1>1 DEF TypeOK, BeginCheckpoint, Step, table, walk
<1>3. pc'[s] = "lock" /\ job'[s] = "checkpoint"
  BY <1>1 DEF TypeOK, BeginCheckpoint, Step
<1>4. Flight(s)' /\ Holding(s)' /\ Verifying(s)'
  BY <1>3, NoEvent DEF Flight, Holding, Verifying
<1>5. ASSUME NEW o \in Session, o # s PROVE Aside(o)
  BY <1>1, <1>5 DEF TypeOK, BeginCheckpoint, Step, Aside, table, walk
<1>6. job'[Operator] = "seal" => job[Operator] = "seal" /\ candidate' = candidate
  BY <1>1 DEF TypeOK, BeginCheckpoint
<1> QED BY <1>1, <1>2, <1>4, <1>5, <1>6, UnchangedByStep DEF BeginCheckpoint

\* The verification of a range begins: the hash is that of the row before, if there is one.
LEMMA VerifyBegins ==
  ASSUME IInv, NEW s \in Server, NEW n \in Ranges, BeginVerify(s, n)
  PROVE  IInv'
<1>1. TypeOK /\ RowsInv /\ s \in Session /\ s # Operator /\ n \in 0..MaxSeq /\ n \in Nat
  BY NoEvent, AuditAssumption DEF IInv
<1>2. Chain(rows, Base, TailHash)
  BY <1>1 DEF RowsInv
<1> DEFINE before == {r \in rows : r.seq < n}
<1>3. before # {} => Last(before) \in before /\ \A q \in before : q.seq <= Last(before).seq
  BY <1>2, LastOfSome
<1>4. /\ UNCHANGED <<table, lock, clock, occurred, start, tail, fresh, candidate>>
      /\ from' = [from EXCEPT ![s] = n] /\ job' = [job EXCEPT ![s] = "verify"]
      /\ quiet' = [quiet EXCEPT ![s] = n <= TailSeq + 1]
  BY DEF BeginVerify
<1>5. \/ /\ n = 0 /\ seed' = [seed EXCEPT ![s] = LastTerminal]
         /\ pc' = [pc EXCEPT ![s] = "head"]
      \/ /\ n # 0 /\ before # {} /\ seed' = [seed EXCEPT ![s] = Last(before).chain]
         /\ pc' = [pc EXCEPT ![s] = "walk"]
      \/ /\ n # 0 /\ before = {} /\ seed' = seed /\ pc' = [pc EXCEPT ![s] = "segment"]
  BY DEF BeginVerify, Step
<1>6. LastTerminal \in Hash \cup {None}
  <2>1. CASE segments = <<>>
    BY <2>1 DEF LastTerminal
  <2>2. CASE segments # <<>>
    <3>1. segments[Len(segments)] \in Segment
      BY <1>1, <2>2 DEF TypeOK
    <3> QED BY <2>2, <3>1 DEF LastTerminal, Segment
  <2> QED BY <2>1, <2>2
<1>7. TypeOK'
  <2>1. before # {} => Last(before).chain \in Hash
    BY <1>2, <1>3, ChainRow
  <2>2. (n <= TailSeq + 1) \in BOOLEAN
    OBVIOUS
  <2>3. /\ from' \in [Session -> 0..MaxSeq] /\ quiet' \in [Session -> BOOLEAN]
        /\ job' \in [Session -> Event \cup {"checkpoint", "seal", "verify", None}]
    BY <1>1, <1>4, <2>2 DEF TypeOK
  <2>4. /\ seed' \in [Session -> Hash \cup {None}]
        /\ pc' \in [Session -> {"idle", "lock", "locked", "insert", "commit", "rejected",
                                "head", "segment", "walk", "alarm"}]
    BY <1>1, <1>5, <1>6, <2>1 DEF TypeOK
  <2> QED BY <1>1, <1>4, <2>3, <2>4 DEF TypeOK, table
<1>8. from'[s] = n /\ job'[s] = "verify" /\ (quiet'[s] <=> n <= TailSeq + 1)
  BY <1>1, <1>4 DEF TypeOK
<1>9. /\ TailHash' = TailHash /\ TailSeq' = TailSeq /\ LastTerminal' = LastTerminal
      /\ Base' = Base /\ rows' = rows
  BY <1>4 DEF TailHash, TailSeq, LastTerminal, SealedThrough, Base, table
<1>10. Flight(s)' /\ Holding(s)'
  <2>1. pc'[s] \in {"head", "walk", "segment"}
    BY <1>1, <1>5 DEF TypeOK
  <2> QED BY <1>8, <2>1, NoEvent DEF Flight, Holding
<1>11. Verifying(s)'
  <2> SUFFICES ASSUME n <= TailSeq + 1 PROVE Verifying(s)'
    BY <1>8 DEF Verifying
  <2>1. CASE n = 0 /\ seed' = [seed EXCEPT ![s] = LastTerminal] /\ pc' = [pc EXCEPT ![s] = "head"]
    <3>1. pc'[s] = "head" /\ seed'[s] = LastTerminal
      BY <1>1, <2>1 DEF TypeOK
    <3> QED BY <1>8, <1>9, <2>1, <3>1 DEF Verifying
  <2>2. CASE /\ before = {} /\ pc' = [pc EXCEPT ![s] = "segment"]
    <3>1. pc'[s] = "segment"
      BY <1>1, <2>2 DEF TypeOK
    <3>2. \A r \in rows : r.seq >= n
      BY <1>1, <1>2, <2>2, ChainRow
    <3> QED BY <1>8, <1>9, <3>1, <3>2 DEF Verifying
  <2>3. CASE /\ before # {} /\ seed' = [seed EXCEPT ![s] = Last(before).chain]
             /\ pc' = [pc EXCEPT ![s] = "walk"]
    <3> DEFINE p == Last(before)
    <3>1. pc'[s] = "walk" /\ seed'[s] = p.chain
      BY <1>1, <2>3 DEF TypeOK
    <3>2. p \in rows /\ p.seq < n /\ \A q \in rows : q.seq < n => q.seq <= p.seq
      BY <1>3, <2>3
    <3> HIDE DEF p
    <3>3. p.chain \in Hash /\ IsPre(p.chain, TailHash) /\ Len(Base) <= Len(p.chain)
      BY <1>2, <3>2, ChainRow
    <3>4. ASSUME NEW r \in rows PROVE r.seq >= n <=> Len(r.chain) > Len(p.chain)
      <4>1. r.seq \in Nat /\ p.seq \in Nat
        BY <1>2, <3>2, ChainRow
      <4>2. p.seq < r.seq <=> Len(p.chain) < Len(r.chain)
        BY <1>2, <3>2 DEF Chain
      <4> QED BY <1>1, <3>2, <4>1, <4>2
    <3>5. Seeded(s)'
      BY <1>8, <1>9, <3>1, <3>3, <3>4 DEF Seeded
    <3> QED BY <1>8, <1>9, <3>1, <3>5 DEF Verifying
  <2> QED BY <1>5, <2>1, <2>2, <2>3
<1>12. ASSUME NEW o \in Session, o # s PROVE Aside(o)
  BY <1>1, <1>4, <1>5, <1>12 DEF TypeOK, Aside
<1>13. job'[Operator] = "seal" => job[Operator] = "seal" /\ candidate' = candidate
  BY <1>1, <1>4 DEF TypeOK
<1> QED BY <1>1, <1>4, <1>7, <1>10, <1>11, <1>12, <1>13, UnchangedByStep

\* A verification of rows that are all in its range starts from the hash before the first.
LEMMA BaseSeeds ==
  ASSUME TypeOK, RowsInv
  PROVE  /\ Base \in Hash /\ IsPre(Base, TailHash) /\ Len(Base) <= Len(Base)
         /\ \A r \in rows : Len(r.chain) > Len(Base)
<1>1. Chain(rows, Base, TailHash)
  BY DEF RowsInv
<1>2. Base \in Hash /\ IsPre(Base, TailHash) /\ Len(Base) <= Len(Base)
  BY <1>1, TailFacts DEF Chain
<1> QED BY <1>1, <1>2, ChainRow

\* A verification reads what the head row must link to.
LEMMA HeadIsRead ==
  ASSUME IInv, NEW s \in Server, ReadHead(s)
  PROVE  IInv'
<1>1. TypeOK /\ RowsInv /\ s \in Session /\ s # Operator /\ Flight(s) /\ Verifying(s)
  BY NoEvent DEF IInv, SessionsInv
<1> DEFINE h == IF rows # {} /\ First(rows).prev = seed[s] THEN seed[s] ELSE Genesis
<1>2. /\ pc[s] = "head" /\ pc' = [pc EXCEPT ![s] = "walk"] /\ seed' = [seed EXCEPT ![s] = h]
      /\ UNCHANGED <<table, lock, clock, occurred, job, start, tail, fresh, candidate, from,
                     quiet>>
  BY <1>1 DEF ReadHead, Step, TypeOK
<1>3. seed[s] \in Hash \cup {None} /\ h \in Hash \cup {None}
  BY <1>1, ValueTypes DEF TypeOK
<1>4. TypeOK'
  BY <1>1, <1>2, <1>3 DEF TypeOK, table
<1>5. pc'[s] = "walk" /\ seed'[s] = h
  BY <1>1, <1>2 DEF TypeOK
<1>6. Flight(s)' /\ Holding(s)'
  BY <1>1, <1>2, <1>5 DEF Flight, Holding
<1>7. Verifying(s)'
  <2> SUFFICES ASSUME quiet[s] PROVE Verifying(s)'
    BY <1>2 DEF Verifying
  <2>1. from[s] = 0 /\ seed[s] = LastTerminal /\ from[s] <= TailSeq + 1
    BY <1>1, <1>2 DEF Verifying
  <2>2. h = Base
    <3>1. CASE segments = <<>>
      <4>1. Base = Genesis
        BY <3>1 DEF Base
      <4>2. rows # {} => First(rows).prev = Base
        BY <1>1, ChainFirst DEF RowsInv
      <4> QED BY <4>1, <4>2
    <3>2. CASE segments # <<>>
      <4>1. Base = seed[s]
        BY <2>1, <3>2 DEF Base, LastTerminal
      <4>2. rows # {} /\ First(rows).prev = Base
        BY <1>1, <3>2, ChainFirst DEF RowsInv
      <4> QED BY <4>1, <4>2
    <3> QED BY <3>1, <3>2
  <2>3. \A r \in rows : r.seq >= from[s]
    BY <1>1, <2>1, ChainRow DEF RowsInv
  <2>4. Base' = Base /\ rows' = rows /\ TailSeq' = TailSeq /\ TailHash' = TailHash
    BY <1>1, <1>2, KeptUnchanged DEF table, Kept, Base
  <2>5. Seeded(s)'
    BY <1>1, <1>2, <1>5, <2>2, <2>3, <2>4, BaseSeeds DEF Seeded
  <2> QED BY <1>2, <1>5, <2>1, <2>4, <2>5 DEF Verifying
<1>8. ASSUME NEW o \in Session, o # s PROVE Aside(o)
  BY <1>1, <1>2, <1>8 DEF TypeOK, Aside
<1> QED BY <1>1, <1>2, <1>4, <1>6, <1>7, <1>8, UnchangedByStep

\* A verification reads what its range must link to, if no row is left before it.
LEMMA SegmentIsRead ==
  ASSUME IInv, NEW s \in Server, ReadSegment(s)
  PROVE  IInv'
<1>1. TypeOK /\ RowsInv /\ s \in Session /\ s # Operator /\ Flight(s) /\ Verifying(s)
  BY NoEvent DEF IInv, SessionsInv
<1>2. /\ pc[s] = "segment" /\ pc' = [pc EXCEPT ![s] = "walk"]
      /\ seed' = [seed EXCEPT ![s] = Base]
      /\ UNCHANGED <<table, lock, clock, occurred, job, start, tail, fresh, candidate, from,
                     quiet>>
  <2>1. Base = IF LastTerminal # None THEN LastTerminal ELSE Genesis
    BY <1>1, TailFacts, NoEvent DEF Base, LastTerminal
  <2> QED BY <2>1 DEF ReadSegment, Step
<1>3. TypeOK'
  BY <1>1, <1>2, TailFacts DEF TypeOK, table
<1>4. pc'[s] = "walk" /\ seed'[s] = Base
  BY <1>1, <1>2 DEF TypeOK
<1>5. Flight(s)' /\ Holding(s)'
  BY <1>1, <1>2, <1>4 DEF Flight, Holding
<1>6. Verifying(s)'
  <2> SUFFICES ASSUME quiet[s] PROVE Verifying(s)'
    BY <1>2 DEF Verifying
  <2>1. from[s] <= TailSeq + 1 /\ \A r \in rows : r.seq >= from[s]
    BY <1>1, <1>2 DEF Verifying
  <2>2. Base' = Base /\ rows' = rows /\ TailSeq' = TailSeq /\ TailHash' = TailHash
    BY <1>1, <1>2, KeptUnchanged DEF table, Kept, Base
  <2>3. Seeded(s)'
    BY <1>1, <1>2, <1>4, <2>1, <2>2, BaseSeeds DEF Seeded
  <2> QED BY <1>2, <1>4, <2>1, <2>2, <2>3 DEF Verifying
<1>7. ASSUME NEW o \in Session, o # s PROVE Aside(o)
  BY <1>1, <1>2, <1>7 DEF TypeOK, Aside
<1> QED BY <1>1, <1>2, <1>3, <1>5, <1>6, <1>7, UnchangedByStep

\* A verification walks over one more row.
LEMMA WalkStep ==
  ASSUME IInv, NEW s \in Server, Walk(s)
  PROVE  IInv'
<1>1. TypeOK /\ RowsInv /\ s \in Session /\ Flight(s) /\ Verifying(s)
  BY NoEvent DEF IInv, SessionsInv
<1> DEFINE intact == Intact({r \in rows : r.seq >= from[s]}, seed[s])
<1>2. CASE intact
  BY <1>1, <1>2, EndStep DEF Walk
<1>3. CASE ~intact
  <2>1. /\ pc' = [pc EXCEPT ![s] = "alarm"]
        /\ UNCHANGED <<lock, job, start, tail, fresh, candidate, walk, table, clock, occurred>>
    BY <1>3 DEF Walk, Step
  <2>2. TypeOK'
    BY <1>1, <2>1 DEF TypeOK, table, walk
  <2>3. pc'[s] = "alarm" /\ quiet'[s] = quiet[s]
    BY <1>1, <2>1 DEF TypeOK, walk
  <2>4. ~quiet[s]
    <3> SUFFICES ASSUME quiet[s] PROVE FALSE
      OBVIOUS
    <3>1. Seeded(s)
      BY <1>1 DEF Verifying, Walk
    <3>2. Chain(rows, Base, TailHash) /\ from[s] \in Nat
      BY <1>1, ValueTypes DEF RowsInv, TypeOK
    <3>3. intact
      BY <3>1, <3>2, ChainIntact DEF Seeded
    <3> QED BY <1>3, <3>3
  <2>5. Flight(s)' /\ Holding(s)' /\ Verifying(s)'
    BY <1>1, <2>1, <2>3, <2>4 DEF Flight, Holding, Verifying
  <2>6. ASSUME NEW o \in Session, o # s PROVE Aside(o)
    BY <1>1, <2>1, <2>6 DEF TypeOK, Aside, walk
  <2> QED BY <1>1, <2>1, <2>2, <2>5, <2>6, UnchangedByStep
<1> QED BY <1>2, <1>3

\* Time passes.
LEMMA TickStep ==
  ASSUME IInv, Tick
  PROVE  IInv'
<1>1. TypeOK /\ RowsInv
  BY DEF IInv
<1>2. /\ clock < MaxClock /\ clock' = clock + 1
      /\ UNCHANGED <<table, lock, occurred, pc, job, start, tail, fresh, candidate, walk>>
  BY DEF Tick
<1>3. clock \in Nat /\ clock' \in Nat /\ clock <= clock' /\ clock' <= MaxClock /\ MaxClock \in Nat
  BY <1>1, <1>2, ClockType, ValueTypes
<1>4. TypeOK'
  BY <1>1, <1>2, <1>3 DEF TypeOK, Time, table, walk
<1>5. Kept
  BY <1>1, <1>2, KeptUnchanged DEF table
<1>6. RowsInv' /\ SegmentsInv' /\ CheckpointsInv' /\ EventsInv' /\ CandidateInv'
  BY <1>2, <1>3, <1>5, TailFacts, KeptTables, KeptEvents, KeptCandidate DEF IInv, table
<1>7. ASSUME NEW s \in Session PROVE Flight(s)' /\ Holding(s)' /\ Verifying(s)'
  <2>1. Flight(s)'
    <3>1. job[s] \in Event => start[s] = clock /\ Flight(s)
      BY DEF Tick, IInv, SessionsInv
    <3> QED BY <1>2, <1>3, <3>1 DEF Flight
  <2>2. UNCHANGED <<rows, segments, next, lock, pc, job, start, tail, fresh, from, seed, quiet>>
    BY <1>2 DEF table, walk
  <2>3. TailHash' = TailHash /\ TailSeq' = TailSeq /\ LastTerminal' = LastTerminal /\ Base' = Base
    BY <2>2 DEF TailHash, TailSeq, LastTerminal, SealedThrough, Base
  <2>4. Holding(s)'
    BY <2>2, <2>3 DEF IInv, SessionsInv, Holding, Stored
  <2>5. Verifying(s)'
    BY <2>2, <2>3 DEF IInv, SessionsInv, Verifying, Seeded
  <2> QED BY <2>1, <2>4, <2>5
<1> QED BY <1>4, <1>6, <1>7 DEF IInv, SessionsInv

\* The payloads of a subject are erased.
LEMMA EraseStep ==
  ASSUME IInv, Erase
  PROVE  IInv'
<1>1. TypeOK /\ RowsInv /\ clock \in Nat /\ next \in Nat
  BY ClockType, TailFacts DEF IInv
<1>2. UNCHANGED <<segments, checkpoints, next, lock, clock, occurred, pc, job, start, tail,
                  fresh, candidate, from, seed, quiet>>
  BY DEF Erase, walk
<1>3. Kept
  BY <1>1, KeptErased
<1>4. TypeOK'
  BY <1>1, <1>2, <1>3 DEF TypeOK, Kept
<1>5. RowsInv' /\ SegmentsInv' /\ CheckpointsInv' /\ EventsInv' /\ CandidateInv'
  BY <1>1, <1>2, <1>3, KeptTables, KeptEvents, KeptCandidate DEF IInv
<1>6. ASSUME NEW s \in Session PROVE Flight(s)' /\ Holding(s)' /\ Verifying(s)'
  BY <1>1, <1>2, <1>3, KeptSession DEF IInv, SessionsInv, Aside
<1> QED BY <1>4, <1>5, <1>6 DEF IInv, SessionsInv

\* A checkpoint of the tail, or none if the last one is of the tail.
LEMMA WriteCheckpointStep ==
  ASSUME IInv, NEW s \in Server, WriteCheckpoint(s)
  PROVE  IInv'
<1>1. TypeOK /\ RowsInv /\ SegmentsInv /\ CheckpointsInv /\ s \in Session
  BY NoEvent DEF IInv
<1>2. /\ Leave(s) /\ quiet' = [quiet EXCEPT ![s] = TRUE]
      /\ UNCHANGED <<rows, segments, next, clock, occurred>>
  BY DEF WriteCheckpoint, End
<1>3. CASE ~TailIsNew
  BY <1>1, <1>3, EndStep DEF WriteCheckpoint, table
<1>4. CASE TailIsNew
  <2> DEFINE c == [tail |-> Last(rows).seq, hash |-> Last(rows).chain, size |-> Cardinality(rows)]
  <2>1. checkpoints' = Append(checkpoints, c)
    BY <1>4 DEF WriteCheckpoint
  <2>2. rows # {} /\ Chain(rows, Base, TailHash)
    BY <1>1, <1>4 DEF TailIsNew, RowsInv
  <2>3. /\ Last(rows) \in rows /\ TailSeq = Last(rows).seq /\ TailHash = Last(rows).chain
        /\ TailHash \in Hash /\ TailSeq \in 1..MaxSeq
    BY <1>1, <2>2, TailFacts, RowType DEF TypeOK
  <2>4. Cardinality(rows) \in 1..MaxSeq
    <3>1. rows = {r \in rows : r.seq <= Last(rows).seq}
      BY <1>1, <2>2, <2>3, TailFacts
    <3>2. Cardinality(rows) = Len(TailHash) - Len(Base)
      BY <2>2, <2>3, <3>1, ChainCount
    <3>3. Len(Base) < Len(TailHash)
      BY <2>2, <2>3, ChainRow
    <3>4. Len(TailHash) <= MaxSeq /\ MaxSeq \in Nat /\ Len(Base) \in Nat /\ Len(TailHash) \in Nat
      BY <1>1, TailFacts, HashIsSeq, ValueTypes
    <3> QED BY <3>2, <3>3, <3>4
  <2>5. c \in Checkpoint
    BY <2>3, <2>4 DEF Checkpoint, Seq1
  <2> HIDE DEF c
  <2>6. c.tail = TailSeq /\ c.hash = TailHash
    BY <2>3 DEF c
  <2>7. /\ checkpoints' \in Seq(Checkpoint) /\ Len(checkpoints') = Len(checkpoints) + 1
        /\ Len(checkpoints) \in Nat /\ checkpoints'[Len(checkpoints) + 1] = c
        /\ \A k \in 1..Len(checkpoints) : checkpoints'[k] = checkpoints[k]
        /\ DOMAIN checkpoints = 1..Len(checkpoints)
        /\ DOMAIN checkpoints' = 1..Len(checkpoints) + 1
    BY <1>1, <2>1, <2>5 DEF TypeOK
  <2>8. TypeOK'
    <3>1. quiet' \in [Session -> BOOLEAN]
      BY <1>1, <1>2 DEF TypeOK
    <3> QED BY <1>1, <1>2, <2>7, <3>1, LeaveEnds DEF TypeOK
  <2>9. Kept
    BY <1>1, <1>2, KeptUnchanged
  <2>10. SegmentsInv'
    <3> SUFFICES ASSUME NEW k \in DOMAIN segments
                 PROVE  LET g == segments[k] IN
                        /\ g.prev = IF k = 1 THEN Genesis ELSE segments[k - 1].terminal
                        /\ g.count = Len(g.terminal) - Len(g.prev)
                        /\ g.checkpoint <= Len(checkpoints')
                        /\ g.checkpoint > 0 => checkpoints'[g.checkpoint].tail >= g.last
      BY <1>2 DEF SegmentsInv
    <3> DEFINE g == segments[k]
    <3>1. /\ g.prev = IF k = 1 THEN Genesis ELSE segments[k - 1].terminal
          /\ g.count = Len(g.terminal) - Len(g.prev)
          /\ g.checkpoint <= Len(checkpoints)
          /\ g.checkpoint > 0 => checkpoints[g.checkpoint].tail >= g.last
      BY <1>1 DEF SegmentsInv
    <3>2. g.checkpoint \in Nat
      <4>1. segments \in Seq(Segment)
        BY <1>1 DEF TypeOK
      <4>2. segments[k] \in Segment
        BY <4>1
      <4> QED BY <4>2 DEF Segment
    <3>3. g.checkpoint > 0 => checkpoints'[g.checkpoint] = checkpoints[g.checkpoint]
      BY <2>7, <3>1, <3>2
    <3>4. g.checkpoint <= Len(checkpoints')
      BY <2>7, <3>1, <3>2
    <3> QED BY <3>1, <3>3, <3>4
  <2>11. CheckpointsInv'
    <3>1. TailHash' = TailHash /\ TailSeq' = TailSeq
      BY <2>9 DEF Kept
    <3>2. checkpoints # <<>> => checkpoints[Len(checkpoints)].tail < TailSeq
      <4> SUFFICES ASSUME checkpoints # <<>> PROVE checkpoints[Len(checkpoints)].tail < TailSeq
        OBVIOUS
      <4>1. Len(checkpoints) \in DOMAIN checkpoints
        BY <1>1, <2>7 DEF TypeOK
      <4>2. checkpoints[Len(checkpoints)] \in Checkpoint
        BY <1>1, <4>1 DEF TypeOK
      <4>3. checkpoints[Len(checkpoints)].tail \in Nat
        BY <4>2, ValueTypes DEF Checkpoint, Seq1
      <4>4. checkpoints[Len(checkpoints)].tail <= TailSeq
        BY <1>1, <4>1 DEF CheckpointsInv
      <4>5. checkpoints[Len(checkpoints)].tail # TailSeq
        BY <1>4, <2>3 DEF TailIsNew
      <4> QED BY <2>3, <4>3, <4>4, <4>5
    <3>3. ASSUME NEW k \in DOMAIN checkpoints'
          PROVE  /\ IsPre(checkpoints'[k].hash, TailHash)
                 /\ checkpoints'[k].tail <= TailSeq
                 /\ k > 1 => checkpoints'[k - 1].tail < checkpoints'[k].tail
      <4>1. CASE k \in DOMAIN checkpoints
        <5>1. checkpoints'[k] = checkpoints[k]
                /\ (k > 1 => checkpoints'[k - 1] = checkpoints[k - 1])
          BY <2>7, <4>1
        <5> QED BY <1>1, <4>1, <5>1 DEF CheckpointsInv
      <4>2. CASE k = Len(checkpoints) + 1
        <5>1. IsPre(TailHash, TailHash) /\ TailSeq <= TailSeq
          BY <2>3, PreIsOrder
        <5>2. k > 1 => checkpoints'[k - 1] = checkpoints[Len(checkpoints)] /\ checkpoints # <<>>
          BY <2>7, <4>2
        <5> QED BY <2>6, <2>7, <3>2, <4>2, <5>1, <5>2
      <4> QED BY <2>7, <4>1, <4>2
    <3> QED BY <3>1, <3>3 DEF CheckpointsInv
  <2>12. Flight(s)' /\ Holding(s)' /\ Verifying(s)'
    <3>1. pc'[s] = "idle" /\ job'[s] = None
      BY <1>1, <1>2, LeaveEnds
    <3> QED BY <3>1, NoEvent DEF Flight, Holding, Verifying
  <2>13. ASSUME NEW o \in Session, o # s PROVE Aside(o)
    <3>1. quiet'[o] = quiet[o]
      BY <1>1, <1>2, <2>13 DEF TypeOK
    <3> QED BY <1>1, <1>2, <2>13, <3>1, LeaveEnds
  <2>14. job'[Operator] = "seal" => job[Operator] = "seal" /\ candidate' = candidate
    BY <1>1, <1>2, LeaveEnds
  <2>15. next' = next /\ next \in Nat /\ clock' = clock
    BY <1>1, <1>2, TailFacts
  <2> QED BY <1>1, <2>8, <2>9, <2>10, <2>11, <2>12, <2>13, <2>14, <2>15, KeptByStep
<1> QED BY <1>3, <1>4

\* An event that is young enough is in no sealed segment.
LEMMA YoungIsNew ==
  ASSUME TypeOK, RowsInv, EventsInv, NEW s \in Session, Flight(s), job[s] \in Event,
         ~Stored(job[s])
  PROVE  \A i \in 1..Len(TailHash) : TailHash[i] # job[s]
<1> SUFFICES ASSUME NEW i \in 1..Len(TailHash) PROVE TailHash[i] # job[s]
  OBVIOUS
<1>1. Chain(rows, Base, TailHash) /\ Len(Base) \in Nat /\ Len(TailHash) \in Nat
  BY TailFacts DEF RowsInv
<1>2. CASE i <= Len(Base)
  <2>1. i \in 1..Len(Base) /\ TailHash[i] = Base[i]
    BY <1>1, <1>2 DEF Chain, IsPre
  <2>2. Old(Base[i]) /\ Base[i] \in Event
    BY <1>1, <2>1, TailFacts, HashIsSeq DEF EventsInv
  <2>3. start[s] \in Nat /\ clock \in Nat /\ Backdate \in Nat /\ occurred[job[s]] \in Nat
    BY ClockType, ValueTypes DEF TypeOK, Time
  <2>4. ~Old(job[s])
    BY <2>3 DEF Old, Flight
  <2> QED BY <2>1, <2>2, <2>4
<1>3. CASE i > Len(Base)
  <2>1. i \in Len(Base) + 1..Len(TailHash)
    BY <1>1, <1>3
  <2>2. PICK r \in rows : Len(r.chain) = i
    BY <1>1, <2>1 DEF Chain
  <2>3. TailHash[i] = r.id
    BY <1>1, <2>2, ChainRow
  <2> QED BY <2>3 DEF Stored
<1> QED BY <1>1, <1>2, <1>3

\* What a commit appends.
LEMMA CommitAppends ==
  ASSUME IInv, NEW s \in Server, Commit(s)
  PROVE  /\ s \in Session /\ job[s] \in Event /\ lock = s /\ fresh[s] \in Row
         /\ fresh[s].id = job[s] /\ fresh[s].at = start[s]
         /\ fresh[s].prev = TailHash /\ fresh[s].chain = Append(TailHash, job[s])
         /\ fresh[s].chain \in Hash /\ IsPre(TailHash, fresh[s].chain)
         /\ Len(fresh[s].chain) = Len(TailHash) + 1
         /\ TailSeq < fresh[s].seq /\ fresh[s].seq < next /\ Len(TailHash) < fresh[s].seq
         /\ fresh[s].seq \in Nat
         /\ \A r \in rows : r.seq < fresh[s].seq
         /\ rows' = rows \cup {fresh[s]} /\ rows' # {}
         /\ TailHash' = fresh[s].chain /\ TailSeq' = fresh[s].seq
         /\ Chain(rows', Base, fresh[s].chain) /\ Base' = Base
         /\ \A i \in 1..Len(TailHash) : TailHash[i] # job[s]
         /\ Flight(s)
<1>1. TypeOK /\ RowsInv /\ s \in Session /\ Flight(s) /\ Holding(s) /\ pc[s] = "commit"
  BY NoEvent DEF IInv, SessionsInv, Commit
<1> DEFINE f == fresh[s]
<1>2. /\ job[s] \in Event /\ lock = s /\ f \in Row /\ f.id = job[s] /\ f.at = start[s]
      /\ f.prev = TailHash /\ f.chain = Append(TailHash, job[s]) /\ ~Stored(job[s])
      /\ TailSeq < f.seq /\ f.seq < next /\ Len(TailHash) < f.seq
  BY <1>1 DEF Holding
<1>3. rows' = rows \cup {f} /\ segments' = segments
  BY DEF Commit
<1> HIDE DEF f
<1>4. f.seq \in Nat /\ f.chain \in Hash
  BY <1>2, RowType
<1>5. \A r \in rows : r.seq < f.seq /\ r.seq \in Nat
  BY <1>1, <1>2, <1>4, TailFacts, ChainRow DEF RowsInv
<1>6. Chain(rows', Base, f.chain)
  BY <1>1, <1>2, <1>3, <1>5, ChainGrows DEF RowsInv
<1>7. Last(rows') = f
  <2>1. \A q \in rows' : q.seq \in Nat /\ q.seq <= f.seq /\ (q.seq = f.seq => q = f)
    BY <1>3, <1>4, <1>5
  <2> QED BY <1>3, <2>1, LastIs
<1>8. TailHash' = f.chain /\ TailSeq' = f.seq /\ Base' = Base /\ rows' # {}
  BY <1>3, <1>7 DEF TailHash, TailSeq, Base
<1>9. /\ Len(f.chain) = Len(TailHash) + 1 /\ Len(TailHash) \in Nat
      /\ \A i \in 1..Len(TailHash) : f.chain[i] = TailHash[i]
  BY <1>1, <1>2, TailFacts, HashExtended
<1>10. IsPre(TailHash, f.chain)
  BY <1>9 DEF IsPre
<1>11. \A i \in 1..Len(TailHash) : TailHash[i] # job[s]
  BY <1>1, <1>2, YoungIsNew DEF IInv
<1> QED BY <1>1, <1>2, <1>3, <1>4, <1>5, <1>6, <1>8, <1>9, <1>10, <1>11 DEF f

\* A transaction commits what it wrote.
LEMMA CommitStep ==
  ASSUME IInv, NEW s \in Server, Commit(s)
  PROVE  IInv'
<1> DEFINE f == fresh[s]
<1>1. /\ s \in Session /\ job[s] \in Event /\ lock = s /\ f \in Row
      /\ f.id = job[s] /\ f.at = start[s]
      /\ f.prev = TailHash /\ f.chain = Append(TailHash, job[s])
      /\ f.chain \in Hash /\ IsPre(TailHash, f.chain) /\ Len(f.chain) = Len(TailHash) + 1
      /\ TailSeq < f.seq /\ f.seq < next /\ Len(TailHash) < f.seq /\ f.seq \in Nat
      /\ \A r \in rows : r.seq < f.seq
      /\ rows' = rows \cup {f} /\ rows' # {}
      /\ TailHash' = f.chain /\ TailSeq' = f.seq
      /\ Chain(rows', Base, f.chain) /\ Base' = Base
      /\ \A i \in 1..Len(TailHash) : TailHash[i] # job[s]
      /\ Flight(s)
  BY CommitAppends
<1> HIDE DEF f
<1>2. /\ TypeOK /\ RowsInv /\ SegmentsInv /\ CheckpointsInv /\ EventsInv /\ CandidateInv
      /\ \A o \in Session : Flight(o) /\ Holding(o) /\ Verifying(o)
  BY DEF IInv, SessionsInv
<1>3. /\ Leave(s) /\ quiet' = [quiet EXCEPT ![s] = TRUE]
      /\ UNCHANGED <<segments, checkpoints, next, clock, occurred>>
  BY DEF Commit, End
<1>4. /\ TailHash \in Hash /\ Len(TailHash) \in Nat /\ TailSeq \in Nat /\ next \in Nat
      /\ Base \in Hash
  BY <1>2, TailFacts
<1>5. TypeOK'
  <2>1. quiet' \in [Session -> BOOLEAN] /\ rows' \subseteq Row
    BY <1>1, <1>2, <1>3 DEF TypeOK
  <2> QED BY <1>1, <1>2, <1>3, <2>1, LeaveEnds DEF TypeOK
<1>6. LastTerminal' = LastTerminal /\ SealedThrough' = SealedThrough
  BY <1>3 DEF LastTerminal, SealedThrough
<1>7. RowsInv'
  <2>1. SealedThrough < f.seq
    <3>1. CASE rows = {}
      <4>1. TailSeq = SealedThrough
        BY <3>1 DEF TailSeq
      <4> QED BY <1>1, <4>1
    <3>2. CASE rows # {}
      <4>1. PICK r \in rows : TRUE
        BY <3>2
      <4>2. SealedThrough < r.seq /\ r.seq < f.seq /\ r.seq \in Nat
        BY <1>1, <1>2, ChainRow DEF RowsInv
      <4>3. SealedThrough \in Nat
        <5>1. CASE segments = <<>>
          BY <5>1 DEF SealedThrough
        <5>2. CASE segments # <<>>
          <6>1. segments \in Seq(Segment)
            BY <1>2 DEF TypeOK
          <6>2. segments[Len(segments)] \in Segment
            BY <5>2, <6>1
          <6> QED BY <5>2, <6>2, ValueTypes DEF SealedThrough, Segment, Seq1
        <5> QED BY <5>1, <5>2
      <4> QED BY <1>1, <4>2, <4>3
    <3> QED BY <3>1, <3>2
  <2>2. occurred[f.id] <= f.at
    BY <1>1 DEF Flight
  <2>3. Len(TailHash') < next'
    BY <1>1, <1>3, <1>4
  <2>4. ASSUME NEW r \in rows'
        PROVE  SealedThrough' < r.seq /\ r.seq < next' /\ occurred'[r.id] <= r.at
    BY <1>1, <1>2, <1>3, <1>6, <2>1, <2>2 DEF RowsInv
  <2> QED BY <1>1, <2>3, <2>4 DEF RowsInv
<1>8. SegmentsInv'
  BY <1>2, <1>3 DEF SegmentsInv
<1>9. CheckpointsInv'
  <2> SUFFICES ASSUME NEW k \in DOMAIN checkpoints
               PROVE  /\ IsPre(checkpoints[k].hash, f.chain)
                      /\ checkpoints[k].tail <= f.seq
                      /\ k > 1 => checkpoints[k - 1].tail < checkpoints[k].tail
    BY <1>1, <1>3 DEF CheckpointsInv
  <2>1. /\ IsPre(checkpoints[k].hash, TailHash) /\ checkpoints[k].tail <= TailSeq
        /\ k > 1 => checkpoints[k - 1].tail < checkpoints[k].tail
    BY <1>2 DEF CheckpointsInv
  <2>2. checkpoints[k].hash \in Hash /\ checkpoints[k].tail \in Nat
    <3>1. checkpoints \in Seq(Checkpoint)
      BY <1>2 DEF TypeOK
    <3>2. checkpoints[k] \in Checkpoint
      BY <3>1
    <3> QED BY <3>2, ValueTypes DEF Checkpoint, Seq1
  <2>3. IsPre(checkpoints[k].hash, f.chain)
    BY <1>1, <1>4, <2>1, <2>2, PreIsOrder
  <2> QED BY <1>1, <1>4, <2>1, <2>2, <2>3
<1>10. EventsInv'
  <2>1. /\ \A i \in 1..Len(TailHash) : f.chain[i] = TailHash[i]
        /\ f.chain[Len(TailHash) + 1] = job[s]
    BY <1>1, <1>4, HashExtended
  <2>2. ASSUME NEW i \in 1..Len(f.chain), NEW j \in 1..Len(f.chain), f.chain[i] = f.chain[j]
        PROVE  i = j
    <3>1. \A n \in 1..Len(f.chain) : n \in 1..Len(TailHash) \/ n = Len(TailHash) + 1
      BY <1>1, <1>4
    <3>2. \A n, m \in 1..Len(TailHash) : TailHash[n] = TailHash[m] => n = m
      BY <1>2 DEF EventsInv
    <3> QED BY <1>1, <2>1, <2>2, <3>1, <3>2
  <2>3. \A i \in 1..Len(Base) : Old(Base[i])'
    BY <1>1, <1>2, <1>3 DEF EventsInv, Old
  <2> QED BY <1>1, <2>2, <2>3 DEF EventsInv
<1>11. CandidateInv'
  <2> SUFFICES ASSUME job'[Operator] = "seal" PROVE CandidateInv'
    BY DEF CandidateInv
  <2>1. job[Operator] = "seal" /\ candidate' = candidate
    BY <1>1, <1>2, <1>3, LeaveEnds
  <2> DEFINE c == candidate
  <2>2. /\ c \in Segment /\ c.prev = Base
        /\ \A r \in rows : c.first <= r.seq
        /\ c.count <= Cardinality(Expired(c.first, c.last))
    BY <1>2, <2>1 DEF CandidateInv
  <2>3. PICK t \in rows : t.seq = c.last /\ t.chain = c.terminal
    BY <1>2, <2>1 DEF CandidateInv
  <2>4. c.first \in Nat /\ c.last \in Nat
    BY <2>2, ValueTypes DEF Segment, Seq1
  <2>5. t.seq \in Nat /\ c.first <= t.seq /\ t.seq < f.seq
    BY <1>1, <2>2, <2>3, <2>4
  <2>6. \A r \in rows' : c.first <= r.seq
    BY <1>1, <2>2, <2>4, <2>5
  <2>7. Expired(c.first, c.last)' = Expired(c.first, c.last)
    <3>1. \A i \in c.first..c.last :
            (\E r \in rows' : r.seq = i /\ r.at + Retention < clock)
              <=> (\E r \in rows : r.seq = i /\ r.at + Retention < clock)
      BY <1>1, <2>3, <2>4, <2>5
    <3> QED BY <1>3, <2>1, <3>1 DEF Expired
  <2> QED BY <1>1, <2>1, <2>2, <2>3, <2>6, <2>7 DEF CandidateInv
<1>12. ASSUME NEW o \in Session PROVE Flight(o)' /\ Holding(o)' /\ Verifying(o)'
  <2>1. CASE o = s
    <3>1. pc'[s] = "idle" /\ job'[s] = None
      BY <1>1, <1>2, <1>3, LeaveEnds
    <3> QED BY <2>1, <3>1, NoEvent DEF Flight, Holding, Verifying
  <2>2. CASE o # s
    <3>1. Aside(o)
      <4>1. quiet'[o] = quiet[o]
        BY <1>2, <1>3, <2>2 DEF TypeOK
      <4> QED BY <1>1, <1>2, <1>3, <2>2, <4>1, LeaveEnds
    <3>2. Flight(o)'
      BY <1>2, <1>3, <3>1 DEF Flight, Aside
    <3>3. Holding(o)'
      BY <1>1, <1>2, <2>2, <3>1 DEF Holding, Aside
    <3>4. Verifying(o)'
      <4> SUFFICES ASSUME pc[o] \in {"head", "segment", "walk", "alarm"}, quiet[o]
                   PROVE  /\ from[o] <= f.seq + 1
                          /\ pc[o] # "alarm"
                          /\ pc[o] = "head" => from[o] = 0 /\ seed[o] = LastTerminal
                          /\ pc[o] = "segment" => \A r \in rows' : r.seq >= from[o]
                          /\ pc[o] = "walk" => Seeded(o)'
        BY <1>1, <1>6, <3>1 DEF Verifying, Aside
      <4>1. /\ from[o] <= TailSeq + 1 /\ pc[o] # "alarm"
            /\ pc[o] = "head" => from[o] = 0 /\ seed[o] = LastTerminal
            /\ pc[o] = "segment" => \A r \in rows : r.seq >= from[o]
            /\ pc[o] = "walk" => Seeded(o)
        BY <1>2 DEF Verifying
      <4>2. from[o] \in Nat
        BY <1>2, ValueTypes DEF TypeOK
      <4>3. from[o] <= f.seq /\ from[o] <= f.seq + 1
        BY <1>1, <1>4, <4>1, <4>2
      <4>4. ASSUME Seeded(o) PROVE Seeded(o)'
        <5>1. /\ seed[o] \in Hash /\ IsPre(seed[o], TailHash) /\ Len(Base) <= Len(seed[o])
              /\ \A r \in rows : r.seq >= from[o] <=> Len(r.chain) > Len(seed[o])
          BY <4>4 DEF Seeded
        <5>2. IsPre(seed[o], f.chain)
          BY <1>1, <1>4, <5>1, PreIsOrder
        <5>3. Len(seed[o]) \in Nat /\ Len(seed[o]) <= Len(TailHash)
          BY <5>1, HashIsSeq DEF IsPre
        <5>4. \A r \in rows' : r.seq >= from[o] <=> Len(r.chain) > Len(seed[o])
          BY <1>1, <1>4, <4>3, <5>1, <5>3
        <5> QED BY <1>1, <3>1, <5>1, <5>2, <5>4 DEF Seeded, Aside
      <4> QED BY <1>1, <4>1, <4>3, <4>4
    <3> QED BY <3>2, <3>3, <3>4
  <2> QED BY <2>1, <2>2
<1> QED BY <1>5, <1>7, <1>8, <1>9, <1>10, <1>11, <1>12 DEF IInv, SessionsInv

\* The rows a segment is proposed of: the first row of all, and only rows past the
\* retention period.
LEMMA WindowRows ==
  ASSUME TypeOK, RowsInv, rows # {}, First(rows).at + Interval + Retention <= clock
  PROVE  /\ RowsAfter(SealedThrough) = rows
         /\ Window \subseteq rows /\ First(rows) \in Window
         /\ \A r \in Window : r.at + Retention < clock
<1>1. Chain(rows, Base, TailHash)
  BY DEF RowsInv
<1>2. RowsAfter(SealedThrough) = rows
  <2>1. \A r \in rows : r.seq \in Nat /\ SealedThrough < r.seq
    BY <1>1, ChainRow DEF RowsInv
  <2> QED BY <2>1 DEF RowsAfter
<1> DEFINE o == First(rows)
           expired == {r \in rows : r.at < o.at + Interval}
<1>3. Window = {r \in expired : Cardinality({q \in expired : q.seq <= r.seq}) <= MaxRows}
  BY <1>2 DEF Window
<1>4. o \in rows /\ \A q \in rows : o.seq <= q.seq
  BY <1>1, ChainFirst
<1>5. /\ \A r \in rows : r.at \in Nat /\ r.seq \in Nat
      /\ Interval \in Nat /\ Interval > 0 /\ MaxRows \in Nat /\ MaxRows > 0
      /\ Retention \in Nat /\ clock \in Nat
  BY AuditAssumption, RowType, ClockType DEF TypeOK
<1>6. o \in expired
  BY <1>4, <1>5
<1>7. {q \in expired : q.seq <= o.seq} = {o}
  <2>1. \A q \in rows : q.seq = o.seq => q = o
    BY <1>1, <1>4 DEF Chain
  <2> QED BY <1>4, <1>5, <1>6, <2>1
<1>8. Cardinality({o}) = 1
  BY FS_Singleton
<1>9. o \in Window
  BY <1>3, <1>5, <1>6, <1>7, <1>8
<1>10. \A r \in Window : r \in rows /\ r.at < o.at + Interval
  BY <1>3
<1>11. \A r \in Window : r.at + Retention < clock
  BY <1>4, <1>5, <1>10
<1> QED BY <1>2, <1>9, <1>10, <1>11

\* A window of the oldest rows is proposed for a segment.
LEMMA ProposeStep ==
  ASSUME IInv, ProposeSegment
  PROVE  IInv'
<1>1. TypeOK /\ RowsInv /\ Operator \in Session
  BY NoEvent DEF IInv
<1>2. Chain(rows, Base, TailHash)
  BY <1>1 DEF RowsInv
<1>3. RowsAfter(SealedThrough) = rows
  <2>1. \A r \in rows : r.seq \in Nat /\ SealedThrough < r.seq
    BY <1>1, <1>2, ChainRow DEF RowsInv
  <2> QED BY <2>1 DEF RowsAfter
<1>4. rows # {} /\ First(rows).at + Interval + Retention <= clock
  BY <1>3 DEF ProposeSegment
<1> DEFINE W == Window
<1>5. W \subseteq rows /\ First(rows) \in W /\ \A r \in W : r.at + Retention < clock
  BY <1>1, <1>4, WindowRows
<1>6. /\ candidate' = Span(W) /\ job' = [job EXCEPT ![Operator] = "seal"]
      /\ pc' = [pc EXCEPT ![Operator] = "lock"]
      /\ UNCHANGED <<table, lock, clock, occurred, start, tail, fresh, walk>>
  BY DEF ProposeSegment, Step
<1> HIDE DEF W
<1>7. Last(W) \in W /\ \A q \in W : q.seq <= Last(W).seq
  BY <1>2, <1>5, LastOfSome
<1>8. First(W) = First(rows) /\ First(rows).prev = Base /\ \A q \in rows : First(rows).seq <= q.seq
  <2>1. First(rows) \in rows /\ First(rows).prev = Base /\ \A q \in rows : First(rows).seq <= q.seq
    BY <1>2, <1>4, ChainFirst
  <2>2. \A q \in rows : q.seq \in Nat /\ (q.seq = First(rows).seq => q = First(rows))
    <3>1. \A q, r \in rows : q.seq = r.seq => q = r
      BY <1>2 DEF Chain
    <3> QED BY <1>2, <2>1, <3>1, ChainRow
  <2>3. First(W) = First(rows)
    BY <1>5, <2>1, <2>2, FirstIs
  <2> QED BY <2>1, <2>3
<1> DEFINE x == First(rows)
           l == Last(W)
<1>9. x \in rows /\ l \in rows
  BY <1>5, <1>7
<1>10. /\ x.seq \in 1..MaxSeq /\ l.seq \in 1..MaxSeq /\ x.seq \in Int /\ l.seq \in Int
       /\ l.chain \in Hash /\ Base \in Hash
  BY <1>1, <1>9, RowType, TailFacts, ValueTypes DEF TypeOK
<1>11. Cardinality(W) \in 1..MaxSeq /\ IsFiniteSet(W)
  <2> DEFINE U == {r \in rows : r.seq <= l.seq}
  <2>1. IsFiniteSet(U) /\ Cardinality(U) = Len(l.chain) - Len(Base)
    BY <1>2, <1>9, ChainCount
  <2>2. W \in SUBSET U
    BY <1>5, <1>7
  <2> HIDE DEF U
  <2>3. IsFiniteSet(W) /\ Cardinality(W) <= Cardinality(U)
    BY <2>1, <2>2, FS_Subset
  <2>4. Cardinality(W) \in Nat /\ Cardinality(W) # 0
    BY <1>5, <2>3, FS_CardinalityType, FS_EmptySet
  <2>5. Len(l.chain) <= MaxSeq /\ Len(l.chain) \in Nat /\ Len(Base) \in Nat /\ MaxSeq \in Nat
    BY <1>10, HashIsSeq, ValueTypes
  <2> QED BY <2>1, <2>3, <2>4, <2>5
<1>12. candidate' = [first |-> x.seq, last |-> l.seq, prev |-> Base, terminal |-> l.chain,
                     count |-> Cardinality(W), checkpoint |-> 0]
  BY <1>6, <1>8 DEF Span
<1>13. candidate' \in Segment
  BY <1>10, <1>11, <1>12 DEF Segment, Seq1
<1>14. Cardinality(W) <= Cardinality(Expired(x.seq, l.seq))
  <2> DEFINE X == Expired(x.seq, l.seq)
             g == [r \in W |-> r.seq]
  <2>1. IsFiniteSet(X)
    <3>1. IsFiniteSet(x.seq..l.seq)
      BY <1>10, FS_Interval
    <3>2. X \in SUBSET (x.seq..l.seq)
      BY DEF Expired
    <3> QED BY <3>1, <3>2, FS_Subset
  <2>2. ASSUME NEW r \in W PROVE r.seq \in X
    <3>1. r \in rows /\ r.at + Retention < clock /\ x.seq <= r.seq /\ r.seq <= l.seq
      BY <1>5, <1>7, <1>8
    <3>2. r.seq \in Int
      BY <1>2, <3>1, ChainRow
    <3>3. r.seq \in x.seq..l.seq
      BY <1>10, <3>1, <3>2
    <3> QED BY <3>1, <3>3 DEF Expired
  <2>3. \A r, q \in W : r.seq = q.seq => r = q
    BY <1>2, <1>5 DEF Chain
  <2> HIDE DEF X
  <2>4. g \in Injection(W, X)
    BY <2>2, <2>3 DEF Injection, IsInjective
  <2>5. Cardinality(W) <= Cardinality(X)
    BY <2>1, <2>4, FS_Injection
  <2> QED BY <2>5 DEF X
<1> HIDE DEF x, l
<1>15. CandidateInv'
  <2>1. /\ candidate'.first = x.seq /\ candidate'.last = l.seq /\ candidate'.prev = Base
        /\ candidate'.terminal = l.chain /\ candidate'.count = Cardinality(W)
    BY <1>12
  <2>2. rows' = rows /\ Base' = Base /\ clock' = clock
    BY <1>6 DEF table, Base
  <2>3. \A r \in rows : x.seq <= r.seq
    BY <1>8 DEF x
  <2>4. Expired(candidate.first, candidate.last)' = Expired(x.seq, l.seq)
    BY <2>1, <2>2 DEF Expired
  <2> QED BY <1>9, <1>13, <1>14, <2>1, <2>2, <2>3, <2>4 DEF CandidateInv
<1>16. TypeOK'
  BY <1>1, <1>6, <1>13 DEF TypeOK, table, walk
<1>17. /\ Kept /\ next' = next /\ next \in Nat /\ clock' = clock /\ clock \in Nat
       /\ checkpoints' = checkpoints
  BY <1>1, <1>6, KeptUnchanged, TailFacts, ClockType DEF table
<1>18. RowsInv' /\ SegmentsInv' /\ CheckpointsInv' /\ EventsInv'
  BY <1>17, KeptTables, KeptEvents DEF IInv
<1>19. ASSUME NEW s \in Session PROVE Flight(s)' /\ Holding(s)' /\ Verifying(s)'
  <2>1. CASE s = Operator
    <3>1. pc'[s] = "lock" /\ job'[s] = "seal"
      BY <1>1, <1>6, <2>1 DEF TypeOK
    <3> QED BY <3>1, NoEvent DEF Flight, Holding, Verifying
  <2>2. CASE s # Operator
    <3>1. Aside(s)
      BY <1>1, <1>6, <2>2 DEF TypeOK, Aside, walk
    <3> QED BY <1>17, <3>1, KeptSession DEF IInv, SessionsInv
  <2> QED BY <2>1, <2>2
<1> QED BY <1>15, <1>16, <1>18, <1>19 DEF IInv, SessionsInv

\* What a sealing takes: the candidate's rows are the first of the chain, none of them
\* younger than the retention period.
LEMMA SealTakes ==
  ASSUME TypeOK, RowsInv, CandidateInv, job[Operator] = "seal", CountMatches(candidate)
  PROVE  \E t \in rows :
           /\ t.seq = candidate.last /\ t.chain = candidate.terminal
           /\ Dropped(candidate) = {r \in rows : r.seq <= t.seq}
           /\ rows \ Dropped(candidate) = {r \in rows : r.seq > t.seq}
           /\ candidate.count = Len(t.chain) - Len(Base)
           /\ \A r \in rows : r.seq <= t.seq => r.at + Retention < clock
<1> DEFINE c == candidate
           D == Dropped(c)
           X == Expired(c.first, c.last)
<1>1. /\ c \in Segment /\ c.prev = Base /\ \A r \in rows : c.first <= r.seq
      /\ c.count <= Cardinality(X)
  BY DEF CandidateInv
<1>2. PICK t \in rows : t.seq = c.last /\ t.chain = c.terminal
  BY DEF CandidateInv
<1>3. Chain(rows, Base, TailHash)
  BY DEF RowsInv
<1>4. c.first \in Nat /\ c.last \in Nat /\ c.count \in Nat /\ c.first \in Int /\ c.last \in Int
  BY <1>1, ValueTypes DEF Segment, Seq1
<1>5. \A r \in rows : r.seq \in Nat
  BY <1>3, ChainRow
<1>6. D = {r \in rows : r.seq <= t.seq}
  BY <1>1, <1>2 DEF Dropped
<1>7. rows \ D = {r \in rows : r.seq > t.seq}
  BY <1>2, <1>5, <1>6
<1>8. IsFiniteSet(D) /\ Cardinality(D) = Len(t.chain) - Len(Base) /\ Cardinality(D) = c.count
  BY <1>3, <1>6, ChainCount DEF CountMatches
<1>9. \A r \in rows : r.seq <= t.seq => r.at + Retention < clock
  <2> DEFINE N == {r.seq : r \in D}
             g == [r \in D |-> r.seq]
  <2>1. \A r, q \in D : r.seq = q.seq => r = q
    BY <1>3, <1>6 DEF Chain
  <2>2. g \in Bijection(D, N)
    BY <2>1 DEF Bijection, Injection, Surjection, IsInjective
  <2>3. IsFiniteSet(N) /\ Cardinality(N) = Cardinality(D)
    BY <1>8, <2>2, FS_Bijection DEF ExistsBijection
  <2>4. X \in SUBSET N
    <3> SUFFICES ASSUME NEW i \in X PROVE i \in N
      OBVIOUS
    <3>1. PICK r \in rows : i \in c.first..c.last /\ r.seq = i
      BY DEF Expired
    <3>2. r.seq <= t.seq
      BY <1>2, <1>4, <3>1
    <3> QED BY <1>6, <3>1, <3>2
  <2> HIDE DEF X, N, D, g
  <2>5. Cardinality(X) <= Cardinality(N) /\ (Cardinality(X) = Cardinality(N) => X = N)
        /\ IsFiniteSet(X)
    BY <2>3, <2>4, FS_Subset
  <2>6. Cardinality(X) \in Nat /\ Cardinality(N) \in Nat
    BY <2>3, <2>5, FS_CardinalityType
  <2>7. X = N
    BY <1>1, <1>4, <1>8, <2>3, <2>5, <2>6
  <2> SUFFICES ASSUME NEW r \in rows, r.seq <= t.seq PROVE r.at + Retention < clock
    OBVIOUS
  <2>8. r.seq \in X
    BY <1>6, <2>7 DEF N
  <2>9. PICK q \in rows : q.seq = r.seq /\ q.at + Retention < clock
    BY <2>8 DEF X, Expired
  <2>10. q = r
    BY <1>3, <2>9 DEF Chain
  <2> QED BY <2>9, <2>10
<1> QED BY <1>2, <1>6, <1>7, <1>8, <1>9

\* A sealing leaves the tail as it is: the survivors hold it.
LEMMA SealKeepsTail ==
  ASSUME TypeOK, RowsInv, CandidateInv, SealAndDrop
  PROVE  TailHash' = TailHash /\ TailSeq' = TailSeq
<1> DEFINE c == candidate
           survivors == {r \in rows \ Dropped(c) : r.seq > c.last}
           ok == /\ Covers(c) /\ CountMatches(c) /\ survivors # {}
                 /\ First(survivors).prev = c.terminal
<1>1. CASE ~ok
  <2>1. UNCHANGED <<rows, segments, occurred>>
    BY <1>1 DEF SealAndDrop
  <2> QED BY <2>1, KeptUnchanged DEF Kept
<1>2. CASE ok
  <2>1. PICK t \in rows : rows \ Dropped(c) = {r \in rows : r.seq > t.seq}
    BY <1>2, SealTakes DEF SealAndDrop
  <2>2. rows' = {r \in rows : r.seq > t.seq} /\ rows' # {}
    BY <1>2, <2>1 DEF SealAndDrop
  <2>3. Chain(rows, Base, TailHash)
    BY DEF RowsInv
  <2>4. Chain(rows', t.chain, TailHash)
    BY <2>2, <2>3, ChainCut
  <2>5. /\ Last(rows') \in rows' /\ Last(rows').chain = TailHash
        /\ Last(rows) \in rows /\ Last(rows).chain = TailHash
    BY <2>2, <2>3, <2>4, ChainLast
  <2>6. Last(rows').seq = Last(rows).seq
    <3>1. Last(rows') \in rows
      BY <2>2, <2>5
    <3>2. /\ Last(rows').seq < Last(rows).seq
               <=> Len(Last(rows').chain) < Len(Last(rows).chain)
          /\ Last(rows).seq < Last(rows').seq
               <=> Len(Last(rows).chain) < Len(Last(rows').chain)
      BY <2>3, <2>5, <3>1 DEF Chain
    <3>3. Last(rows').seq \in Nat /\ Last(rows).seq \in Nat /\ Len(TailHash) \in Nat
      BY <2>3, <2>5, <3>1, ChainRow, TailFacts
    <3> QED BY <2>5, <3>2, <3>3
  <2> QED BY <2>2, <2>5, <2>6 DEF TailHash, TailSeq
<1> QED BY <1>1, <1>2

\* A segment is inserted, and its rows are deleted.
LEMMA SealStep ==
  ASSUME IInv, SealAndDrop
  PROVE  IInv'
<1> DEFINE c == candidate
           survivors == {r \in rows \ Dropped(c) : r.seq > c.last}
           ok == /\ Covers(c) /\ CountMatches(c) /\ survivors # {}
                 /\ First(survivors).prev = c.terminal
<1>1. /\ TypeOK /\ RowsInv /\ SegmentsInv /\ CheckpointsInv /\ EventsInv /\ CandidateInv
      /\ \A o \in Session : Flight(o) /\ Holding(o) /\ Verifying(o)
      /\ Operator \in Session /\ job[Operator] = "seal" /\ pc[Operator] = "locked"
  BY NoEvent DEF IInv, SessionsInv, SealAndDrop
<1>2. Leave(Operator) /\ UNCHANGED <<checkpoints, next, clock, occurred>>
  BY DEF SealAndDrop
<1>3. CASE ~ok
  <2>1. UNCHANGED <<rows, segments, quiet>>
    BY <1>3 DEF SealAndDrop
  <2> QED BY <1>1, <1>2, <2>1, LeaveStep DEF TypeOK, table
<1>4. CASE ok
  <2> DEFINE g == [c EXCEPT !.checkpoint = Len(checkpoints)]
  <2>1. /\ segments' = Append(segments, g) /\ rows' = rows \ Dropped(c)
        /\ quiet' = [s \in Session |-> s = Operator]
    BY <1>4 DEF SealAndDrop
  <2>2. Covers(c) /\ survivors # {}
    BY <1>4
  <2>3. PICK t \in rows :
          /\ t.seq = c.last /\ t.chain = c.terminal
          /\ rows \ Dropped(c) = {r \in rows : r.seq > t.seq}
          /\ c.count = Len(t.chain) - Len(Base)
          /\ \A r \in rows : r.seq <= t.seq => r.at + Retention < clock
    BY <1>1, <1>4, SealTakes
  <2>4. c \in Segment /\ c.prev = Base
    BY <1>1 DEF CandidateInv
  <2>5. Len(checkpoints) \in Nat
    BY <1>1 DEF TypeOK
  <2>6. /\ g \in Segment /\ g.first = c.first /\ g.last = t.seq /\ g.prev = Base
        /\ g.terminal = t.chain /\ g.count = Len(t.chain) - Len(Base)
        /\ g.checkpoint = Len(checkpoints)
    BY <2>3, <2>4, <2>5 DEF Segment
  <2> HIDE DEF g, c
  <2>7. rows' = {r \in rows : r.seq > t.seq} /\ rows' # {}
    BY <2>1, <2>2, <2>3 DEF c
  <2>8. Chain(rows, Base, TailHash)
    BY <1>1 DEF RowsInv
  <2>9. Chain(rows', t.chain, TailHash)
    BY <2>7, <2>8, ChainCut
  <2>10. /\ segments' \in Seq(Segment) /\ Len(segments') = Len(segments) + 1
         /\ Len(segments) \in Nat /\ segments'[Len(segments) + 1] = g /\ segments' # <<>>
         /\ \A k \in 1..Len(segments) : segments'[k] = segments[k]
         /\ DOMAIN segments = 1..Len(segments) /\ DOMAIN segments' = 1..Len(segments) + 1
    BY <1>1, <2>1, <2>6 DEF TypeOK
  <2>11. Base' = t.chain /\ SealedThrough' = t.seq
    BY <2>6, <2>10 DEF Base, SealedThrough
  <2>12. TailHash' = TailHash /\ TailSeq' = TailSeq
    BY <1>1, SealKeepsTail
  <2>13. TypeOK'
    <3>1. quiet' \in [Session -> BOOLEAN] /\ rows' \subseteq Row
      BY <1>1, <2>1 DEF TypeOK
    <3> QED BY <1>1, <1>2, <2>10, <3>1, LeaveEnds DEF TypeOK
  <2>14. RowsInv'
    <3>1. ASSUME NEW r \in rows' PROVE t.seq < r.seq /\ r.seq < next /\ occurred[r.id] <= r.at
      BY <1>1, <2>7 DEF RowsInv
    <3>2. Len(TailHash) < next
      BY <1>1 DEF RowsInv
    <3> QED BY <1>2, <2>7, <2>9, <2>11, <2>12, <3>1, <3>2 DEF RowsInv
  <2>15. SegmentsInv'
    <3> SUFFICES ASSUME NEW k \in DOMAIN segments'
                 PROVE  LET f == segments'[k] IN
                        /\ f.prev = IF k = 1 THEN Genesis ELSE segments'[k - 1].terminal
                        /\ f.count = Len(f.terminal) - Len(f.prev)
                        /\ f.checkpoint <= Len(checkpoints)
                        /\ f.checkpoint > 0 => checkpoints[f.checkpoint].tail >= f.last
      BY <1>2 DEF SegmentsInv
    <3>1. CASE k \in DOMAIN segments
      <4>1. segments'[k] = segments[k] /\ (k # 1 => segments'[k - 1] = segments[k - 1])
        BY <2>10, <3>1
      <4> QED BY <1>1, <3>1, <4>1 DEF SegmentsInv
    <3>2. CASE k = Len(segments) + 1
      <4>1. Base = IF k = 1 THEN Genesis ELSE segments'[k - 1].terminal
        <5>1. segments = <<>> <=> Len(segments) = 0
          BY <1>1 DEF TypeOK
        <5>2. k # 1 => segments'[k - 1] = segments[Len(segments)]
          BY <2>10, <3>2
        <5> QED BY <2>10, <3>2, <5>1, <5>2 DEF Base
      <4>2. Len(checkpoints) > 0 => checkpoints[Len(checkpoints)].tail >= t.seq
        BY <2>2, <2>3 DEF Covers, c
      <4>3. segments'[k] = g /\ Len(checkpoints) <= Len(checkpoints)
        BY <2>5, <2>10, <3>2
      <4> QED BY <2>6, <4>1, <4>2, <4>3
    <3>3. k \in DOMAIN segments \/ k = Len(segments) + 1
      BY <2>10
    <3> QED BY <3>1, <3>2, <3>3
  <2>16. CheckpointsInv'
    BY <1>1, <1>2, <2>12 DEF CheckpointsInv
  <2>17. EventsInv'
    <3>1. \A i, j \in 1..Len(TailHash) : TailHash[i] = TailHash[j] => i = j
      BY <1>1 DEF EventsInv
    <3>2. ASSUME NEW i \in 1..Len(t.chain) PROVE Old(t.chain[i])
      <4>1. /\ t.chain[i] = TailHash[i] /\ i <= Len(TailHash) /\ IsPre(Base, TailHash)
            /\ Len(Base) \in Nat /\ Len(TailHash) \in Nat /\ Len(t.chain) \in Nat
        BY <1>1, <2>8, ChainRow, TailFacts DEF IsPre, Chain
      <4>2. CASE i <= Len(Base)
        <5>1. i \in 1..Len(Base) /\ Base[i] = TailHash[i]
          BY <4>1, <4>2 DEF IsPre
        <5> QED BY <1>1, <4>1, <5>1 DEF EventsInv
      <4>3. CASE i > Len(Base)
        <5>1. i \in Len(Base) + 1..Len(TailHash)
          BY <4>1, <4>3
        <5>2. PICK r \in rows : Len(r.chain) = i
          BY <2>8, <5>1 DEF Chain
        <5>3. t.chain[i] = r.id
          BY <2>8, <4>1, <5>2, ChainRow
        <5>4. r.seq <= t.seq
          <6>1. t.seq < r.seq <=> Len(t.chain) < Len(r.chain)
            BY <2>8 DEF Chain
          <6>2. t.seq \in Nat /\ r.seq \in Nat
            BY <2>8, ChainRow
          <6> QED BY <4>1, <5>2, <6>1, <6>2
        <5>5. r.at + Retention < clock /\ occurred[r.id] <= r.at
          BY <1>1, <2>3, <5>4 DEF RowsInv
        <5>6. /\ r.at \in Nat /\ occurred[r.id] \in Nat /\ clock \in Nat
              /\ Backdate \in Nat /\ Retention \in Nat /\ Backdate < Retention
          BY <1>1, AuditAssumption, RowType, ClockType DEF TypeOK
        <5> QED BY <5>3, <5>5, <5>6 DEF Old
      <4> QED BY <4>1, <4>2, <4>3
    <3>3. \A i \in 1..Len(t.chain) : Old(t.chain[i])'
      BY <1>2, <3>2 DEF Old
    <3> QED BY <2>11, <2>12, <3>1, <3>3 DEF EventsInv
  <2>18. pc'[Operator] = "idle" /\ job'[Operator] = None /\ lock = Operator
    BY <1>1, <1>2, LeaveEnds DEF Holding
  <2>19. CandidateInv'
    BY <2>18, NoEvent DEF CandidateInv
  <2>20. ASSUME NEW o \in Session PROVE Flight(o)' /\ Holding(o)' /\ Verifying(o)'
    <3>1. CASE o = Operator
      BY <2>18, <3>1, NoEvent DEF Flight, Holding, Verifying
    <3>2. CASE o # Operator
      <4>1. /\ pc'[o] = pc[o] /\ job'[o] = job[o] /\ start'[o] = start[o] /\ ~quiet'[o]
        BY <1>1, <1>2, <2>1, <3>2 DEF TypeOK, Leave
      <4>2. pc[o] \notin {"locked", "insert", "commit", "rejected"}
        BY <1>1, <2>18, <3>2 DEF Holding
      <4>3. Flight(o)'
        BY <1>1, <1>2, <4>1 DEF Flight
      <4> QED BY <4>1, <4>2, <4>3 DEF Holding, Verifying
    <3> QED BY <3>1, <3>2
  <2> QED BY <2>13, <2>14, <2>15, <2>16, <2>17, <2>19, <2>20 DEF IInv, SessionsInv
<1> QED BY <1>3, <1>4

-----------------------------------------------------------------------------
(* The theorems *)

\* An empty chain keeps the invariant.
LEMMA InitInv == Init => IInv
<1> SUFFICES ASSUME Init PROVE IInv
  OBVIOUS
<1>1. /\ rows = {} /\ segments = <<>> /\ checkpoints = <<>> /\ next = 1 /\ clock = 0
      /\ \A s \in Session : pc[s] = "idle" /\ job[s] = None
  BY DEF Init
<1>2. TypeOK
  <2>1. /\ pc \in [Session -> {"idle", "lock", "locked", "insert", "commit", "rejected",
                               "head", "segment", "walk", "alarm"}]
        /\ job \in [Session -> Event \cup {"checkpoint", "seal", "verify", None}]
        /\ start \in [Session -> Time] /\ tail \in [Session -> Hash]
        /\ fresh \in [Session -> Row \cup {None}] /\ candidate \in Segment \cup {None}
        /\ from \in [Session -> 0..MaxSeq] /\ seed \in [Session -> Hash \cup {None}]
        /\ quiet \in [Session -> BOOLEAN] /\ lock \in Session \cup {None}
        /\ occurred \in [Event -> Time]
    BY ValueTypes DEF Init
  <2>2. segments \in Seq(Segment) /\ checkpoints \in Seq(Checkpoint) /\ rows \subseteq Row
    BY <1>1
  <2>3. next \in 1..MaxSeq + 1 /\ clock \in Time
    BY <1>1, ValueTypes
  <2> QED BY <2>1, <2>2, <2>3 DEF TypeOK
<1>3. Base = Genesis /\ TailHash = Genesis /\ Genesis \in Hash /\ Len(Genesis) = 0
  BY <1>1, ValueTypes DEF Base, TailHash, LastTerminal, Genesis
<1>4. RowsInv
  <2>1. IsPre(Genesis, Genesis)
    BY <1>3, PreIsOrder
  <2>2. Chain(rows, Base, TailHash)
    BY <1>1, <1>3, <2>1 DEF Chain
  <2> QED BY <1>1, <1>3, <2>2 DEF RowsInv
<1>5. SegmentsInv /\ CheckpointsInv
  BY <1>1 DEF SegmentsInv, CheckpointsInv
<1>6. EventsInv
  BY <1>3 DEF EventsInv
<1>7. CandidateInv
  BY <1>1, NoEvent DEF CandidateInv
<1>8. SessionsInv
  BY <1>1, NoEvent DEF SessionsInv, Flight, Holding, Verifying
<1> QED BY <1>2, <1>4, <1>5, <1>6, <1>7, <1>8 DEF IInv

\* So does every step.
LEMMA StepInv == IInv /\ [Next]_vars => IInv'
<1> SUFFICES ASSUME IInv, [Next]_vars PROVE IInv'
  OBVIOUS
<1>1. ASSUME NEW s \in Server, NEW e \in Event, BeginAppend(s, e) PROVE IInv'
  BY <1>1, BeginAppendStep
<1>2. ASSUME NEW s \in Server, NEW n \in Ranges, BeginVerify(s, n) PROVE IInv'
  BY <1>2, VerifyBegins
<1>3. ASSUME NEW s \in Server,
             ReadTail(s) \/ Insert(s) \/ Commit(s) \/ BeginCheckpoint(s) \/ WriteCheckpoint(s)
      PROVE  IInv'
  BY <1>3, ReadTailStep, InsertStep, CommitStep, CheckpointBegins, WriteCheckpointStep
<1>4. ASSUME NEW s \in Server, ReadHead(s) \/ ReadSegment(s) \/ Walk(s) PROVE IInv'
  BY <1>4, HeadIsRead, SegmentIsRead, WalkStep
<1>5. ASSUME NEW s \in Server, Report(s) PROVE IInv'
  BY <1>5, NoEvent, EndStep DEF Report
<1>6. ASSUME NEW s \in Session, TakeLock(s) PROVE IInv'
  BY <1>6, TakeLockStep
<1>7. ASSUME NEW s \in Session, Abort(s) PROVE IInv'
  BY <1>7, EndStep DEF Abort
<1>8. CASE ProposeSegment
  BY <1>8, ProposeStep
<1>9. CASE SealAndDrop
  BY <1>9, SealStep
<1>10. CASE Erase
  BY <1>10, EraseStep
<1>11. CASE Tick
  BY <1>11, TickStep
<1>12. CASE UNCHANGED vars
  <2>1. UNCHANGED <<table, lock, clock, occurred, pc, job, start, tail, fresh, candidate, walk>>
    BY <1>12 DEF vars, table, walk
  <2>2. Kept /\ clock \in Nat /\ next \in Nat /\ next' = next /\ clock' = clock
    BY <2>1, KeptUnchanged, ClockType, TailFacts DEF IInv, table
  <2>3. TypeOK'
    BY <2>1 DEF IInv, TypeOK, table, walk
  <2>4. RowsInv' /\ SegmentsInv' /\ CheckpointsInv' /\ EventsInv' /\ CandidateInv'
    BY <2>1, <2>2, KeptTables, KeptEvents, KeptCandidate DEF IInv, table
  <2>5. ASSUME NEW s \in Session PROVE Flight(s)' /\ Holding(s)' /\ Verifying(s)'
    BY <2>1, <2>2, KeptSession DEF IInv, SessionsInv, Aside, walk
  <2> QED BY <2>3, <2>4, <2>5 DEF IInv, SessionsInv
<1> QED BY <1>1, <1>2, <1>3, <1>4, <1>5, <1>6, <1>7, <1>8, <1>9, <1>10, <1>11, <1>12 DEF Next

\* The inductive invariant: the rows are the chain from the last segment on, the holder of
\* the lock has read the tail as it is, a proposed segment counts only expired rows.
THEOREM InvariantHolds == Spec => []IInv
BY InitInv, StepInv, PTL DEF Spec

\* Every table and every session keeps to its type: no hash outgrows the numbers taken.
THEOREM TypeCorrect == Spec => []TypeOK
<1>1. IInv => TypeOK
  BY DEF IInv
<1> QED BY <1>1, InvariantHolds, PTL

\* Segments and rows are one chain from the genesis hash, nothing is dropped uncounted, and
\* no append is refused by a unique column.
THEOREM OneChain == Spec => []ChainLinked
<1>1. ASSUME IInv PROVE ChainLinked
  <2>1. TypeOK /\ RowsInv /\ SegmentsInv /\ \A s \in Session : Holding(s)
    BY <1>1 DEF IInv, SessionsInv
  <2>2. Chain(rows, Base, TailHash)
    BY <2>1 DEF RowsInv
  <2>3. Base \in Hash /\ IsPre(Base, TailHash) /\ Len(Base) <= Len(Base)
        /\ \A r \in rows : r.seq >= 0 <=> Len(r.chain) > Len(Base)
    BY <2>1, <2>2, BaseSeeds, ChainRow
  <2>4. Intact({r \in rows : r.seq >= 0}, Base)
    BY <2>2, <2>3, ChainIntact
  <2>5. {r \in rows : r.seq >= 0} = rows
    BY <2>2, ChainRow
  <2>6. Intact(rows, IF segments = <<>> THEN Genesis ELSE segments[Len(segments)].terminal)
    BY <2>4, <2>5 DEF Base
  <2>7. NoAppendIsRejected
    BY <2>1 DEF NoAppendIsRejected, Holding
  <2>8. \A k \in DOMAIN segments :
          /\ segments[k].prev = IF k = 1 THEN Genesis ELSE segments[k - 1].terminal
          /\ segments[k].count = Len(segments[k].terminal) - Len(segments[k].prev)
    BY <2>1 DEF SegmentsInv
  <2> QED BY <2>6, <2>7, <2>8 DEF ChainLinked
<1> QED BY <1>1, InvariantHolds, PTL

\* Every checkpoint stays a signature of the first events of the chain, and a segment was
\* covered by the checkpoint it names.
THEOREM CheckpointsBind == Spec => []CheckpointsBindTheChain
<1>1. ASSUME IInv PROVE CheckpointsBindTheChain
  <2>1. TypeOK /\ RowsInv /\ SegmentsInv /\ CheckpointsInv
    BY <1>1 DEF IInv
  <2>2. ASSUME NEW k \in DOMAIN checkpoints
        PROVE  checkpoints[k].hash = SubSeq(TailHash, 1, Len(checkpoints[k].hash))
    <3> DEFINE a == checkpoints[k].hash
    <3>1. a \in Seq(Event) /\ TailHash \in Seq(Event)
      <4>1. checkpoints \in Seq(Checkpoint)
        BY <2>1 DEF TypeOK
      <4>2. checkpoints[k] \in Checkpoint
        BY <4>1
      <4> QED BY <2>1, <4>2, TailFacts, HashIsSeq DEF Checkpoint
    <3>2. IsPre(a, TailHash)
      BY <2>1 DEF CheckpointsInv
    <3> HIDE DEF a
    <3>3. Len(a) \in Nat /\ Len(a) <= Len(TailHash) /\ \A i \in 1..Len(a) : a[i] = TailHash[i]
      BY <3>1, <3>2 DEF IsPre
    <3>4. a = SubSeq(TailHash, 1, Len(a))
      BY <3>1, <3>3
    <3> QED BY <3>4 DEF a
  <2> QED BY <2>1, <2>2 DEF CheckpointsBindTheChain, CheckpointsInv, SegmentsInv
<1> QED BY <1>1, InvariantHolds, PTL

\* While nothing is sealed meanwhile, a verification finds the chain intact from any row on.
THEOREM AlarmsAreTrue == Spec => []NoFalseAlarm
<1>1. IInv => NoFalseAlarm
  BY DEF IInv, SessionsInv, Verifying, NoFalseAlarm
<1> QED BY <1>1, InvariantHolds, PTL

\* A step appends one event that the log does not hold, or leaves the log as it is.
LEMMA StepOfLog ==
  ASSUME IInv, IInv', Next
  PROVE  Log!Next \/ TailHash' = TailHash
<1>1. TypeOK /\ RowsInv
  BY DEF IInv
<1>2. ASSUME NEW s \in Server, Commit(s) PROVE Log!Next
  <2>1. /\ job[s] \in Event /\ TailHash' = Append(TailHash, job[s])
        /\ \A i \in 1..Len(TailHash) : TailHash[i] # job[s]
    BY <1>2, CommitAppends
  <2>2. DOMAIN TailHash = 1..Len(TailHash)
    <3>1. TailHash \in Seq(Event)
      BY <1>1, TailFacts, HashIsSeq
    <3> QED BY <3>1
  <2> QED BY <2>1, <2>2 DEF Log!Next, Log!AppendEvent
<1>3. CASE SealAndDrop
  BY <1>1, <1>3, SealKeepsTail DEF IInv
<1>4. CASE Erase
  BY <1>1, <1>4, KeptErased DEF Kept
<1>5. CASE UNCHANGED <<rows, segments, occurred>>
  BY <1>1, <1>5, KeptUnchanged DEF Kept
<1>6. \/ \E s \in Server : Commit(s)
      \/ SealAndDrop \/ Erase \/ UNCHANGED <<rows, segments, occurred>>
  <2>1. ASSUME NEW s \in Server,
               \/ \E e \in Event : BeginAppend(s, e)
               \/ ReadTail(s) \/ Insert(s) \/ BeginCheckpoint(s) \/ WriteCheckpoint(s)
        PROVE  UNCHANGED <<rows, segments, occurred>>
    BY <2>1 DEF BeginAppend, ReadTail, Insert, BeginCheckpoint, WriteCheckpoint, table
  <2>2. ASSUME NEW s \in Server,
               \/ \E n \in Ranges : BeginVerify(s, n)
               \/ ReadHead(s) \/ ReadSegment(s) \/ Walk(s) \/ Report(s)
        PROVE  UNCHANGED <<rows, segments, occurred>>
    BY <2>2 DEF BeginVerify, ReadHead, ReadSegment, Walk, Report, table
  <2>3. ASSUME NEW s \in Session, TakeLock(s) \/ Abort(s)
        PROVE  UNCHANGED <<rows, segments, occurred>>
    BY <2>3 DEF TakeLock, Abort, table
  <2>4. CASE ProposeSegment \/ Tick
    BY <2>4 DEF ProposeSegment, Tick, table
  <2> QED BY <2>1, <2>2, <2>3, <2>4 DEF Next
<1> QED BY <1>2, <1>3, <1>4, <1>5, <1>6

\* The service implements the log its callers are promised: what is hashed into the tail
\* grows by one new event at a time, whatever is sealed, dropped, erased or rolled back.
THEOREM ServiceImplementsLog == Spec => ImplementsLog
<1>1. Init => Log!Init
  BY DEF Init, TailHash, LastTerminal, Genesis, Log!Init
<1>2. IInv /\ IInv' /\ [Next]_vars => [Log!Next]_TailHash
  <2> SUFFICES ASSUME IInv, IInv', [Next]_vars PROVE Log!Next \/ TailHash' = TailHash
    OBVIOUS
  <2>1. CASE Next
    BY <2>1, StepOfLog
  <2>2. CASE UNCHANGED vars
    BY <2>2 DEF vars, TailHash, LastTerminal
  <2> QED BY <2>1, <2>2
<1> QED BY <1>1, <1>2, InvariantHolds, PTL DEF Spec, ImplementsLog, Log!Spec
=============================================================================
