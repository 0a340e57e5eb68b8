------------------------ MODULE RequestPipeline_proofs ------------------------
(***************************************************************************)
(* Theorems about RequestPipeline and the limiters in it, for every number *)
(* of clients and requests, every limit, window and clock.                 *)
(***************************************************************************)
EXTENDS RequestPipeline, FiniteSetTheorems, SequenceTheorems, TLAPS

------------------------------------------------------------------------------
(* The inductive invariant behind the safety properties.                   *)

\* The counter of a window that has been opened knows the last requests let
\* through: as many as it holds, up to the limit.
Counted(l, k) == IF hits[l][k] <= Limit[l] THEN hits[l][k] ELSE Limit[l]

\* The rest were let through before that window opened; of those that are recent
\* the window before accounts for Limit, and each restart for Limit more.
Earlier(l, k) == Len(letIn[l][k]) - Counted(l, k)

CounterOK(l, k) ==
    LET s == letIn[l][k]
    IN  /\ \A i \in 1..Len(s) : s[i] <= now
        /\ resetAt[l][k] <= now + Window
        /\ resetAt[l][k] = 0 => hits[l][k] = 0
        /\ Earlier(l, k) >= 0
        /\ \A i \in 1..Len(s) :
             IF i > Earlier(l, k) THEN s[i] + Window >= resetAt[l][k]
             ELSE /\ resetAt[l][k] # 0 => s[i] + Window <= resetAt[l][k]
                  /\ s[i] + Window > now => Earlier(l, k) - i + 1 <= (1 + restarts) * Limit[l]

LimiterInv == \A l \in Limiter, k \in Clients : CounterOK(l, k)

\* A request under way is one client's, waits at a gate of its route, and on a
\* protected route at none behind "jwt" before it has a session.
GateOK(q) ==
    /\ \A j, k \in q.client : j = k
    /\ q # Idle => q.pos >= 1
    /\ q.route \in Protected /\ ~q.authenticated => q.pos <= 4

PipelineInv == LimiterInv /\ \A r \in Req : GateOK(req[r])

------------------------------------------------------------------------------
(* The limiters.                                                           *)

LEMMA LimiterConstants ==
    /\ \A l \in Limiter : Limit[l] \in Nat
    /\ Window \in Nat /\ Window >= 1
BY LimiterAssumption DEF LimiterAssumption

\* The allowance of one more restart.
LEMMA OneMore ==
    ASSUME NEW n \in Nat, NEW m \in Nat
    PROVE  /\ (2 + n) * m = (1 + n) * m + m
           /\ m <= (1 + n) * m
           /\ (1 + n) * m \in Nat /\ (2 + n) * m \in Nat
<1>1. n * m \in Nat
  OBVIOUS
<1>2. (2 + n) * m = n * m + 2 * m /\ (1 + n) * m = n * m + m
  OBVIOUS
<1> QED
  BY <1>1, <1>2

\* What restarts, and the window before, may add to what is recent.
Allowance(l) == (1 + restarts) * Limit[l]

LEMMA LimiterFields ==
    ASSUME LimiterTypeOK, NEW l \in Limiter, NEW k \in Clients
    PROVE  /\ hits[l][k] \in Nat /\ resetAt[l][k] \in Nat /\ letIn[l][k] \in Seq(Nat)
           /\ now \in Nat /\ restarts \in Nat
BY DEF LimiterTypeOK

LEMMA AllowanceFacts ==
    ASSUME LimiterTypeOK, NEW l \in Limiter
    PROVE  /\ Allowance(l) \in Nat /\ Limit[l] <= Allowance(l)
           /\ (2 + restarts) * Limit[l] = Allowance(l) + Limit[l]
<1>1. restarts \in Nat /\ Limit[l] \in Nat
  BY LimiterConstants DEF LimiterTypeOK
<1> QED
  BY <1>1, OneMore DEF Allowance

LEMMA CountHitType ==
    ASSUME LimiterTypeOK, NEW L, NEW k \in Clients, CountHit(L, k)
    PROVE  LimiterTypeOK'
<1>1. \A l \in Limiter : HitsAfter(l, k) \in Nat
  BY LimiterFields DEF HitsAfter
<1>2. hits' \in [Limiter -> [Clients -> Nat]]
  <2>1. \A l \in Limiter : hits[l] \in [Clients -> Nat]
    BY DEF LimiterTypeOK
  <2>2. \A l \in Limiter : [hits[l] EXCEPT ![k] = HitsAfter(l, k)] \in [Clients -> Nat]
    BY <1>1, <2>1
  <2> QED
    BY <2>1, <2>2 DEF CountHit
<1>3. resetAt' \in [Limiter -> [Clients -> Nat]]
  <2>1. \A l \in Limiter : resetAt[l] \in [Clients -> Nat]
    BY DEF LimiterTypeOK
  <2>2. now + Window \in Nat
    BY LimiterConstants DEF LimiterTypeOK
  <2>3. \A l \in Limiter : [resetAt[l] EXCEPT ![k] = now + Window] \in [Clients -> Nat]
    BY <2>1, <2>2
  <2> QED
    BY <2>1, <2>3 DEF CountHit
<1>4. letIn' \in [Limiter -> [Clients -> Seq(Nat)]]
  <2>1. \A l \in Limiter : letIn[l] \in [Clients -> Seq(Nat)]
    BY DEF LimiterTypeOK
  <2>2. \A l \in Limiter : Append(letIn[l][k], now) \in Seq(Nat)
    BY <2>1 DEF LimiterTypeOK
  <2>3. \A l \in Limiter :
          [letIn[l] EXCEPT ![k] = Append(letIn[l][k], now)] \in [Clients -> Seq(Nat)]
    BY <2>1, <2>2
  <2> QED
    BY <2>1, <2>3 DEF CountHit
<1> QED
  BY <1>2, <1>3, <1>4 DEF LimiterTypeOK, CountHit

\* What one limiter does to the counter of the client whose request it counts.
LEMMA CountsOne ==
    ASSUME LimiterTypeOK, NEW L, NEW k \in Clients, CountHit(L, k), NEW l \in Limiter, l \in L
    PROVE  /\ hits'[l][k] = HitsAfter(l, k)
           /\ resetAt'[l][k] = IF Expired(l, k) THEN now + Window ELSE resetAt[l][k]
           /\ letIn'[l][k] = IF LetsThrough(l, k) THEN Append(letIn[l][k], now)
                                                  ELSE letIn[l][k]
BY DEF CountHit, LimiterTypeOK

LEMMA CountsNoOther ==
    ASSUME LimiterTypeOK, NEW L, NEW k \in Clients, CountHit(L, k),
           NEW l \in Limiter, NEW c \in Clients, l \notin L \/ c # k
    PROVE  /\ hits'[l][c] = hits[l][c] /\ resetAt'[l][c] = resetAt[l][c]
           /\ letIn'[l][c] = letIn[l][c]
BY DEF CountHit, LimiterTypeOK

\* CounterOK of one counter, over its values: the requests s let through, of which
\* p were let through earlier, h hits, the end e of the window, the time n, the
\* window's width w and the allowance b of restarts.
Kept(s, p, h, e, n, w, b) ==
    /\ \A i \in 1..Len(s) : s[i] <= n
    /\ e <= n + w
    /\ e = 0 => h = 0
    /\ p >= 0
    /\ \A i \in 1..Len(s) :
         IF i > p THEN s[i] + w >= e
         ELSE /\ e # 0 => s[i] + w <= e
              /\ s[i] + w > n => p - i + 1 <= b

Least(h, m) == IF h <= m THEN h ELSE m

LEMMA LeastFacts ==
    ASSUME NEW h \in Nat, NEW m \in Nat
    PROVE  /\ Least(h, m) \in Nat /\ Least(h, m) <= m
           /\ h <= m => Least(h, m) = h
           /\ h > m => Least(h, m) = m
BY DEF Least

\* Of the requests s, p are not known to the counter.
Splits(p, s, h, m) == p = Len(s) - Least(h, m)

LEMMA CounterKept ==
    ASSUME NEW l \in Limiter, NEW k \in Clients
    PROVE  /\ CounterOK(l, k) <=>
                Kept(letIn[l][k], Earlier(l, k), hits[l][k], resetAt[l][k], now, Window,
                     Allowance(l))
           /\ Earlier(l, k) = Len(letIn[l][k]) - Least(hits[l][k], Limit[l])
BY DEF CounterOK, Kept, Earlier, Counted, Least, Allowance

LEMMA CounterKeptNext ==
    ASSUME NEW l \in Limiter, NEW k \in Clients
    PROVE  /\ CounterOK(l, k)' <=>
                Kept(letIn'[l][k], Earlier(l, k)', hits'[l][k], resetAt'[l][k], now', Window,
                     Allowance(l)')
           /\ Earlier(l, k)' = Len(letIn'[l][k]) - Least(hits'[l][k], Limit[l])
BY DEF CounterOK, Kept, Earlier, Counted, Least, Allowance

\* Of what is recent, the last window accounts for m and the rest for b.
LEMMA RecentKept ==
    ASSUME NEW s \in Seq(Nat), NEW h \in Nat, NEW e, NEW n \in Nat, NEW w \in Nat,
           NEW b \in Nat, NEW m \in Nat, NEW p, p = Len(s) - Least(h, m),
           Kept(s, p, h, e, n, w, b)
    PROVE  \A i \in 1..Len(s) : s[i] + w > n => Len(s) - i + 1 <= b + m
<1>1. Least(h, m) \in Nat /\ Least(h, m) <= m
  BY LeastFacts
<1>2. p \in Int /\ Len(s) \in Nat /\ Len(s) - p <= m
  BY <1>1
<1> SUFFICES ASSUME NEW i \in 1..Len(s), s[i] + w > n
             PROVE  Len(s) - i + 1 <= b + m
  OBVIOUS
<1>3. CASE i > p
  BY <1>2, <1>3
<1>4. CASE ~(i > p)
  <2>1. p - i + 1 <= b
    BY <1>4 DEF Kept
  <2> QED
    BY <1>2, <2>1, SMTT(30)
<1> QED
  BY <1>3, <1>4

\* The first request after the end of a window opens the next: what is recent by
\* then was let through in the window that ended, or is the allowance of restarts.
LEMMA OpeningKeeps ==
    ASSUME NEW s \in Seq(Nat), NEW h \in Nat, NEW e \in Nat, NEW n \in Nat, NEW w \in Nat,
           NEW b \in Nat, NEW m \in Nat, NEW p, p = Len(s) - Least(h, m),
           Kept(s, p, h, e, n, w, b), e <= n, w >= 1, m <= b, NEW t,
           t = IF 1 <= m THEN Append(s, n) ELSE s
    PROVE  Kept(t, Len(s), 1, n + w, n, w, b)
<1>1. Least(h, m) \in Nat /\ Least(h, m) <= m /\ (h = 0 => Least(h, m) = 0)
  BY LeastFacts
<1>2. p \in Int /\ Len(s) \in Nat /\ Len(s) - p <= m /\ (h = 0 => p = Len(s))
  BY <1>1
<1>3. \A i \in 1..Len(s) : s[i] \in Nat /\ s[i] <= n
  BY DEF Kept
<1>4. ASSUME NEW i \in 1..Len(s), s[i] + w > n
      PROVE  Len(s) - i + 1 <= b
  <2>1. CASE i > p
    BY <1>2, <2>1
  <2>2. CASE ~(i > p)
    <3>1. p - i + 1 <= b
      BY <1>4, <2>2 DEF Kept
    <3>2. e = 0
      <4>1. e # 0 => s[i] + w <= e
        BY <2>2 DEF Kept
      <4> QED
        BY <1>3, <1>4, <4>1, SMTT(30)
    <3>3. p = Len(s)
      BY <1>2, <3>2 DEF Kept
    <3> QED
      BY <3>1, <3>3
  <2> QED
    BY <2>1, <2>2
<1>5. CASE 1 <= m
  <2>1. t = Append(s, n) /\ Len(t) = Len(s) + 1
    BY <1>5
  <2>2. \A i \in 1..Len(s) : t[i] = s[i]
    BY <2>1
  <2>3. t[Len(s) + 1] = n
    BY <2>1
  <2>4. ASSUME NEW i \in 1..Len(t)
        PROVE  /\ t[i] <= n
               /\ IF i > Len(s) THEN t[i] + w >= n + w
                  ELSE /\ t[i] + w <= n + w
                       /\ t[i] + w > n => Len(s) - i + 1 <= b
    <3>1. CASE i = Len(s) + 1
      BY <1>2, <2>3, <3>1
    <3>2. CASE i \in 1..Len(s)
      BY <1>3, <1>4, <2>2, <3>2
    <3> QED
      BY <1>2, <2>1, <3>1, <3>2, SMTT(30)
  <2>5. n + w <= n + w /\ n + w # 0 /\ Len(s) >= 0
    BY <1>2
  <2> QED
    BY <2>4, <2>5 DEF Kept
<1>6. CASE ~(1 <= m)
  <2>1. t = s
    BY <1>6
  <2> QED
    BY <1>2, <1>3, <1>4, <2>1 DEF Kept
<1> QED
  BY <1>5, <1>6

Logged(s, g, m, n) == IF g <= m THEN Append(s, n) ELSE s

\* Within a window the counter and the requests let through grow together, up
\* to the limit.
LEMMA CountingKeeps ==
    ASSUME NEW s \in Seq(Nat), NEW h \in Nat, NEW e \in Nat, NEW n \in Nat, NEW w \in Nat,
           NEW b \in Nat, NEW m \in Nat, NEW p, Splits(p, s, h, m),
           Kept(s, p, h, e, n, w, b), e > n, NEW g \in Nat, g = h + 1
    PROVE  /\ Kept(Logged(s, g, m, n), p, g, e, n, w, b)
           /\ Splits(p, Logged(s, g, m, n), g, m)
<1> DEFINE t == Logged(s, g, m, n)
<1>1. Least(h, m) \in Nat /\ Least(g, m) \in Nat /\ Len(s) \in Nat
  <2>1. g \in Nat
    OBVIOUS
  <2>2. Least(g, m) \in Nat
    BY <2>1, LeastFacts
  <2>3. Least(h, m) \in Nat
    BY LeastFacts
  <2> QED
    BY <2>2, <2>3
<1>2. p \in Int /\ p <= Len(s) /\ p = Len(s) - Least(h, m)
  BY <1>1 DEF Splits
<1>3. e <= n + w /\ e # 0
  BY DEF Kept
<1>4. CASE g <= m
  <2>1. t = Append(s, n) /\ Len(t) = Len(s) + 1
    BY <1>4 DEF Logged
  <2> HIDE DEF t
  <2>2. \A i \in 1..Len(s) : t[i] = s[i]
    BY <2>1
  <2>3. t[Len(s) + 1] = n
    BY <2>1
  <2>4. Least(h, m) = h /\ Least(g, m) = g
    BY <1>4, LeastFacts
  <2>5. ASSUME NEW i \in 1..Len(t)
        PROVE  /\ t[i] <= n
               /\ IF i > p THEN t[i] + w >= e
                  ELSE /\ t[i] + w <= e
                       /\ t[i] + w > n => p - i + 1 <= b
    <3>1. CASE i = Len(s) + 1
      BY <1>2, <1>3, <2>3, <3>1
    <3>2. CASE i \in 1..Len(s)
      BY <1>3, <2>2, <3>2 DEF Kept
    <3> QED
      BY <1>1, <2>1, <3>1, <3>2, SMTT(30)
  <2>6. p = Len(t) - Least(g, m)
    BY <1>1, <1>2, <2>1, <2>4
  <2> QED
    BY <1>3, <2>5, <2>6 DEF Kept, Splits, t
<1>5. CASE ~(g <= m)
  <2>1. t = s
    BY <1>5 DEF Logged
  <2> HIDE DEF t
  <2>2. Least(h, m) = m /\ Least(g, m) = m
    <3>1. (h <= m => h = m) /\ g > m /\ g \in Nat
      BY <1>5
    <3>2. Least(g, m) = m
      BY <3>1, LeastFacts
    <3>3. Least(h, m) = m
      <4>1. CASE h <= m
        BY <3>1, <4>1, LeastFacts
      <4>2. CASE h > m
        BY <4>2, LeastFacts
      <4> QED
        BY <4>1, <4>2
    <3> QED
      BY <3>2, <3>3
  <2> QED
    BY <1>2, <1>3, <2>1, <2>2 DEF Kept, Splits, t
<1> QED
  BY <1>4, <1>5

LEMMA WaitingKeeps ==
    ASSUME NEW s \in Seq(Nat), NEW h, NEW e \in Nat, NEW n \in Nat, NEW w \in Nat,
           NEW b \in Nat, NEW p \in Int, Kept(s, p, h, e, n, w, b)
    PROVE  Kept(s, p, h, e, n + 1, w, b)
<1>1. \A i \in 1..Len(s) : s[i] \in Nat
  OBVIOUS
<1>2. ASSUME NEW i \in 1..Len(s)
      PROVE  /\ s[i] <= n + 1
             /\ IF i > p THEN s[i] + w >= e
                ELSE /\ e # 0 => s[i] + w <= e
                     /\ s[i] + w > n + 1 => p - i + 1 <= b
  <2>1. s[i] \in Nat /\ s[i] <= n
    BY <1>1 DEF Kept
  <2>2. CASE i > p
    BY <2>1, <2>2 DEF Kept
  <2>3. CASE ~(i > p)
    <3>1. /\ e # 0 => s[i] + w <= e
          /\ s[i] + w > n => p - i + 1 <= b
      BY <2>3 DEF Kept
    <3> QED
      BY <2>1, <2>3, <3>1
  <2> QED
    BY <2>2, <2>3
<1>3. e <= (n + 1) + w /\ (e = 0 => h = 0) /\ p >= 0
  BY DEF Kept
<1> QED
  BY <1>2, <1>3 DEF Kept

\* A restart forgives everybody once: what was counted joins what is earlier.
LEMMA ForgettingKeeps ==
    ASSUME NEW s \in Seq(Nat), NEW h \in Nat, NEW e, NEW n \in Nat, NEW w \in Nat,
           NEW b \in Nat, NEW m \in Nat, NEW p, p = Len(s) - Least(h, m),
           Kept(s, p, h, e, n, w, b)
    PROVE  Kept(s, Len(s), 0, 0, n, w, b + m)
<1>1. \A i \in 1..Len(s) : s[i] + w > n => Len(s) - i + 1 <= b + m
  BY RecentKept
<1>2. \A i \in 1..Len(s) : s[i] <= n
  BY DEF Kept
<1>3. Len(s) \in Nat /\ \A i \in 1..Len(s) : ~(i > Len(s))
  OBVIOUS
<1> QED
  BY <1>1, <1>2, <1>3 DEF Kept

LEMMA CountHitInv ==
    ASSUME LimiterTypeOK, LimiterInv, NEW L, NEW k \in Clients, CountHit(L, k)
    PROVE  LimiterInv'
<1> SUFFICES ASSUME NEW l \in Limiter, NEW c \in Clients
             PROVE  CounterOK(l, c)'
  BY DEF LimiterInv
<1>1. CounterOK(l, c)
  BY DEF LimiterInv
<1>2. CASE l \in L /\ c = k
  <2>1. CounterOK(l, k)
    BY <1>1, <1>2
  <2>2. /\ letIn[l][k] \in Seq(Nat) /\ now \in Nat /\ Window \in Nat /\ Window >= 1
        /\ Limit[l] \in Nat /\ hits[l][k] \in Nat /\ resetAt[l][k] \in Nat
        /\ Allowance(l) \in Nat /\ Limit[l] <= Allowance(l)
    BY LimiterFields, LimiterConstants, AllowanceFacts
  <2>3. UNCHANGED <<now, restarts>> /\ Allowance(l)' = Allowance(l)
    BY DEF CountHit, Allowance
  <2>4. CASE Expired(l, k)
    <3>1. /\ hits'[l][k] = 1 /\ resetAt'[l][k] = now + Window
          /\ letIn'[l][k] = IF 1 <= Limit[l] THEN Append(letIn[l][k], now) ELSE letIn[l][k]
      BY <1>2, <2>4, CountsOne DEF HitsAfter, LetsThrough
    <3>2. Earlier(l, k)' = Len(letIn[l][k])
      <4>1. Earlier(l, k)' = Len(letIn'[l][k]) - Least(1, Limit[l])
        BY <3>1, CounterKeptNext
      <4>2. CASE 1 <= Limit[l]
        BY <2>2, <3>1, <4>1, <4>2 DEF Least
      <4>3. CASE ~(1 <= Limit[l])
        BY <2>2, <3>1, <4>1, <4>3 DEF Least
      <4> QED
        BY <4>2, <4>3
    <3>3. Kept(letIn'[l][k], Len(letIn[l][k]), 1, now + Window, now, Window,
               Allowance(l))
      BY <2>1, <2>2, <2>4, <3>1, CounterKept, OpeningKeeps DEF Expired
    <3> QED
      BY <1>2, <2>3, <3>1, <3>2, <3>3, CounterKeptNext
  <2>5. CASE ~Expired(l, k)
    <3>1. /\ hits'[l][k] = hits[l][k] + 1 /\ resetAt'[l][k] = resetAt[l][k]
          /\ letIn'[l][k] = IF hits'[l][k] <= Limit[l]
                            THEN Append(letIn[l][k], now) ELSE letIn[l][k]
      BY <1>2, <2>5, CountsOne DEF HitsAfter, LetsThrough
    <3>2. resetAt[l][k] > now
      BY <2>2, <2>5 DEF Expired
    <3>3. /\ Kept(letIn[l][k], Earlier(l, k), hits[l][k], resetAt[l][k], now, Window,
                  Allowance(l))
          /\ Splits(Earlier(l, k), letIn[l][k], hits[l][k], Limit[l])
      BY <2>1, CounterKept DEF Splits
    <3>4. hits'[l][k] \in Nat /\ hits'[l][k] = hits[l][k] + 1
      BY <2>2, <3>1
    <3>5. /\ Kept(letIn'[l][k], Earlier(l, k), hits'[l][k], resetAt[l][k], now, Window,
                  Allowance(l))
          /\ Splits(Earlier(l, k), letIn'[l][k], hits'[l][k], Limit[l])
      <4>1. letIn'[l][k] = Logged(letIn[l][k], hits'[l][k], Limit[l], now)
        BY <3>1 DEF Logged
      <4>2. /\ Kept(Logged(letIn[l][k], hits'[l][k], Limit[l], now), Earlier(l, k),
                    hits'[l][k], resetAt[l][k], now, Window, Allowance(l))
            /\ Splits(Earlier(l, k), Logged(letIn[l][k], hits'[l][k], Limit[l], now),
                      hits'[l][k], Limit[l])
        BY <2>2, <3>2, <3>3, <3>4, CountingKeeps
      <4> QED
        BY <4>1, <4>2
    <3>6. Earlier(l, k)' = Earlier(l, k)
      BY <3>5, CounterKeptNext DEF Splits
    <3> QED
      BY <1>2, <2>3, <3>1, <3>5, <3>6, CounterKeptNext
  <2> QED
    BY <2>4, <2>5
<1>3. CASE l \notin L \/ c # k
  <2>1. /\ hits'[l][c] = hits[l][c] /\ resetAt'[l][c] = resetAt[l][c]
        /\ letIn'[l][c] = letIn[l][c]
    BY <1>3, CountsNoOther
  <2>2. now' = now /\ restarts' = restarts
    BY DEF CountHit
  <2> QED
    BY <1>1, <2>1, <2>2 DEF CounterOK, Earlier, Counted
<1> QED
  BY <1>2, <1>3

LEMMA ElapseInv ==
    ASSUME LimiterTypeOK, LimiterInv, Elapse
    PROVE  LimiterTypeOK' /\ LimiterInv'
<1>1. LimiterTypeOK'
  BY DEF LimiterTypeOK, Elapse
<1>2. ASSUME NEW l \in Limiter, NEW k \in Clients
      PROVE  CounterOK(l, k)'
  <2>1. /\ letIn[l][k] \in Seq(Nat) /\ now \in Nat /\ Window \in Nat
        /\ Limit[l] \in Nat /\ hits[l][k] \in Nat /\ resetAt[l][k] \in Nat
        /\ Allowance(l) \in Nat
    BY LimiterFields, LimiterConstants, AllowanceFacts
  <2>2. now' = now + 1 /\ UNCHANGED <<hits, resetAt, restarts, letIn>>
    BY DEF Elapse
  <2>3. Earlier(l, k)' = Earlier(l, k) /\ Allowance(l)' = Allowance(l)
    BY <2>2 DEF Earlier, Counted, Allowance
  <2>4. Earlier(l, k) \in Int
    <3>1. Least(hits[l][k], Limit[l]) \in Nat
      <4>1. hits[l][k] \in Nat /\ Limit[l] \in Nat
        BY <2>1
      <4> QED
        BY <4>1, LeastFacts
    <3>2. Len(letIn[l][k]) \in Nat
      BY <2>1
    <3> QED
      BY <3>1, <3>2, CounterKept
  <2>5. Kept(letIn[l][k], Earlier(l, k), hits[l][k], resetAt[l][k], now, Window,
             Allowance(l))
    BY CounterKept DEF LimiterInv
  <2>6. Kept(letIn[l][k], Earlier(l, k), hits[l][k], resetAt[l][k], now + 1, Window,
             Allowance(l))
    BY <2>1, <2>4, <2>5, WaitingKeeps
  <2> QED
    BY <2>2, <2>3, <2>6, CounterKeptNext
<1> QED
  BY <1>1, <1>2 DEF LimiterInv

LEMMA ForgetInv ==
    ASSUME LimiterTypeOK, LimiterInv, ForgetCounters
    PROVE  LimiterTypeOK' /\ LimiterInv'
<1>1. LimiterTypeOK'
  BY DEF LimiterTypeOK, ForgetCounters, Zero
<1>2. ASSUME NEW l \in Limiter, NEW k \in Clients
      PROVE  CounterOK(l, k)'
  <2>1. /\ letIn[l][k] \in Seq(Nat) /\ now \in Nat /\ Window \in Nat
        /\ Limit[l] \in Nat /\ hits[l][k] \in Nat /\ restarts \in Nat
        /\ Allowance(l) \in Nat
    BY LimiterFields, LimiterConstants, AllowanceFacts
  <2>2. /\ hits'[l][k] = 0 /\ resetAt'[l][k] = 0 /\ restarts' = restarts + 1
        /\ now' = now /\ letIn' = letIn
    BY DEF ForgetCounters, Zero
  <2>3. Allowance(l)' = Allowance(l) + Limit[l]
    <3>1. 1 + restarts' = 2 + restarts
      BY <2>1, <2>2
    <3>2. Allowance(l)' = (2 + restarts) * Limit[l]
      BY <3>1 DEF Allowance
    <3> QED
      BY <3>2, AllowanceFacts
  <2>4. Earlier(l, k)' = Len(letIn[l][k])
    BY <2>1, <2>2, CounterKeptNext DEF Least
  <2>5. Kept(letIn[l][k], Earlier(l, k), hits[l][k], resetAt[l][k], now, Window,
             Allowance(l))
    BY CounterKept DEF LimiterInv
  <2>6. Kept(letIn[l][k], Len(letIn[l][k]), 0, 0, now, Window,
             Allowance(l) + Limit[l])
    BY <2>1, <2>5, CounterKept, ForgettingKeeps
  <2> QED
    BY <2>2, <2>3, <2>4, <2>6, CounterKeptNext
<1> QED
  BY <1>1, <1>2 DEF LimiterInv

\* The positions m..n are n - m + 1.
LEMMA Bounded ==
    ASSUME NEW n \in Nat, NEW b \in Nat, NEW S \in SUBSET (1..n),
           \A i \in S : n - i + 1 <= b
    PROVE  Cardinality(S) <= b
<1> DEFINE m == IF b < n THEN n - b + 1 ELSE 1
<1>1. S \subseteq m..n /\ m \in Int /\ n \in Int
  OBVIOUS
<1>2. IsFiniteSet(m..n) /\ Cardinality(m..n) = IF m > n THEN 0 ELSE n - m + 1
  BY <1>1, FS_Interval
<1>3. Cardinality(m..n) <= b
  BY <1>2
<1>4. Cardinality(S) <= Cardinality(m..n) /\ IsFiniteSet(S)
  BY <1>1, <1>2, FS_Subset
<1>5. Cardinality(S) \in Nat /\ Cardinality(m..n) \in Nat
  BY <1>2, <1>4, FS_CardinalityType
<1> QED
  BY <1>3, <1>4, <1>5

\* What is recent is among the last (2 + restarts) * Limit.
LEMMA BurstHolds ==
    ASSUME LimiterTypeOK, LimiterInv
    PROVE  BurstBound
<1> SUFFICES ASSUME NEW l \in Limiter, NEW k \in Clients
             PROVE  Cardinality(Recent(l, k)) <= Allowance(l) + Limit[l]
  BY AllowanceFacts DEF BurstBound
<1>1. /\ letIn[l][k] \in Seq(Nat) /\ now \in Nat /\ Window \in Nat
      /\ Limit[l] \in Nat /\ hits[l][k] \in Nat /\ Allowance(l) \in Nat
  BY LimiterFields, LimiterConstants, AllowanceFacts
<1>2. /\ Kept(letIn[l][k], Earlier(l, k), hits[l][k], resetAt[l][k], now, Window, Allowance(l))
      /\ Earlier(l, k) = Len(letIn[l][k]) - Least(hits[l][k], Limit[l])
  BY CounterKept DEF LimiterInv
<1>3. \A i \in 1..Len(letIn[l][k]) : letIn[l][k][i] + Window > now =>
        Len(letIn[l][k]) - i + 1 <= Allowance(l) + Limit[l]
  BY <1>1, <1>2, RecentKept
<1>4. ASSUME NEW i \in 1..Len(letIn[l][k])
      PROVE  letIn[l][k][i] > now - Window <=> letIn[l][k][i] + Window > now
  <2>1. letIn[l][k][i] \in Nat
    BY <1>1, SMTT(30)
  <2> QED
    BY <1>1, <2>1, SMTT(30)
<1>5. Len(letIn[l][k]) \in Nat /\ DOMAIN letIn[l][k] = 1..Len(letIn[l][k])
  BY <1>1
<1>6. /\ Recent(l, k) \in SUBSET (1..Len(letIn[l][k]))
      /\ \A i \in Recent(l, k) : Len(letIn[l][k]) - i + 1 <= Allowance(l) + Limit[l]
  BY <1>3, <1>4, <1>5 DEF Recent
<1>7. Allowance(l) + Limit[l] \in Nat
  BY <1>1
<1> QED
  BY <1>5, <1>6, <1>7, Bounded

\* A limiter that refuses a client has counted Limit of its requests in the window
\* that is open, and has let those through.
LEMMA RefusedFull ==
    ASSUME LimiterTypeOK, NEW l \in Limiter, NEW k \in Clients, CounterOK(l, k),
           ~LetsThrough(l, k)
    PROVE  Cardinality(Recent(l, k)) >= Limit[l]
<1> DEFINE n == Len(letIn[l][k])
<1>1. /\ letIn[l][k] \in Seq(Nat) /\ now \in Nat /\ Window \in Nat /\ n \in Nat
      /\ Limit[l] \in Nat /\ hits[l][k] \in Nat /\ resetAt[l][k] \in Nat
      /\ DOMAIN letIn[l][k] = 1..n
  BY LimiterFields, LimiterConstants
<1>2. IsFiniteSet(1..n) /\ Recent(l, k) \subseteq 1..n
  <2>1. Recent(l, k) \subseteq 1..n
    BY <1>1 DEF Recent
  <2>2. 1 \in Int /\ n \in Int
    BY <1>1
  <2> QED
    BY <2>1, <2>2, FS_Interval
<1>3. IsFiniteSet(Recent(l, k)) /\ Cardinality(Recent(l, k)) \in Nat
  BY <1>2, FS_Subset, FS_CardinalityType
<1>4. CASE Limit[l] = 0
  BY <1>3, <1>4
<1>5. CASE Limit[l] # 0
  <2>1. ~Expired(l, k) /\ hits[l][k] >= Limit[l] /\ resetAt[l][k] > now
    BY <1>1, <1>5 DEF LetsThrough, HitsAfter, Expired
  <2>2. Least(hits[l][k], Limit[l]) = Limit[l]
    BY <1>1, <2>1 DEF Least
  <2>3. Earlier(l, k) = n - Limit[l]
    BY <2>2, CounterKept
  <2>4. Earlier(l, k) >= 0
    BY DEF CounterOK
  <2> DEFINE m == n - Limit[l] + 1
  <2> HIDE DEF n
  <2>5. m \in Nat /\ m >= 1 /\ m..n \subseteq 1..n /\ \A i \in m..n : i > n - Limit[l]
    BY <1>1, <2>3, <2>4
  <2>6. ASSUME NEW i \in m..n
        PROVE  i \in Recent(l, k)
    <3>1. i \in 1..n /\ i > Earlier(l, k)
      BY <2>3, <2>5
    <3>2. letIn[l][k][i] \in Nat
      BY <1>1, <3>1, SMTT(30)
    <3>3. letIn[l][k][i] + Window >= resetAt[l][k]
      BY <3>1 DEF CounterOK, n
    <3> DEFINE t == letIn[l][k][i]
               z == resetAt[l][k]
    <3>4. t \in Nat /\ z \in Nat /\ t + Window >= z /\ z > now
      BY <1>1, <2>1, <3>2, <3>3
    <3> HIDE DEF t, z
    <3>5. t > now - Window
      BY <1>1, <3>4
    <3> QED
      BY <1>1, <3>1, <3>5 DEF Recent, t
  <2>7. Cardinality(m..n) = Limit[l] /\ m..n \subseteq Recent(l, k)
    <3>1. ~(m > n) /\ n - m + 1 = Limit[l] /\ m \in Int /\ n \in Int
      BY <1>1, <1>5
    <3> HIDE DEF m
    <3> QED
      BY <2>6, <3>1, FS_Interval
  <2>8. Cardinality(m..n) <= Cardinality(Recent(l, k))
    BY <1>3, <2>7, FS_Subset
  <2> QED
    BY <1>1, <1>3, <2>7, <2>8
<1> QED
  BY <1>4, <1>5

------------------------------------------------------------------------------
(* The gates.                                                              *)

Gates == Awaiting \union Limiter
           \union {"cors", "validate", "role", "notFound", "preflight", "alive"}

LEMMA MountedFacts ==
    ASSUME NEW route
    PROVE  /\ Mounted(route) \in Seq(Gates) /\ Len(Mounted(route)) \in 1..4
           /\ route \in Protected => Mounted(route)[1] = "jwt"
<1>1. {"register", "validate", "handler", "login", "local", "jwt", "role", "notFound", "alive",
       "static"} \subseteq Gates
  BY DEF Gates, Awaiting, Limiter
<1>2. CASE route = "register" \/ route = "refresh"
  BY <1>1, <1>2 DEF Mounted, Protected
<1>3. CASE route = "login"
  BY <1>1, <1>3 DEF Mounted, Protected
<1>4. CASE route \in {"logout", "profile"}
  BY <1>1, <1>4 DEF Mounted, Protected
<1>5. CASE route \in {"createUser", "listUsers"}
  BY <1>1, <1>5 DEF Mounted, Protected
<1>6. CASE route \in {"getUser", "updateUser", "deleteUser"}
  BY <1>1, <1>6 DEF Mounted, Protected
<1>7. CASE route = "unknownUsers"
  BY <1>1, <1>7 DEF Mounted, Protected
<1>8. CASE route = "health" \/ route = "file"
  BY <1>1, <1>8 DEF Mounted, Protected
<1>9. CASE route \notin {"register", "refresh", "login", "logout", "profile", "createUser",
                        "listUsers", "getUser", "updateUser", "deleteUser", "unknownUsers",
                        "health", "file"}
  <2>1. Mounted(route) = <<"notFound">>
    BY <1>9 DEF Mounted
  <2> QED
    BY <1>1, <1>9, <2>1 DEF Protected
<1> QED
  BY <1>2, <1>3, <1>4, <1>5, <1>6, <1>7, <1>8, <1>9

\* Seven gates at most, and before every protected route the four that may
\* answer a client without a session.
LEMMA ChainFacts ==
    ASSUME NEW route
    PROVE  /\ Len(Chain(route)) \in 1..7
           /\ \A j \in 1..Len(Chain(route)) : Chain(route)[j] \in Gates
           /\ route \in Protected =>
                /\ Chain(route)[1] = "cors" /\ Chain(route)[2] = "body"
                /\ Chain(route)[3] = "api" /\ Chain(route)[4] = "jwt"
<1>1. CASE route = "preflight"
  <2>1. Chain(route) = <<"cors", "preflight">>
    BY <1>1 DEF Chain
  <2> QED
    BY <1>1, <2>1 DEF Gates, Protected
<1>2. CASE route # "preflight"
  <2> DEFINE m == Mounted(route)
  <2>1. m \in Seq(Gates) /\ Len(m) \in 1..4 /\ (route \in Protected => m[1] = "jwt")
    BY MountedFacts
  <2>2. Chain(route) = Common \o m
    BY <1>2 DEF Chain
  <2> HIDE DEF m
  <2>3. /\ Common \in Seq(Gates) /\ Len(Common) = 3
        /\ Common[1] = "cors" /\ Common[2] = "body" /\ Common[3] = "api"
    BY DEF Common, Gates, Awaiting, Limiter
  <2> HIDE DEF Common
  <2>4. /\ Chain(route) \in Seq(Gates) /\ Len(Chain(route)) = 3 + Len(m)
        /\ \A j \in 1..3 : Chain(route)[j] = Common[j]
        /\ Chain(route)[4] = m[1]
    <3>1. m \in Seq(Gates) /\ Common \in Seq(Gates) /\ Len(m) \in Nat /\ Len(m) >= 1
      <4>1. \A n \in 1..4 : n \in Nat /\ n >= 1
        OBVIOUS
      <4>2. Len(m) \in 1..4
        BY <2>1, Zenon
      <4> QED
        BY <2>1, <2>3, <4>1, <4>2, Zenon
    <3>2. /\ Common \o m \in Seq(Gates) /\ Len(Common \o m) = 3 + Len(m)
          /\ \A j \in 1..(3 + Len(m)) :
               (Common \o m)[j] = IF j <= 3 THEN Common[j] ELSE m[j - 3]
      <4>1. /\ Common \o m \in Seq(Gates) /\ Len(Common \o m) = Len(Common) + Len(m)
            /\ \A j \in 1..(Len(Common) + Len(m)) :
                 (Common \o m)[j] = IF j <= Len(Common) THEN Common[j] ELSE m[j - Len(Common)]
        BY <3>1, ConcatProperties, Zenon
      <4>2. Len(Common) = 3
        BY <2>3
      <4> QED
        BY <4>1, <4>2, Zenon
    <3>3. \A j \in 1..4 : j \in 1..(3 + Len(m))
      BY <3>1
    <3>4. m[4 - 3] = m[1]
      OBVIOUS
    <3> QED
      BY <2>2, <3>2, <3>3, <3>4
  <2> DEFINE n == Len(m)
  <2>5. Len(Chain(route)) \in 1..7
    <3>1. n \in 1..4 /\ Len(Chain(route)) = 3 + n
      BY <2>1, <2>4
    <3> HIDE DEF n
    <3> QED
      BY <3>1
  <2>6. \A j \in 1..Len(Chain(route)) : Chain(route)[j] \in Gates
    BY <2>4
  <2> QED
    BY <2>1, <2>3, <2>4, <2>5, <2>6
<1> QED
  BY <1>1, <1>2

Requests == [route : Route \union {"none"}, client : SUBSET Clients, pos : 0..7,
             authenticated : BOOLEAN]

Statuses == {200, 204, 400, 401, 403, 404, 409, 429, 500}

LEMMA IdleRequest == Idle \in Requests /\ GateOK(Idle)
BY DEF Idle, Requests, GateOK, Protected

LEMMA DecidesStatus ==
    ASSUME NEW gate \in Gates, gate \notin Awaiting
    PROVE  Decides(gate) \in Statuses
<1>1. gate \in Limiter \union {"cors", "validate", "role", "notFound", "preflight", "alive"}
  BY DEF Gates
<1> QED
  BY <1>1 DEF Decides, Statuses, Limiter

LEMMA HandlerStatus ==
    ASSUME NEW route, NEW status \in HandlerErrors(route)
    PROVE  status \in Statuses
BY DEF HandlerErrors, Statuses

\* A request that nobody has authenticated waits at one of the first four gates
\* of a protected route.
LEMMA UnauthenticatedGate ==
    ASSUME NEW r \in Req, Pending(r), TypeOK, GateOK(req[r]), req[r].route \in Protected,
           ~req[r].authenticated
    PROVE  /\ Gate(r) \in {"cors", "body", "api", "jwt"}
           /\ Gate(r) = "body" => req[r].pos = 2
<1>1. req[r].pos \in {1, 2, 3, 4}
  BY DEF GateOK, Pending, TypeOK
<1>2. Gate(r) = Chain(req[r].route)[req[r].pos]
  BY DEF Gate
<1> QED
  BY <1>1, <1>2, ChainFacts

------------------------------------------------------------------------------
(* What a run through gates does.                                          *)

PInv == TypeOK /\ PipelineInv /\ RefusalIsEarned /\ SessionComesFirst

LEMMA RunKeeps ==
    ASSUME PInv, NEW r \in Req, NEW q \in Requests, \A j, k \in q.client : j = k,
           NEW i \in Nat, i >= 1, q.route \in Protected /\ ~q.authenticated => i <= 4,
           Run(r, q, i), arrived' \in 0..MaxRequests
    PROVE  PInv'
<1> DEFINE chain == Chain(q.route)
<1>1. PICK j \in i..Len(chain), k \in q.client :
        LET gate == chain[j]
            passed == {chain[n] : n \in i..(j - 1)}
        IN  /\ passed \intersect (Awaiting \union {"notFound", "preflight", "alive"}) = {}
            /\ CountHit(Limiter \intersect (passed \union {gate}), k)
            /\ IF gate \in Awaiting
               THEN req' = [req EXCEPT ![r] = [q EXCEPT !.pos = j]] /\ sent' = {}
               ELSE /\ gate \in Limiter => ~LetsThrough(gate, k)
                    /\ req' = [req EXCEPT ![r] = Idle]
                    /\ sent' = Answer(q, gate, Decides(gate), gate \in Throws)
  BY DEF Run
<1> DEFINE gate == chain[j]
           passed == {chain[n] : n \in i..(j - 1)}
           L == Limiter \intersect (passed \union {gate})
<1>2. j \in 1..7 /\ j >= i /\ gate \in Gates /\ k \in Clients
  <2>1. Len(chain) \in 1..7 /\ \A n \in 1..Len(chain) : chain[n] \in Gates
    BY ChainFacts
  <2> HIDE DEF chain
  <2>2. j \in 1..Len(chain) /\ j >= i
    BY <2>1
  <2> QED
    BY <2>1, <2>2, SMTT(30) DEF Requests
<1>3. CountHit(L, k)
  BY <1>1
<1>4. q.route \in Protected /\ ~q.authenticated =>
        j <= 4 /\ gate \in {"cors", "body", "api", "jwt"}
  <2> SUFFICES ASSUME q.route \in Protected, ~q.authenticated
               PROVE  j <= 4 /\ gate \in {"cors", "body", "api", "jwt"}
    OBVIOUS
  <2>1. /\ chain[1] = "cors" /\ chain[2] = "body" /\ chain[3] = "api" /\ chain[4] = "jwt"
    BY ChainFacts
  <2>2. "jwt" \notin passed
    BY <1>1 DEF Awaiting
  <2>3. ~(4 \in i..(j - 1))
    BY <2>1, <2>2
  <2>4. j \in 1..4
    BY <1>2, <2>3
  <2> HIDE DEF chain
  <2> QED
    BY <2>1, <2>4
<1>5. LimiterTypeOK' /\ LimiterInv'
  BY <1>2, <1>3, CountHitType, CountHitInv DEF PInv, TypeOK, PipelineInv
<1>6. CASE gate \in Awaiting
  <2>1. req' = [req EXCEPT ![r] = [q EXCEPT !.pos = j]] /\ sent' = {}
    BY <1>1, <1>6
  <2> DEFINE moved == [q EXCEPT !.pos = j]
  <2> HIDE DEF gate, passed, L, chain
  <2>2. moved \in Requests /\ GateOK(moved)
    BY <1>2, <1>4 DEF Requests, GateOK
  <2> HIDE DEF moved
  <2>3. req' \in [Req -> Requests] /\ \A x \in Req : GateOK(req'[x])
    BY <2>1, <2>2 DEF moved, PInv, TypeOK, Requests, PipelineInv
  <2>4. TypeOK'
    BY <1>5, <2>1, <2>3 DEF TypeOK, Requests
  <2>5. RefusalIsEarned' /\ SessionComesFirst'
    BY <2>1 DEF RefusalIsEarned, SessionComesFirst
  <2>6. PipelineInv'
    BY <1>5, <2>3 DEF PipelineInv
  <2> QED
    BY <2>4, <2>5, <2>6 DEF PInv
<1>7. CASE gate \notin Awaiting
  <2>1. /\ req' = [req EXCEPT ![r] = Idle]
        /\ sent' = Answer(q, gate, Decides(gate), gate \in Throws)
        /\ gate \in Limiter => ~LetsThrough(gate, k)
    BY <1>1, <1>7
  <2>2. gate \in L <=> gate \in Limiter
    OBVIOUS
  <2> HIDE DEF gate, passed, L, chain
  <2>3. req' \in [Req -> Requests] /\ \A x \in Req : GateOK(req'[x])
    BY <2>1, IdleRequest DEF PInv, TypeOK, Requests, PipelineInv
  <2>4. \A a \in sent' : /\ a.status \in Statuses /\ a.by = gate /\ a.client = q.client
                         /\ a.route = q.route /\ a.authenticated = q.authenticated
    BY <1>2, <1>7, <2>1, DecidesStatus DEF Answer
  <2>5. TypeOK'
    BY <1>5, <2>3, <2>4 DEF TypeOK, Requests, Statuses
  <2>6. PipelineInv'
    BY <1>5, <2>3 DEF PipelineInv
  <2>7. SessionComesFirst'
    BY <1>4, <2>4 DEF SessionComesFirst
  <2>8. ASSUME gate \in Limiter
        PROVE  Cardinality(Recent(gate, k))' >= Limit[gate]
    <3>1. LimiterTypeOK /\ CounterOK(gate, k)
      BY <1>2, <2>8 DEF PInv, TypeOK, PipelineInv, LimiterInv
    <3>2. Cardinality(Recent(gate, k)) >= Limit[gate]
      BY <1>2, <2>1, <2>8, <3>1, RefusedFull
    <3>3. letIn'[gate][k] = letIn[gate][k] /\ now' = now
      BY <1>2, <1>3, <2>1, <2>2, <2>8, <3>1, CountsOne DEF CountHit
    <3> QED
      BY <3>2, <3>3 DEF Recent
  <2>9. RefusalIsEarned'
    BY <2>4, <2>8 DEF RefusalIsEarned
  <2> QED
    BY <2>5, <2>6, <2>7, <2>9 DEF PInv
<1> QED
  BY <1>6, <1>7

\* The gates that wait answer for themselves: none of them is a limiter.
LEMMA AnswerKeeps ==
    ASSUME PInv, NEW r \in Req, NEW status \in Statuses, NEW contract,
           Gate(r) \in Awaiting, AnswerHere(r, status, contract), UNCHANGED arrived
    PROVE  PInv'
<1>1. /\ req' = [req EXCEPT ![r] = Idle]
      /\ UNCHANGED <<now, hits, resetAt, restarts, letIn>>
  BY DEF AnswerHere
<1>2. \A a \in sent' : /\ a.status = status /\ a.by = Gate(r)
                       /\ a.route = req[r].route /\ a.authenticated = req[r].authenticated
  BY DEF AnswerHere, Answer
<1>3. req' \in [Req -> Requests] /\ \A x \in Req : GateOK(req'[x])
  BY <1>1, IdleRequest DEF PInv, TypeOK, Requests, PipelineInv
<1>4. TypeOK'
  BY <1>1, <1>2, <1>3 DEF PInv, TypeOK, LimiterTypeOK, Requests, Statuses
<1>5. PipelineInv'
  BY <1>1, <1>3 DEF PInv, PipelineInv, LimiterInv, CounterOK, Earlier, Counted
<1>6. RefusalIsEarned'
  BY <1>2 DEF RefusalIsEarned, Awaiting, Limiter
<1>7. SessionComesFirst'
  <2>1. Pending(r)
    BY DEF Gate, Awaiting
  <2> QED
    BY <1>2, <2>1, UnauthenticatedGate DEF SessionComesFirst, PInv, PipelineInv
<1> QED
  BY <1>4, <1>5, <1>6, <1>7 DEF PInv

LEMMA ResumeKeeps ==
    ASSUME PInv, NEW r \in Req, NEW q \in Requests, Resume(r, q), UNCHANGED arrived,
           q.client = req[r].client, q.pos = req[r].pos,
           q.route \in Protected /\ ~q.authenticated => q.pos <= 3
    PROVE  PInv'
<1>1. \A j, k \in q.client : j = k
  BY DEF PInv, PipelineInv, GateOK
<1>2. q.pos + 1 \in Nat /\ q.pos + 1 >= 1 /\ (q.pos <= 3 => q.pos + 1 <= 4)
  BY DEF Requests
<1>3. arrived' \in 0..MaxRequests
  BY DEF PInv, TypeOK
<1> QED
  BY <1>1, <1>2, <1>3, RunKeeps DEF Resume

------------------------------------------------------------------------------
(* The steps.                                                              *)

LEMMA ArriveKeeps ==
    ASSUME PInv, NEW r \in Req, Arrive(r)
    PROVE  PInv'
<1>1. PICK k \in Clients : \E route \in Calls[k] :
        Run(r, [Idle EXCEPT !.route = route, !.client = {k}], 1)
  BY DEF Arrive
<1>2. PICK route \in Calls[k] : Run(r, [Idle EXCEPT !.route = route, !.client = {k}], 1)
  BY <1>1
<1>3. route \in Route
  BY PipelineAssumption DEF PipelineAssumption
<1> DEFINE q == [Idle EXCEPT !.route = route, !.client = {k}]
<1>4. q \in Requests /\ \A x, y \in q.client : x = y
  <2>1. Idle \in Requests
    BY IdleRequest
  <2>2. route \in Route \union {"none"} /\ {k} \in SUBSET Clients
    BY <1>3
  <2>3. q \in Requests /\ q.client = {k}
    BY <2>1, <2>2 DEF Requests
  <2> HIDE DEF q
  <2> QED
    BY <2>3
<1>5. arrived' \in 0..MaxRequests
  BY PipelineAssumption DEF PipelineAssumption, Arrive, PInv, TypeOK
<1> HIDE DEF q
<1>6. Run(r, q, 1)
  BY <1>2 DEF q
<1> QED
  BY <1>4, <1>5, <1>6, RunKeeps

LEMMA StepKeeps ==
    ASSUME PInv, NEW r \in Req, Step(r)
    PROVE  PInv'
<1>1. /\ req[r] \in Requests /\ GateOK(req[r]) /\ TypeOK
      /\ 200 \in Statuses /\ 401 \in Statuses /\ 500 \in Statuses
  BY DEF PInv, TypeOK, Requests, PipelineInv, Statuses
<1>2. Gate(r) \in Awaiting => Pending(r)
  BY DEF Gate, Awaiting
<1>3. ASSUME Gate(r) \in Awaiting, UNCHANGED arrived
      PROVE  /\ AnswerHere(r, 500, TRUE) => PInv'
             /\ AnswerHere(r, 401, FALSE) => PInv'
             /\ AnswerHere(r, 200, FALSE) => PInv'
  BY <1>1, <1>3, AnswerKeeps, ZenonT(60)
<1>4. CASE ParseBody(r)
  <2>1. Gate(r) = "body"
    BY <1>4 DEF ParseBody
  <2>2. req[r].route \in Protected /\ ~req[r].authenticated => req[r].pos <= 3
    BY <1>1, <1>2, <2>1, UnauthenticatedGate DEF Awaiting
  <2>3. CASE Resume(r, req[r])
    BY <1>1, <1>4, <2>2, <2>3, ResumeKeeps DEF ParseBody
  <2> QED
    BY <1>3, <1>4, <2>1, <2>3 DEF ParseBody, Awaiting
<1>5. CASE ServeFile(r)
  <2>1. Gate(r) = "static"
    BY <1>5 DEF ServeFile
  <2>2. req[r].route \in Protected => req[r].authenticated
    BY <1>1, <1>2, <2>1, UnauthenticatedGate DEF Awaiting
  <2>3. CASE Resume(r, req[r])
    BY <1>1, <1>5, <2>2, <2>3, ResumeKeeps DEF ServeFile
  <2> QED
    BY <1>3, <1>5, <2>1, <2>3 DEF ServeFile, Awaiting
<1>6. CASE Authenticate(r)
  <2>1. Gate(r) \in Awaiting
    BY <1>6 DEF Authenticate, Awaiting
  <2>2. CASE Resume(r, [req[r] EXCEPT !.authenticated = TRUE])
    <3> DEFINE q == [req[r] EXCEPT !.authenticated = TRUE]
    <3>1. q \in Requests /\ q.authenticated /\ q.client = req[r].client /\ q.pos = req[r].pos
      BY <1>1 DEF Requests
    <3> HIDE DEF q
    <3>2. Resume(r, q)
      BY <2>2 DEF q
    <3> QED
      BY <1>6, <3>1, <3>2, ResumeKeeps DEF Authenticate
  <2> QED
    BY <1>3, <1>6, <2>1, <2>2 DEF Authenticate
<1>7. CASE Handle(r)
  <2>1. Gate(r) \in Awaiting /\ UNCHANGED arrived
    BY <1>7 DEF Handle, Awaiting
  <2>2. CASE AnswerHere(r, 200, FALSE)
    BY <1>3, <2>1, <2>2
  <2>3. CASE \E status \in HandlerErrors(req[r].route) : AnswerHere(r, status, TRUE)
    <3>1. PICK status \in HandlerErrors(req[r].route) : AnswerHere(r, status, TRUE)
      BY <2>3
    <3>2. status \in Statuses
      BY HandlerStatus
    <3> QED
      BY <2>1, <3>1, <3>2, AnswerKeeps
  <2> QED
    BY <1>7, <2>2, <2>3 DEF Handle
<1> QED
  BY <1>4, <1>5, <1>6, <1>7 DEF Step

LEMMA RestOfSystem ==
    ASSUME PInv, Tick \/ Restart \/ UNCHANGED vars
    PROVE  PInv'
<1>1. CASE Tick
  <2>1. LimiterTypeOK' /\ LimiterInv'
    BY <1>1, ElapseInv DEF Tick, PInv, TypeOK, PipelineInv
  <2> QED
    BY <1>1, <2>1
       DEF Tick, PInv, TypeOK, PipelineInv, GateOK, RefusalIsEarned, SessionComesFirst
<1>2. CASE Restart
  <2>1. LimiterTypeOK' /\ LimiterInv'
    BY <1>2, ForgetInv DEF Restart, PInv, TypeOK, PipelineInv
  <2>2. /\ req' \in [Req -> Requests] /\ \A x \in Req : GateOK(req'[x])
        /\ sent' = {} /\ UNCHANGED arrived
    BY <1>2, IdleRequest DEF Restart
  <2>3. TypeOK'
    BY <2>1, <2>2 DEF PInv, TypeOK, Requests
  <2> QED
    BY <2>1, <2>2, <2>3 DEF PInv, PipelineInv, RefusalIsEarned, SessionComesFirst
<1>3. CASE UNCHANGED vars
  <2>1. TypeOK' /\ SessionComesFirst'
    BY <1>3 DEF vars, PInv, TypeOK, LimiterTypeOK, SessionComesFirst
  <2>2. UNCHANGED <<now, hits, resetAt, restarts, letIn, req, sent>>
    BY <1>3 DEF vars
  <2>3. PipelineInv'
    BY <2>2 DEF PInv, PipelineInv, LimiterInv, CounterOK, Earlier, Counted, GateOK
  <2>4. \A l, k : Recent(l, k)' = Recent(l, k)
    BY <2>2 DEF Recent
  <2>5. RefusalIsEarned'
    BY <2>2, <2>4 DEF PInv, RefusalIsEarned
  <2> QED
    BY <2>1, <2>3, <2>5 DEF PInv
<1> QED
  BY <1>1, <1>2, <1>3

LEMMA InitKeeps ==
    ASSUME Init
    PROVE  PInv
<1>1. LimiterTypeOK /\ \A l \in Limiter, k \in Clients :
        letIn[l][k] = <<>> /\ hits[l][k] = 0 /\ resetAt[l][k] = 0 /\ now = 0
  BY DEF Init, LimiterInit, LimiterTypeOK, Zero
<1>2. LimiterInv
  BY <1>1, LimiterConstants DEF LimiterInv, CounterOK, Earlier, Counted
<1>3. TypeOK
  BY <1>1, IdleRequest, PipelineAssumption
     DEF Init, TypeOK, Requests, PipelineAssumption
<1>4. PipelineInv
  BY <1>2, IdleRequest DEF Init, PipelineInv
<1> QED
  BY <1>3, <1>4 DEF PInv, Init, RefusalIsEarned, SessionComesFirst

------------------------------------------------------------------------------
(* The theorems.                                                           *)

LEMMA Reachable == Spec => []PInv
<1>1. PInv /\ [Next]_vars => PInv'
  BY ArriveKeeps, StepKeeps, RestOfSystem DEF Next
<1> QED
  BY <1>1, InitKeeps, PTL DEF Spec

\* Every variable has its type in every reachable state, and every status sent is
\* one the API documents (the types of RequestPipeline and RateLimiter).
THEOREM PipelineTypeCorrect == Spec => []TypeOK
<1>1. PInv => TypeOK
  BY DEF PInv
<1> QED
  BY <1>1, Reachable, PTL

\* What the counters know of the requests they let through, and where a request
\* waits, is inductive (LimiterInv and GateOK).
THEOREM PipelineInvariant == Spec => []PipelineInv
<1>1. PInv => PipelineInv
  BY DEF PInv
<1> QED
  BY <1>1, Reachable, PTL

\* A client is refused by a limiter only after that limiter has let its whole
\* allowance through in the last window (the limiters of security.middleware).
THEOREM RefusalsEarned == Spec => []RefusalIsEarned
<1>1. PInv => RefusalIsEarned
  BY DEF PInv
<1> QED
  BY <1>1, Reachable, PTL

\* On a protected route nothing but an origin, a body or a limit is answered for
\* before the session is (the order in which the routers mount their middlewares).
THEOREM SessionFirst == Spec => []SessionComesFirst
<1>1. PInv => SessionComesFirst
  BY DEF PInv
<1> QED
  BY <1>1, Reachable, PTL

\* A limiter lets no client through more than twice the limit in any window, and
\* once more for every restart (the fixed windows of express-rate-limit).
THEOREM BurstIsBounded == Spec => []BurstBound
<1>1. PInv => BurstBound
  BY BurstHolds DEF PInv, TypeOK, PipelineInv
<1> QED
  BY <1>1, Reachable, PTL

=============================================================================
