---------------------------- MODULE StableProofs ----------------------------
(***************************************************************************)
(* Proofs about the stable balance and its splice, for any bounds, prices  *)
(* and faults: what LDK holds of a keysend is remembered, what LDK forgets *)
(* of a payment is kept, nothing is counted twice, and a signed splice is  *)
(* stored and keeps its coin.  Four inductive invariants: FlightInv        *)
(* follows a keysend from its first save to the provider's answer; on top  *)
(* of it AckInv follows a payment of the provider from LDK's queue to the  *)
(* inbox and out of it, OnceInv what each state remembers of the effects   *)
(* it has had, and SignInv a splice from its first save to its             *)
(* confirmation.                                                           *)
(***************************************************************************)
EXTENDS SpliceController, WellFoundedInduction, TLAPS

-----------------------------------------------------------------------------
(* Sequences, whatever they hold.                                          *)

IsSeq(q) == \E E : q \in Seq(E)
Elements(q) == {q[i] : i \in 1 .. Len(q)}

LEMMA EmptySeq == IsSeq(<<>>) /\ Elements(<<>>) = {}
<1>1. <<>> \in Seq({})
  OBVIOUS
<1> QED
  BY <1>1 DEF IsSeq, Elements

LEMMA Appended ==
  ASSUME NEW q, IsSeq(q), NEW e
  PROVE  /\ IsSeq(Append(q, e)) /\ Elements(Append(q, e)) = Elements(q) \cup {e}
         /\ Append(q, e) # <<>> /\ (q # <<>> => Append(q, e)[1] = q[1])
<1>1. PICK E : q \in Seq(E)
  BY DEF IsSeq
<1>2. q \in Seq(E \cup {e}) /\ e \in E \cup {e}
  BY <1>1
<1>3. Append(q, e) \in Seq(E \cup {e})
  BY <1>2
<1>4. Len(Append(q, e)) = Len(q) + 1 /\ Len(q) \in Nat
      /\ Append(q, e)[Len(q) + 1] = e
      /\ \A i \in 1 .. Len(q) : Append(q, e)[i] = q[i]
  BY <1>2
<1>5. Elements(Append(q, e)) = Elements(q) \cup {e}
  BY <1>4 DEF Elements
<1>6. Append(q, e) # <<>>
  BY <1>4
<1>7. q # <<>> => Len(q) >= 1
  BY <1>1
<1> QED
  BY <1>3, <1>4, <1>5, <1>6, <1>7 DEF IsSeq

LEMMA Tailed ==
  ASSUME NEW q, IsSeq(q), q # <<>>
  PROVE  IsSeq(Tail(q)) /\ Elements(Tail(q)) \subseteq Elements(q) /\ q[1] \in Elements(q)
<1>1. PICK E : q \in Seq(E)
  BY DEF IsSeq
<1>2. Tail(q) \in Seq(E) /\ Len(q) \in Nat /\ Len(q) >= 1 /\ Len(Tail(q)) = Len(q) - 1
      /\ \A i \in 1 .. Len(q) - 1 : Tail(q)[i] = q[i + 1]
  BY <1>1
<1>3. ASSUME NEW i \in 1 .. Len(q) - 1
      PROVE  Tail(q)[i] \in Elements(q)
  BY <1>2, i + 1 \in 1 .. Len(q) DEF Elements
<1> QED
  BY <1>2, <1>3 DEF IsSeq, Elements

LEMMA Joined ==
  ASSUME NEW p, NEW q, IsSeq(p), IsSeq(q)
  PROVE  IsSeq(p \o q) /\ Elements(p \o q) = Elements(p) \cup Elements(q)
<1>1. PICK E, F : p \in Seq(E) /\ q \in Seq(F)
  BY DEF IsSeq
<1>2. p \in Seq(E \cup F) /\ q \in Seq(E \cup F)
  BY <1>1
<1>3. /\ p \o q \in Seq(E \cup F) /\ Len(p) \in Nat /\ Len(q) \in Nat
      /\ Len(p \o q) = Len(p) + Len(q)
      /\ \A i \in 1 .. Len(p) : (p \o q)[i] = p[i]
      /\ \A i \in 1 .. Len(q) : (p \o q)[Len(p) + i] = q[i]
  BY <1>2
<1>4. ASSUME NEW i \in 1 .. Len(p \o q)
      PROVE  (p \o q)[i] \in Elements(p) \cup Elements(q)
  <2>1. CASE i <= Len(p)
    BY <1>3, <2>1, i \in 1 .. Len(p) DEF Elements
  <2>2. CASE ~(i <= Len(p))
    <3>1. i - Len(p) \in 1 .. Len(q) /\ Len(p) + (i - Len(p)) = i
      BY <1>3, <2>2
    <3> QED
      BY <1>3, <3>1 DEF Elements
  <2> QED
    BY <2>1, <2>2
<1>5. ASSUME NEW i \in 1 .. Len(p)
      PROVE  p[i] \in Elements(p \o q)
  BY <1>3, i \in 1 .. Len(p \o q) DEF Elements
<1>6. ASSUME NEW i \in 1 .. Len(q)
      PROVE  q[i] \in Elements(p \o q)
  BY <1>3, Len(p) + i \in 1 .. Len(p \o q) DEF Elements
<1> QED
  BY <1>3, <1>4, <1>5, <1>6 DEF IsSeq, Elements

Less == {pair \in Nat \X Nat : pair[1] < pair[2]}

\* A set of naturals has a least one.
LEMMA Least ==
  ASSUME NEW T, T \subseteq Nat, T # {}
  PROVE  \E i \in T : \A j \in T : i <= j
<1>1. IsWellFoundedOn(Less, Nat)
  BY NatLessThanWellFounded DEF OpToRel, Less
<1>2. PICK i \in T : \A j \in T : <<j, i>> \notin Less
  BY <1>1, WFMin
<1>3. ASSUME NEW j \in T
      PROVE  i <= j
  <2>1. i \in Nat /\ j \in Nat /\ <<j, i>> \notin Less
    BY <1>2
  <2>2. ~(j < i)
    BY <2>1 DEF Less
  <2> QED
    BY <2>1, <2>2
<1> QED
  BY <1>3

\* The recursion of the filter, and what it keeps.
KeptStep(q, pid, n, before) ==
  IF n = 0 THEN <<>>
  ELSE IF q[n].pid # pid THEN Append(before[n - 1], q[n]) ELSE before[n - 1]

LEMMA FilterExists ==
  ASSUME NEW q, NEW pid, NEW size \in Nat
  PROVE  \E f : f = [n \in 0 .. size |-> KeptStep(q, pid, n, f)]
<1> DEFINE Fails == {k \in Nat : ~\E f : f = [n \in 0 .. k |-> KeptStep(q, pid, n, f)]}
<1>1. SUFFICES ASSUME Fails # {}
               PROVE  FALSE
  OBVIOUS
<1>2. PICK k \in Fails : \A j \in Fails : k <= j
  BY <1>1, Least
<1>3. k \in Nat
  OBVIOUS
<1>4. k # 0
  <2>1. SUFFICES ASSUME k = 0
                 PROVE  FALSE
    OBVIOUS
  <2>2. PICK f : f = [n \in 0 .. 0 |-> <<>>]
    OBVIOUS
  <2>3. f = [n \in 0 .. 0 |-> KeptStep(q, pid, n, f)]
    BY <2>2 DEF KeptStep
  <2> QED
    BY <2>1, <2>3
<1>5. k - 1 \in Nat /\ k - 1 \notin Fails
  BY <1>2, <1>3, <1>4
<1>6. PICK f : f = [n \in 0 .. k - 1 |-> KeptStep(q, pid, n, f)]
  BY <1>5
<1>7. PICK g : g = [n \in 0 .. k |-> IF n = k THEN KeptStep(q, pid, k, f) ELSE f[n]]
  OBVIOUS
<1>8. \A n \in 0 .. k - 1 : g[n] = f[n]
  BY <1>3, <1>7
<1>9. \A n \in 0 .. k : KeptStep(q, pid, n, g) = KeptStep(q, pid, n, f)
  <2>1. ASSUME NEW n \in 0 .. k, n # 0
        PROVE  g[n - 1] = f[n - 1]
    BY <1>3, <1>8, <2>1, n - 1 \in 0 .. k - 1
  <2> QED
    BY <2>1 DEF KeptStep
<1>10. \A n \in 0 .. k : g[n] = KeptStep(q, pid, n, g)
  <2>1. ASSUME NEW n \in 0 .. k - 1
        PROVE  g[n] = KeptStep(q, pid, n, f)
    BY <1>6, <1>8
  <2> QED
    BY <1>3, <1>7, <1>9, <2>1
<1>11. g = [n \in 0 .. k |-> KeptStep(q, pid, n, g)]
  BY <1>7, <1>10
<1> QED
  BY <1>2, <1>11

\* The filter keeps the others, and invents nothing.
LEMMA Filtered ==
  ASSUME NEW q, NEW pid, IsSeq(q)
  PROVE  /\ IsSeq(Without(q, pid)) /\ Elements(Without(q, pid)) \subseteq Elements(q)
         /\ \A m \in Elements(q) : m.pid # pid => m \in Elements(Without(q, pid))
<1>1. Len(q) \in Nat
  BY DEF IsSeq
<1>2. PICK kept : /\ kept = [n \in 0 .. Len(q) |-> KeptStep(q, pid, n, kept)]
                  /\ Without(q, pid) = kept[Len(q)]
  <2> DEFINE f == CHOOSE f : f = [n \in 0 .. Len(q) |->
                                   IF n = 0 THEN <<>>
                                   ELSE IF q[n].pid # pid THEN Append(f[n - 1], q[n])
                                        ELSE f[n - 1]]
  <2>1. \E g : g = [n \in 0 .. Len(q) |->
                      IF n = 0 THEN <<>>
                      ELSE IF q[n].pid # pid THEN Append(g[n - 1], q[n]) ELSE g[n - 1]]
    <3>1. PICK g : g = [n \in 0 .. Len(q) |-> KeptStep(q, pid, n, g)]
      BY <1>1, FilterExists
    <3>2. g = [n \in 0 .. Len(q) |->
                 IF n = 0 THEN <<>>
                 ELSE IF q[n].pid # pid THEN Append(g[n - 1], q[n]) ELSE g[n - 1]]
      BY <3>1 DEF KeptStep
    <3> QED
      BY <3>2
  <2>2. f = [n \in 0 .. Len(q) |->
               IF n = 0 THEN <<>>
               ELSE IF q[n].pid # pid THEN Append(f[n - 1], q[n]) ELSE f[n - 1]]
    BY <2>1
  <2>3. Without(q, pid) = f[Len(q)]
    BY DEF Without
  <2> HIDE DEF f
  <2> QED
    BY <2>2, <2>3 DEF KeptStep
<1> DEFINE Good(n) == /\ IsSeq(kept[n]) /\ Elements(kept[n]) \subseteq Elements(q)
                       /\ \A i \in 1 .. n : q[i].pid # pid => q[i] \in Elements(kept[n])
           Bad == {n \in 0 .. Len(q) : ~Good(n)}
<1>3. Bad = {}
  <2>1. SUFFICES ASSUME Bad # {}
                 PROVE  FALSE
    OBVIOUS
  <2>2. PICK n \in Bad : \A j \in Bad : n <= j
    <3>1. Bad \subseteq Nat
      BY <1>1
    <3> HIDE DEF Bad
    <3> QED
      BY <2>1, <3>1, Least
  <2>3. n \in 0 .. Len(q) /\ ~Good(n)
    BY <2>2
  <2>4. kept[n] = KeptStep(q, pid, n, kept)
    BY <1>2, <2>3
  <2>5. n # 0
    <3>1. SUFFICES ASSUME n = 0
                   PROVE  Good(n)
      BY <2>3
    <3>2. kept[n] = <<>>
      BY <2>4, <3>1 DEF KeptStep
    <3> QED
      BY <3>1, <3>2, EmptySeq
  <2>6. n - 1 \in 0 .. Len(q) /\ n - 1 \notin Bad
    BY <1>1, <2>2, <2>3, <2>5
  <2>7. Good(n - 1)
    BY <2>6
  <2>8. q[n] \in Elements(q)
    BY <1>1, <2>3, <2>5 DEF Elements
  <2>9. \A i \in 1 .. n : i = n \/ i \in 1 .. n - 1
    BY <1>1, <2>3
  <2>10. CASE q[n].pid # pid
    <3>1. kept[n] = Append(kept[n - 1], q[n])
      BY <2>4, <2>5, <2>10 DEF KeptStep
    <3>2. IsSeq(kept[n]) /\ Elements(kept[n]) = Elements(kept[n - 1]) \cup {q[n]}
      BY <2>7, <3>1, Appended
    <3> QED
      BY <2>3, <2>7, <2>8, <2>9, <3>2
  <2>11. CASE q[n].pid = pid
    <3>1. kept[n] = kept[n - 1]
      BY <2>4, <2>5, <2>11 DEF KeptStep
    <3> QED
      BY <2>3, <2>7, <2>9, <2>11, <3>1
  <2> QED
    BY <2>10, <2>11
<1>4. Good(Len(q))
  BY <1>1, <1>3
<1>5. \A m \in Elements(q) : \E i \in 1 .. Len(q) : m = q[i]
  BY DEF Elements
<1> QED
  BY <1>2, <1>4, <1>5

\* Two sequences of the same elements are the same.
LEMMA SameSeq ==
  ASSUME NEW D, NEW s \in Seq(D), NEW t \in Seq(D), Len(s) = Len(t),
         \A i \in 1 .. Len(s) : s[i] = t[i]
  PROVE  s = t
OBVIOUS

\* An event taken from the front and put behind the earlier ones stays in line.
LEMMA MovedAlong ==
  ASSUME NEW u, NEW q, IsSeq(u), IsSeq(q), q # <<>>
  PROVE  Append(u, q[1]) \o Tail(q) = u \o q
<1>1. PICK E, F : u \in Seq(E) /\ q \in Seq(F)
  BY DEF IsSeq
<1> DEFINE G == E \cup F
<1>2. u \in Seq(G) /\ q \in Seq(G) /\ Len(u) \in Nat /\ Len(q) \in Nat /\ Len(q) >= 1
  BY <1>1
<1>3. q[1] \in G
  BY <1>2
<1> HIDE DEF G
<1>4. /\ Append(u, q[1]) \in Seq(G) /\ Len(Append(u, q[1])) = Len(u) + 1
      /\ Append(u, q[1])[Len(u) + 1] = q[1]
      /\ \A i \in 1 .. Len(u) : Append(u, q[1])[i] = u[i]
      /\ Tail(q) \in Seq(G) /\ Len(Tail(q)) = Len(q) - 1
      /\ \A i \in 1 .. Len(q) - 1 : Tail(q)[i] = q[i + 1]
  BY <1>2, <1>3
<1>5. PICK v, w : v = Append(u, q[1]) /\ w = Tail(q)
  OBVIOUS
<1>6. /\ v \o w \in Seq(G) /\ Len(v \o w) = Len(u) + Len(q)
      /\ \A i \in 1 .. Len(u) + 1 : (v \o w)[i] = v[i]
      /\ \A i \in 1 .. Len(q) - 1 : (v \o w)[Len(u) + 1 + i] = w[i]
  BY <1>2, <1>4, <1>5
<1>7. /\ u \o q \in Seq(G) /\ Len(u \o q) = Len(u) + Len(q)
      /\ \A i \in 1 .. Len(u) : (u \o q)[i] = u[i]
      /\ \A i \in 1 .. Len(q) : (u \o q)[Len(u) + i] = q[i]
  BY <1>2
<1>8. ASSUME NEW i \in 1 .. Len(u) + Len(q)
      PROVE  (v \o w)[i] = (u \o q)[i]
  <2>1. PICK a \in Nat, b \in Nat : a = Len(u) /\ b = Len(q)
    BY <1>2
  <2>2. i \in 1 .. a + b
    BY <2>1
  <2>3. i \in 1 .. a \/ i = a + 1 \/ i - a - 1 \in 1 .. b - 1
    BY ONLY <2>2, a \in Nat, b \in Nat
  <2>4. CASE i \in 1 .. a
    <3>1. i \in 1 .. Len(u) + 1
      BY <2>1, <2>4
    <3> QED
      BY <1>4, <1>5, <1>6, <1>7, <2>1, <2>4, <3>1
  <2>5. CASE i = a + 1
    <3>1. i = Len(u) + 1 /\ 1 \in 1 .. Len(q) /\ i \in 1 .. Len(u) + 1
      BY <1>2, <2>1, <2>5
    <3> QED
      BY <1>4, <1>5, <1>6, <1>7, <3>1
  <2>6. CASE i - a - 1 \in 1 .. b - 1
    <3>1. PICK k \in 1 .. b - 1 : i = a + 1 + k
      BY ONLY <2>2, <2>6, a \in Nat, b \in Nat
    <3>2. k \in 1 .. Len(q) - 1 /\ k + 1 \in 1 .. Len(q) /\ i = Len(u) + 1 + k
          /\ i = Len(u) + (k + 1)
      BY <2>1, <3>1
    <3>3. (v \o w)[i] = q[k + 1]
      BY <1>4, <1>5, <1>6, <3>2
    <3> QED
      BY <1>7, <3>2, <3>3
  <2> QED
    BY <2>3, <2>4, <2>5, <2>6
<1>9. /\ v \o w \in Seq(G) /\ u \o q \in Seq(G) /\ Len(v \o w) = Len(u \o q)
      /\ \A i \in 1 .. Len(v \o w) : (v \o w)[i] = (u \o q)[i]
  BY <1>6, <1>7, <1>8
<1>10. v \o w = u \o q
  BY ONLY <1>9, SameSeq
<1> QED
  BY <1>5, <1>10

LEMMA JoinedAppend ==
  ASSUME NEW u, NEW q, IsSeq(u), IsSeq(q), NEW e
  PROVE  u \o Append(q, e) = Append(u \o q, e)
<1>1. PICK E, F : u \in Seq(E) /\ q \in Seq(F)
  BY DEF IsSeq
<1> DEFINE G == E \cup F \cup {e}
<1>2. u \in Seq(G) /\ q \in Seq(G) /\ e \in G /\ Len(u) \in Nat /\ Len(q) \in Nat
  BY <1>1
<1> HIDE DEF G
<1> QED
  BY <1>2

LEMMA JoinedEmpty ==
  ASSUME NEW q, IsSeq(q)
  PROVE  <<>> \o q = q
<1>1. PICK E : q \in Seq(E)
  BY DEF IsSeq
<1> QED
  BY <1>1

\* One event for a payment, in a queue that grows or loses its front.
OneEvent(q) ==
  \A i, j \in 1 .. Len(q) :
    q[i].t = "recv" /\ q[j].t = "recv" /\ q[i].m.pid = q[j].m.pid => i = j

LEMMA OneEventAppend ==
  ASSUME NEW q, IsSeq(q), OneEvent(q), NEW e,
         e.t = "recv" => \A f \in Elements(q) : f.t = "recv" => f.m.pid # e.m.pid
  PROVE  OneEvent(Append(q, e))
<1>1. PICK E : q \in Seq(E)
  BY DEF IsSeq
<1>2. q \in Seq(E \cup {e})
  BY <1>1
<1>3. PICK r : r = Append(q, e)
  OBVIOUS
<1>4. /\ Len(q) \in Nat /\ Len(r) = Len(q) + 1 /\ r[Len(q) + 1] = e
      /\ \A i \in 1 .. Len(q) : r[i] = q[i]
  BY <1>2, <1>3
<1>5. ASSUME NEW i \in 1 .. Len(q), r[i].t = "recv", e.t = "recv", r[i].m.pid = e.m.pid
      PROVE  FALSE
  BY <1>4, <1>5 DEF Elements
<1>6. ASSUME NEW i \in 1 .. Len(r), NEW j \in 1 .. Len(r),
             r[i].t = "recv", r[j].t = "recv", r[i].m.pid = r[j].m.pid
      PROVE  i = j
  <2>1. CASE i \in 1 .. Len(q) /\ j \in 1 .. Len(q)
    BY <1>4, <1>6, <2>1 DEF OneEvent
  <2>2. (i \in 1 .. Len(q) \/ i = Len(q) + 1) /\ (j \in 1 .. Len(q) \/ j = Len(q) + 1)
    BY <1>4
  <2> QED
    BY <1>4, <1>5, <1>6, <2>1, <2>2
<1> QED
  BY <1>3, <1>6 DEF OneEvent

LEMMA OneEventSuffix ==
  ASSUME NEW u, NEW q, IsSeq(u), IsSeq(q), OneEvent(u \o q)
  PROVE  OneEvent(q)
<1>1. PICK E, F : u \in Seq(E) /\ q \in Seq(F)
  BY DEF IsSeq
<1>2. u \in Seq(E \cup F) /\ q \in Seq(E \cup F)
  BY <1>1
<1>3. /\ Len(u) \in Nat /\ Len(q) \in Nat /\ Len(u \o q) = Len(u) + Len(q)
      /\ \A i \in 1 .. Len(q) : (u \o q)[Len(u) + i] = q[i]
  BY <1>2
<1>4. ASSUME NEW i \in 1 .. Len(q), NEW j \in 1 .. Len(q),
             q[i].t = "recv", q[j].t = "recv", q[i].m.pid = q[j].m.pid
      PROVE  i = j
  <2>1. Len(u) + i \in 1 .. Len(u \o q) /\ Len(u) + j \in 1 .. Len(u \o q)
    BY <1>3
  <2>2. Len(u) + i = Len(u) + j
    BY <1>3, <1>4, <2>1 DEF OneEvent
  <2> QED
    BY <1>3, <2>2
<1> QED
  BY <1>4 DEF OneEvent

\* What comes after the head is about other payments.
LEMMA OneEventTail ==
  ASSUME NEW q, IsSeq(q), q # <<>>, OneEvent(q), q[1].t = "recv",
         NEW f \in Elements(Tail(q)), f.t = "recv"
  PROVE  f.m.pid # q[1].m.pid
<1>1. PICK E : q \in Seq(E)
  BY DEF IsSeq
<1>2. Tail(q) \in Seq(E) /\ Len(q) \in Nat /\ Len(q) >= 1 /\ Len(Tail(q)) = Len(q) - 1
      /\ \A i \in 1 .. Len(q) - 1 : Tail(q)[i] = q[i + 1]
  BY <1>1
<1>3. PICK i \in 1 .. Len(q) - 1 : f = q[i + 1]
  BY <1>2 DEF Elements
<1>4. i + 1 \in 1 .. Len(q) /\ 1 \in 1 .. Len(q) /\ i + 1 # 1
  BY <1>2
<1> QED
  BY <1>3, <1>4 DEF OneEvent

-----------------------------------------------------------------------------
(* The stored state of the client.  What it holds in memory is what VSS    *)
(* has, unless an answer was lost; then it can save no more until it loads. *)

Fields == {"enabled", "paused", "pos", "pend", "inbox", "first"}
IntentFields == {"id", "kind", "chan", "target", "backing", "amt", "sent"}
IsState(s) == DOMAIN s = Fields /\ DOMAIN s.pend = IntentFields /\ IsSeq(s.inbox)
Mirror == "stable" \notin behind => mem["stable"] = rem["stable"]
Stores ==
  /\ mem = [o \in Owners |-> mem[o]] /\ rem = [o \in Owners |-> rem[o]]
  /\ IsState(mem["stable"]) /\ IsState(rem["stable"]) /\ Mirror

Stored == rem["stable"]

\* A save of the client.
LEMMA StableSave ==
  ASSUME Stores, NEW next, IsState(next), NEW out, Save("stable", next, out)
  PROVE  /\ Stores'
         /\ Stored' = Stored \/ (Stored' = next /\ Stored = S)
         /\ out = "ok" => Stored' = next /\ Stored = S
<1>1. "stable" \in Owners /\ "splice" \in Owners
  BY DEF Owners
<1>2. /\ rem' = IF out = "refused" THEN rem ELSE [rem EXCEPT !["stable"] = next]
      /\ mem' = IF out \in {"ok", "local"} THEN [mem EXCEPT !["stable"] = next] ELSE mem
      /\ behind' = IF out = "lost" THEN behind \cup {"stable"} ELSE behind
      /\ "stable" \in behind => out = "refused"
      /\ out \in {"ok", "local", "lost", "refused"}
  BY DEF Save, Saves
<1>3. PICK r : r = [rem EXCEPT !["stable"] = next]
  OBVIOUS
<1>4. r = [o \in Owners |-> r[o]] /\ r["stable"] = next
  BY <1>1, <1>3 DEF Stores
<1>5. PICK m : m = [mem EXCEPT !["stable"] = next]
  OBVIOUS
<1>6. m = [o \in Owners |-> m[o]] /\ m["stable"] = next
  BY <1>1, <1>5 DEF Stores
<1>7. rem' = (IF out = "refused" THEN rem ELSE r)
      /\ mem' = (IF out \in {"ok", "local"} THEN m ELSE mem)
  BY <1>2, <1>3, <1>5
<1>8. rem' = [o \in Owners |-> rem'[o]] /\ mem' = [o \in Owners |-> mem'[o]]
  BY <1>4, <1>6, <1>7 DEF Stores
<1>9. rem'["stable"] \in {rem["stable"], next} /\ mem'["stable"] \in {mem["stable"], next}
  BY <1>4, <1>6, <1>7
<1>10. IsState(rem["stable"])' /\ IsState(mem["stable"])'
  BY <1>9 DEF Stores, IsState
<1>11. Mirror'
  BY <1>2, <1>4, <1>6, <1>7 DEF Stores, Mirror
<1>12. Stored' = Stored \/ (Stored' = next /\ Stored = S)
  BY <1>2, <1>4, <1>7 DEF Stores, Mirror, Stored, S
<1>13. out = "ok" => Stored' = next /\ Stored = S
  BY <1>2, <1>4, <1>7 DEF Stores, Mirror, Stored, S
<1> QED
  BY <1>8, <1>10, <1>11, <1>12, <1>13 DEF Stores

\* A save of the splice controller leaves the client's state alone.
LEMMA SpliceSave ==
  ASSUME Stores, NEW next, NEW out, Save("splice", next, out)
  PROVE  Stores' /\ UNCHANGED Stored /\ UNCHANGED S
<1>1. "stable" \in Owners /\ "splice" \in Owners /\ "stable" # "splice"
  BY DEF Owners
<1>2. /\ rem' = IF out = "refused" THEN rem ELSE [rem EXCEPT !["splice"] = next]
      /\ mem' = IF out \in {"ok", "local"} THEN [mem EXCEPT !["splice"] = next] ELSE mem
      /\ behind' = IF out = "lost" THEN behind \cup {"splice"} ELSE behind
  BY DEF Save
<1>3. rem' = [o \in Owners |-> rem'[o]] /\ mem' = [o \in Owners |-> mem'[o]]
  BY <1>1, <1>2 DEF Stores
<1>4. rem'["stable"] = rem["stable"] /\ mem'["stable"] = mem["stable"]
  BY <1>1, <1>2 DEF Stores
<1>5. "stable" \in behind <=> "stable" \in behind'
  BY <1>1, <1>2
<1>6. IsState(rem["stable"])' /\ IsState(mem["stable"])' /\ Mirror'
  BY <1>4, <1>5 DEF Stores, IsState, Mirror
<1> QED
  BY <1>3, <1>4, <1>6 DEF Stores, Stored, S

LEMMA StoresStay ==
  ASSUME Stores, UNCHANGED <<mem, rem, behind>>
  PROVE  Stores' /\ UNCHANGED Stored /\ UNCHANGED S
  BY DEF Stores, Stored, S, Mirror, IsState

-----------------------------------------------------------------------------
(* A keysend under way: the job saved it, LDK holds it, or the provider    *)
(* owes its answer.  There is one at most, in one of these places, and it   *)
(* is the pending intent of the stored state.                              *)

Sending == job.pc \in {"pending", "persisted"}
Flight == newpay \cup pays \cup owed
Alive == Flight \cup (IF Sending THEN {job.in} ELSE {})
Apart ==
  /\ newpay \cap pays = {} /\ newpay \cap owed = {} /\ pays \cap owed = {}
  /\ Sending => Flight = {}
  /\ \A a, b \in Alive : a = b
Alike ==
  \A in \in Alive : /\ in.id \in 1 .. intents
                    /\ Stored.pend.id = in.id /\ Stored.pend.kind = in.kind

\* An answer to a keysend means that it is over.
Over(m) == m.corr \in 0 .. intents /\ \A in \in Alive : in.id # m.corr
Past(e) ==
  /\ e.t = "failed" => e.id \in 0 .. intents /\ \A in \in Alive : in.id # e.id
  /\ e.t = "sent" =>
       e.id \in 0 .. intents /\ \A in \in Alive : in.id = e.id => in.kind = "trade"
  /\ e.t = "recv" => Over(e.m)
Queued == Elements(evq) \cup Elements(unsaved)
Letters == Elements(Stored.inbox)
Queues == IsSeq(evq) /\ IsSeq(unsaved)
Replies == (\A e \in Queued : Past(e)) /\ (\A m \in Letters : Over(m))

\* The gate works on the head of the queue, and jobs run in a session.
Heads ==
  /\ gate # "none" => evq # <<>>
  /\ sjob \in {"submit", "rebind", "complete"} => gate = "pending" /\ Head1.t \in SpliceEvents
Jobs == DOMAIN job = {"k", "pc", "in"} /\ (sess # "up" => job = Idle /\ sjob = SIdle)

FlightInv ==
  Stores /\ Apart /\ Alike /\ Queues /\ Replies /\ Heads /\ Jobs /\ intents \in Nat

\* The pending intent of two states is the same.
SamePending(s, next) == next.pend.id = s.pend.id /\ next.pend.kind = s.pend.kind

\* What is over stays over as long as nothing new is under way.
LEMMA OverStays ==
  ASSUME UNCHANGED intents, Alive' \subseteq Alive
  PROVE  (\A m : Over(m) => Over(m)') /\ (\A e : Past(e) => Past(e)')
<1>1. \A m : Over(m) => Over(m)'
  BY DEF Over
<1>2. ASSUME NEW e, Past(e)
      PROVE  Past(e)'
  <2>1. e.t = "recv" => Over(e.m)'
    BY <1>1, <1>2 DEF Past
  <2> QED
    BY <1>2, <2>1 DEF Past
<1> QED
  BY <1>1, <1>2

\* A step that starts nothing.
LEMMA Keeps ==
  ASSUME FlightInv, Stores', Apart', Queues', Heads', Jobs', UNCHANGED intents,
         Alive' \subseteq Alive, Alive' = {} \/ SamePending(Stored, Stored'),
         \A e \in Queued' : e \in Queued \/ Past(e)',
         \A m \in Letters' : m \in Letters \/ Over(m)'
  PROVE  FlightInv'
<1>1. Alike'
  <2>1. SUFFICES ASSUME NEW in \in Alive'
                 PROVE  in.id \in 1 .. intents' /\ Stored'.pend.id = in.id
                        /\ Stored'.pend.kind = in.kind
    BY DEF Alike
  <2>2. in \in Alive /\ SamePending(Stored, Stored')
    BY <2>1
  <2> QED
    BY <2>2 DEF FlightInv, Alike, SamePending
<1>2. Replies'
  BY OverStays DEF FlightInv, Replies
<1> QED
  BY <1>1, <1>2 DEF FlightInv

\* What a save of another part of the state leaves alone.
LEMMA StateFields ==
  ASSUME NEW s, IsState(s), NEW next, DOMAIN next = DOMAIN s,
         next.pend = s.pend, next.inbox = s.inbox
  PROVE  IsState(next) /\ SamePending(s, next)
  BY DEF IsState, SamePending

stillFlight == <<newpay, pays, owed, intents, evq, unsaved, gate, sess>>

LEMMA StillAlive ==
  ASSUME FlightInv, UNCHANGED <<newpay, pays, owed>>, Sending' => Sending /\ job'.in = job.in
  PROVE  Apart' /\ Alive' \subseteq Alive
<1>1. Flight' = Flight
  BY DEF Flight
<1>2. Alive' \subseteq Alive
  BY <1>1 DEF Alive
<1> QED
  BY <1>1, <1>2 DEF FlightInv, Apart

\* One save of the client that touches neither the intent nor the inbox.
LEMMA PlainSave ==
  ASSUME FlightInv, NEW next, IsState(next), SamePending(S, next), next.inbox = S.inbox,
         NEW out, Save("stable", next, out), UNCHANGED <<job, sjob, stillFlight>>
  PROVE  FlightInv'
<1>1. Stores' /\ (Stored' = Stored \/ (Stored' = next /\ Stored = S))
  BY StableSave DEF FlightInv
<1>2. Apart' /\ Alive' \subseteq Alive
  BY StillAlive DEF stillFlight, Sending
<1>3. Queues' /\ Heads' /\ Jobs' /\ Queued' = Queued /\ UNCHANGED intents
  BY DEF stillFlight, FlightInv, Queues, Heads, Jobs, Queued, Head1
<1>4. SamePending(Stored, Stored') /\ Letters' = Letters
  BY <1>1 DEF SamePending, Letters
<1> QED
  BY <1>1, <1>2, <1>3, <1>4, Keeps

\* What no change of the settings touches.
unrecorded == <<chan, newpay, pays, intents, msgs, owed, provider, twice, dropped, sess, evq,
                gate, unsaved>>

LEMMA SettingsStep ==
  ASSUME FlightInv, UNCHANGED spliceVars,
         Enable \/ Pause \/ PrepareFirstReceive \/ ClearClosedPosition
  PROVE  FlightInv'
<1>1. IsState(S)
  BY DEF FlightInv, Stores, S
<1>2. PICK next, out :
        /\ next \in {[S EXCEPT !.enabled = TRUE], [S EXCEPT !.paused = ~S.paused],
                     [S EXCEPT !.enabled = TRUE, !.first = "prepared"],
                     [S EXCEPT !.pos = NoPosition]}
        /\ Save("stable", next, out) /\ UNCHANGED <<unrecorded, job>>
  BY DEF Enable, Pause, PrepareFirstReceive, ClearClosedPosition, SettingsChange, Put, frame,
     unrecorded
<1>3. DOMAIN next = DOMAIN S /\ next.pend = S.pend /\ next.inbox = S.inbox
  BY <1>1, <1>2 DEF IsState, Fields
<1>4. IsState(next) /\ SamePending(S, next)
  BY <1>1, <1>3, StateFields
<1>5. UNCHANGED <<job, sjob, stillFlight>>
  BY <1>2 DEF unrecorded, stillFlight, spliceVars
<1> QED
  BY <1>2, <1>3, <1>4, <1>5, PlainSave

\* The intent is withdrawn.
LEMMA WithdrawStep ==
  ASSUME FlightInv, UNCHANGED spliceVars, SendNotReady \/ SendRejected
  PROVE  FlightInv'
<1>1. Sending /\ Withdraw
  BY DEF SendNotReady, SendRejected, Sending
<1>2. PICK next, out : next = [S EXCEPT !.pend = NoIntent] /\ Save("stable", next, out)
  BY <1>1 DEF Withdraw, Put
<1>3. IsState(next) /\ next.inbox = S.inbox
  <2>1. IsState(S)
    BY DEF FlightInv, Stores, S
  <2>2. DOMAIN next = Fields /\ next.pend = NoIntent /\ next.inbox = S.inbox
    BY <1>2, <2>1 DEF IsState, Fields
  <2>3. DOMAIN NoIntent = IntentFields
    BY DEF NoIntent, IntentFields
  <2> QED
    BY <2>1, <2>2, <2>3 DEF IsState
<1>4. Stores' /\ (Stored' = Stored \/ (Stored' = next /\ Stored = S))
  BY <1>2, <1>3, StableSave DEF FlightInv
<1>5. job' = Idle /\ UNCHANGED <<sjob, stillFlight>>
  BY <1>1 DEF Withdraw, frame, stillFlight, spliceVars
<1>6. ~Sending' /\ DOMAIN job' = {"k", "pc", "in"}
  BY <1>5 DEF Sending, Idle
<1>7. Apart' /\ Alive' \subseteq Alive
  BY <1>5, <1>6, StillAlive DEF stillFlight
<1>8. Alive' = {}
  BY <1>1, <1>5, <1>6 DEF FlightInv, Apart, Alive, Flight, stillFlight
<1>9. Queues' /\ Heads' /\ Jobs' /\ Queued' = Queued /\ UNCHANGED intents
  BY <1>5, <1>6 DEF stillFlight, FlightInv, Queues, Heads, Jobs, Queued, Head1
<1>10. Letters' = Letters
  BY <1>3, <1>4 DEF Letters
<1> QED
  BY <1>4, <1>7, <1>8, <1>9, <1>10, Keeps

\* Steps of a job that save nothing, and steps of the page.
LEMMA JobStep ==
  ASSUME FlightInv, UNCHANGED spliceVars,
         PersistHistory \/ HistoryFails \/ Refresh \/ TakeQuote \/ FlushLocal
           \/ OrdinaryPayment \/ CloseChannel
  PROVE  FlightInv'
<1>1. /\ UNCHANGED <<mem, rem, behind, sjob, newpay, pays, owed, intents, unsaved, gate, sess>>
      /\ UNCHANGED evq
  BY DEF PersistHistory, HistoryFails, Refresh, TakeQuote, FlushLocal, OrdinaryPayment,
         CloseChannel, Flush, storeVars, queueVars, frame, clientVars, envFrame, spliceVars
<1>2. /\ Sending' => Sending /\ job'.in = job.in
      /\ DOMAIN job' = {"k", "pc", "in"}
      /\ job' = job \/ sess = "up"
  <2>1. CASE PersistHistory
    <3>1. job.pc = "pending" /\ job' = [job EXCEPT !.pc = "persisted"]
      BY <2>1 DEF PersistHistory
    <3>2. sess = "up"
      <4>1. Idle.pc # "pending"
        BY DEF Idle
      <4> QED
        BY <3>1, <4>1 DEF FlightInv, Jobs
    <3>3. DOMAIN job' = DOMAIN job /\ job'.in = job.in
      BY <3>1 DEF FlightInv, Jobs
    <3> QED
      BY <3>1, <3>2, <3>3 DEF FlightInv, Jobs, Sending
  <2>2. CASE HistoryFails
    BY <2>2 DEF HistoryFails, FlightInv, Jobs, Sending, Idle
  <2>3. CASE UNCHANGED job
    BY <2>3 DEF FlightInv, Jobs, Sending
  <2> QED
    BY <2>1, <2>2, <2>3
    DEF Refresh, TakeQuote, FlushLocal, OrdinaryPayment, CloseChannel, clientVars, envFrame
<1>3. Stores' /\ UNCHANGED Stored
  BY <1>1, StoresStay DEF FlightInv
<1>4. Apart' /\ Alive' \subseteq Alive
  BY <1>1, <1>2, StillAlive
<1>5. Queues' /\ Heads' /\ Jobs' /\ Queued' = Queued /\ Letters' = Letters
  BY <1>1, <1>2, <1>3 DEF FlightInv, Queues, Heads, Jobs, Queued, Letters, Head1
<1> QED
  BY <1>1, <1>3, <1>4, <1>5, Keeps DEF SamePending

\* A new intent: nothing was under way, its number is new, and it is under
\* way only if its save was answered.
LEMMA SavePendingStep ==
  ASSUME FlightInv, ~Sending, ~HasPending(S), sess = "up", NEW kind, NEW in, NEW what,
         NEW inKind \in {"trade", "settlement"}, NEW target, NEW backing, NEW amt,
         in = NewIntent(inKind, target, backing, amt),
         SavePending(kind, in, what), UNCHANGED sjob
  PROVE  FlightInv'
<1>1. /\ in.id = intents + 1 /\ in.kind = inKind /\ DOMAIN in = IntentFields
      /\ intents \in Nat /\ intents' = intents + 1
  BY DEF NewIntent, IntentFields, FlightInv, SavePending
<1>2. PICK next, out :
        /\ next = [S EXCEPT !.pend = in,
                            !.first = IF in.kind = "trade" /\ @ = "received"
                                      THEN "attempted" ELSE @]
        /\ Save("stable", next, out)
        /\ job' = (IF out = "ok" THEN [k |-> kind, pc |-> "pending", in |-> in] ELSE Idle)
  BY DEF SavePending, Put, AfterSave
<1>3. UNCHANGED <<newpay, pays, owed, sess, sjob, evq, gate, unsaved>>
  BY DEF SavePending, queueVars
<1>4. IsState(next) /\ next.inbox = S.inbox /\ next.pend = in
  <2>1. IsState(S)
    BY DEF FlightInv, Stores, S
  <2>2. DOMAIN next = Fields /\ next.pend = in /\ next.inbox = S.inbox
    BY <1>2, <2>1 DEF IsState, Fields
  <2> QED
    BY <1>1, <2>1, <2>2 DEF IsState
<1>5. Stores' /\ (Stored' = Stored \/ (Stored' = next /\ Stored = S))
      /\ (out = "ok" => Stored' = next /\ Stored = S)
  BY <1>2, <1>4, StableSave DEF FlightInv
<1>6. Stored = S => Alive = {} /\ Flight = {}
  BY DEF FlightInv, Alike, HasPending, Alive
<1>7. Queues' /\ Heads' /\ Queued' = Queued /\ Letters' = Letters
  BY <1>3, <1>4, <1>5 DEF FlightInv, Queues, Heads, Queued, Letters, Head1
<1>8. DOMAIN job' = {"k", "pc", "in"} /\ (out = "ok" => job'.in = in /\ Sending')
      /\ (out # "ok" => ~Sending')
  BY <1>2 DEF Idle, Sending
<1>9. Jobs'
  BY <1>3, <1>8 DEF FlightInv, Jobs
<1>10. CASE out = "ok"
  <2>1. Flight' = {} /\ Alive' = {in}
    BY <1>3, <1>5, <1>6, <1>8, <1>10 DEF Flight, Alive
  <2>2. Apart'
    BY <1>3, <1>5, <1>6, <1>10, <2>1 DEF Apart, Flight
  <2>3. Alike'
    BY <1>1, <1>4, <1>5, <1>10, <2>1 DEF Alike
  <2>4. \A m : Over(m) => Over(m)'
    BY <1>1, <2>1 DEF Over
  <2>5. ASSUME NEW e, Past(e)
        PROVE  Past(e)'
    <3>1. e.t = "recv" => Over(e.m)'
      BY <2>4, <2>5 DEF Past
    <3>2. e.t = "failed" => e.id \in 0 .. intents' /\ \A a \in Alive' : a.id # e.id
      BY <1>1, <2>1, <2>5 DEF Past
    <3>3. e.t = "sent" => e.id \in 0 .. intents' /\ \A a \in Alive' : a.id # e.id
      BY <1>1, <2>1, <2>5 DEF Past
    <3> QED
      BY <3>1, <3>2, <3>3 DEF Past
  <2>6. Replies'
    BY <1>7, <2>4, <2>5 DEF FlightInv, Replies
  <2> QED
    BY <1>1, <1>5, <1>7, <1>9, <2>2, <2>3, <2>6 DEF FlightInv
<1>11. CASE out # "ok"
  <2>1. Alive' = Flight /\ Alive = Flight /\ Flight' = Flight
    BY <1>3, <1>8, <1>11 DEF Alive, Flight
  <2>2. Apart'
    BY <1>3, <1>8, <1>11, <2>1 DEF FlightInv, Apart
  <2>3. Alike'
    BY <1>1, <1>5, <1>6, <2>1 DEF FlightInv, Alike
  <2>4. \A m : Over(m) => Over(m)'
    BY <1>1, <2>1 DEF Over
  <2>5. ASSUME NEW e, Past(e)
        PROVE  Past(e)'
    <3>1. e.t = "recv" => Over(e.m)'
      BY <2>4, <2>5 DEF Past
    <3>2. (e.t = "failed" \/ e.t = "sent") => e.id \in 0 .. intents'
      BY <1>1, <2>5 DEF Past
    <3> QED
      BY <2>1, <2>5, <3>1, <3>2 DEF Past
  <2>6. Replies'
    BY <1>7, <2>4, <2>5 DEF FlightInv, Replies
  <2> QED
    BY <1>1, <1>5, <1>7, <1>9, <2>2, <2>3, <2>6 DEF FlightInv
<1> QED
  BY <1>10, <1>11

LEMMA TradeStep ==
  ASSUME FlightInv, UNCHANGED spliceVars, CommitTrade \/ AutoConvert \/ SettleTick
  PROVE  FlightInv'
<1>1. sess = "up" /\ ~Sending /\ ~HasPending(S) /\ UNCHANGED sjob
  <2>1. Start /\ ~HasPending(S)
    BY DEF CommitTrade, AutoConvert, SettleTick, Quotable
  <2>2. Idle.pc = ""
    BY DEF Idle
  <2> QED
    BY <2>1, <2>2 DEF Start, Sending, spliceVars
<1>2. CASE CommitTrade
  BY <1>1, <1>2, SavePendingStep DEF CommitTrade
<1>3. CASE AutoConvert
  BY <1>1, <1>3, SavePendingStep DEF AutoConvert
<1>4. CASE SettleTick
  <2>1. PICK sats :
          SavePending("tick", NewIntent("settlement", S.pos.target, S.pos.backing - sats, sats),
                      <<"intent", intents>>)
    BY <1>4 DEF SettleTick
  <2> QED
    BY <1>1, <2>1, SavePendingStep
<1> QED
  BY <1>2, <1>3, <1>4

\* LDK takes the keysend, stores it, and reports what became of it.
LEMMA KeysendStep ==
  ASSUME FlightInv, UNCHANGED spliceVars, SendKeysend \/ StoreManager
  PROVE  FlightInv'
<1>1. /\ UNCHANGED <<mem, rem, behind, sjob, intents, evq, gate, sess, owed>>
      /\ IsSeq(unsaved)' /\ Elements(unsaved)' \subseteq Elements(unsaved)
  BY EmptySeq DEF SendKeysend, StoreManager, storeVars, queueVars, spliceVars, FlightInv, Queues
<1>2. /\ Apart' /\ Alive' = Alive /\ DOMAIN job' = {"k", "pc", "in"}
      /\ job' = job \/ job' = Idle
  <2>1. CASE SendKeysend
    <3>1. /\ Sending /\ newpay' = newpay \cup {job.in} /\ pays' = pays /\ job' = Idle
      BY <2>1 DEF SendKeysend, Sending
    <3>2. ~Sending' /\ DOMAIN job' = {"k", "pc", "in"}
      BY <3>1 DEF Sending, Idle
    <3>3. Flight = {}
      BY <3>1 DEF FlightInv, Apart
    <3>4. newpay' = {job.in} /\ pays' = {} /\ owed' = {}
      BY <1>1, <3>1, <3>3 DEF Flight
    <3> QED
      BY <3>1, <3>2, <3>3, <3>4 DEF Apart, Alive, Flight
  <2>2. CASE StoreManager
    <3>1. UNCHANGED job /\ newpay' = {} /\ pays' = pays \cup newpay
      BY <2>2 DEF StoreManager
    <3> QED
      BY <1>1, <3>1 DEF FlightInv, Apart, Alive, Flight, Sending, Jobs
  <2> QED
    BY <2>1, <2>2
<1>3. Stores' /\ UNCHANGED Stored
  BY <1>1, StoresStay DEF FlightInv
<1>4. Queues' /\ Queued' \subseteq Queued /\ Heads' /\ Jobs' /\ Letters' = Letters
  BY <1>1, <1>2, <1>3 DEF FlightInv, Queues, Queued, Heads, Jobs, Letters, Head1
<1> QED
  BY <1>1, <1>2, <1>3, <1>4, Keeps DEF SamePending

\* A new event in LDK's queue.
LEMMA Emitted ==
  ASSUME FlightInv, NEW e, Emit(e), UNCHANGED <<unsaved, gate, sjob>>
  PROVE  Queues' /\ Heads' /\ Queued' = Queued \cup {e}
<1>1. evq' = Append(evq, e) /\ IsSeq(evq)
  BY DEF Emit, FlightInv, Queues
<1>2. /\ IsSeq(evq)' /\ Elements(evq)' = Elements(evq) \cup {e}
      /\ evq' # <<>> /\ (evq # <<>> => evq'[1] = evq[1])
  BY <1>1, Appended
<1> QED
  BY <1>2 DEF FlightInv, Queues, Heads, Queued, Head1

LEMMA PaymentEndsStep ==
  ASSUME FlightInv, UNCHANGED spliceVars, PaymentEnds
  PROVE  FlightInv'
<1>1. PICK in \in pays :
        /\ pays' = pays \ {in}
        /\ \/ /\ Emit([t |-> "sent", id |-> in.id])
              /\ owed' = IF in.kind = "trade" THEN owed \cup {in} ELSE owed
           \/ Emit([t |-> "failed", id |-> in.id]) /\ UNCHANGED owed
  BY DEF PaymentEnds
<1>2. /\ UNCHANGED <<mem, rem, behind, sess, job, newpay, intents, gate, unsaved, sjob>>
  BY DEF PaymentEnds, envFrame, storeVars, spliceVars
<1>3. Stores' /\ UNCHANGED Stored
  BY <1>2, StoresStay DEF FlightInv
<1>4. in \in Alive /\ in.id \in 0 .. intents /\ Alive = {in} /\ ~Sending
  BY DEF FlightInv, Apart, Alike, Alive, Flight
<1>5. CASE Emit([t |-> "sent", id |-> in.id])
           /\ owed' = IF in.kind = "trade" THEN owed \cup {in} ELSE owed
  <2>1. Apart' /\ Alive' \subseteq Alive
    BY <1>1, <1>2, <1>4, <1>5 DEF FlightInv, Apart, Alive, Flight, Sending
  <2>2. in.kind # "trade" => Alive' = {}
    BY <1>1, <1>2, <1>4, <1>5 DEF FlightInv, Apart, Alive, Flight, Sending
  <2>3. PICK e : e = [t |-> "sent", id |-> in.id]
    OBVIOUS
  <2>4. e.t = "sent" /\ e.id = in.id
    BY <2>3
  <2>5. Past(e)'
    BY <1>2, <1>4, <2>1, <2>2, <2>4 DEF Past
  <2>6. Queues' /\ Heads' /\ Queued' = Queued \cup {e}
    BY <1>2, <1>5, <2>3, Emitted
  <2>7. Jobs' /\ Letters' = Letters
    BY <1>2, <1>3 DEF FlightInv, Jobs, Letters
  <2> QED
    BY <1>2, <1>3, <2>1, <2>5, <2>6, <2>7, Keeps DEF SamePending
<1>6. CASE Emit([t |-> "failed", id |-> in.id]) /\ UNCHANGED owed
  <2>1. Apart' /\ Alive' = {}
    BY <1>1, <1>2, <1>4, <1>6 DEF FlightInv, Apart, Alive, Flight, Sending
  <2>2. PICK e : e = [t |-> "failed", id |-> in.id]
    OBVIOUS
  <2>3. e.t = "failed" /\ e.id = in.id
    BY <2>2
  <2>4. Past(e)'
    BY <1>2, <1>4, <2>1, <2>3 DEF Past
  <2>5. Queues' /\ Heads' /\ Queued' = Queued \cup {e}
    BY <1>2, <1>6, <2>2, Emitted
  <2>6. Jobs' /\ Letters' = Letters
    BY <1>2, <1>3 DEF FlightInv, Jobs, Letters
  <2> QED
    BY <1>2, <1>3, <2>1, <2>4, <2>5, <2>6, Keeps DEF SamePending
<1> QED
  BY <1>1, <1>5, <1>6

LEMMA ProviderStep ==
  ASSUME FlightInv, UNCHANGED spliceVars,
         ProviderAnswers \/ ProviderInitiates \/ FirstReceivePaid
  PROVE  FlightInv'
<1>1. UNCHANGED <<mem, rem, behind, sess, job, newpay, pays, intents, gate, unsaved, sjob>>
  BY DEF ProviderAnswers, ProviderInitiates, FirstReceivePaid, envFrame, storeVars, spliceVars
<1>2. Stores' /\ UNCHANGED Stored
  BY <1>1, StoresStay DEF FlightInv
<1>3. PICK e : /\ Emit(e) /\ e.t = "recv"
               /\ \/ e.m.corr = 0 /\ UNCHANGED owed
                  \/ \E in \in owed : e.m.corr = in.id /\ owed' = owed \ {in}
  <2>1. CASE ProviderAnswers
    <3>1. PICK in \in owed :
            /\ owed' = owed \ {in}
            /\ \/ ProviderPays(Msg("sync", in.id, provider.ver + 1, in.target, 0, 0))
               \/ ProviderPays(Msg("rejected", in.id, 0, 0, 0, 0))
      BY <2>1 DEF ProviderAnswers
    <3>2. PICK m : Emit([t |-> "recv", m |-> m]) /\ m.corr = in.id
      <4>1. CASE ProviderPays(Msg("sync", in.id, provider.ver + 1, in.target, 0, 0))
        <5>1. Msg("sync", in.id, provider.ver + 1, in.target, 0, 0).corr = in.id
          BY DEF Msg
        <5> QED
          BY <4>1, <5>1 DEF ProviderPays
      <4>2. CASE ProviderPays(Msg("rejected", in.id, 0, 0, 0, 0))
        <5>1. Msg("rejected", in.id, 0, 0, 0, 0).corr = in.id
          BY DEF Msg
        <5> QED
          BY <4>2, <5>1 DEF ProviderPays
      <4> QED
        BY <3>1, <4>1, <4>2
    <3>3. PICK e : e = [t |-> "recv", m |-> m]
      OBVIOUS
    <3>4. e.t = "recv" /\ e.m = m
      BY <3>3
    <3> QED
      BY <3>1, <3>2, <3>3, <3>4
  <2>2. CASE ProviderInitiates
    <3>1. PICK m : UNCHANGED owed /\ Emit([t |-> "recv", m |-> m]) /\ m.corr = 0
      <4>1. UNCHANGED owed
        BY <2>2 DEF ProviderInitiates
      <4>2. CASE \E sid : ProviderPays(Msg("settlement", 0, 0, provider.target, 1, sid))
        <5>1. PICK sid : ProviderPays(Msg("settlement", 0, 0, provider.target, 1, sid))
          BY <4>2
        <5>2. Msg("settlement", 0, 0, provider.target, 1, sid).corr = 0
          BY DEF Msg
        <5> QED
          BY <4>1, <5>1, <5>2 DEF ProviderPays
      <4>3. CASE \E t : ProviderPays(Msg("sync", 0, provider.ver + 1, t, 0, 0))
        <5>1. PICK t : ProviderPays(Msg("sync", 0, provider.ver + 1, t, 0, 0))
          BY <4>3
        <5>2. Msg("sync", 0, provider.ver + 1, t, 0, 0).corr = 0
          BY DEF Msg
        <5> QED
          BY <4>1, <5>1, <5>2 DEF ProviderPays
      <4> QED
        BY <2>2, <4>2, <4>3 DEF ProviderInitiates
    <3>2. PICK e : e = [t |-> "recv", m |-> m]
      OBVIOUS
    <3>3. e.t = "recv" /\ e.m = m
      BY <3>2
    <3> QED
      BY <3>1, <3>2, <3>3
  <2>3. CASE FirstReceivePaid
    <3>1. PICK m : UNCHANGED owed /\ Emit([t |-> "recv", m |-> m]) /\ m.corr = 0
      BY <2>3 DEF FirstReceivePaid, ProviderPays, Msg
    <3>2. PICK e : e = [t |-> "recv", m |-> m]
      OBVIOUS
    <3>3. e.t = "recv" /\ e.m = m
      BY <3>2
    <3> QED
      BY <3>1, <3>2, <3>3
  <2> QED
    BY <2>1, <2>2, <2>3
<1>4. Apart' /\ Alive' \subseteq Alive
  BY <1>1, <1>3 DEF FlightInv, Apart, Alive, Flight, Sending
<1>5. Past(e)'
  <2>1. CASE e.m.corr = 0 /\ UNCHANGED owed
    BY <1>1, <1>3, <1>4, <2>1 DEF Past, Over, FlightInv, Alike
  <2>2. CASE \E in \in owed : e.m.corr = in.id /\ owed' = owed \ {in}
    <3>1. PICK in \in owed : e.m.corr = in.id /\ owed' = owed \ {in}
      BY <2>2
    <3>2. in \in Alive /\ in.id \in 0 .. intents /\ Alive = {in} /\ ~Sending
      BY DEF FlightInv, Apart, Alike, Alive, Flight
    <3>3. Alive' = {}
      BY <1>1, <3>1, <3>2 DEF FlightInv, Apart, Alive, Flight, Sending
    <3> QED
      BY <1>1, <1>3, <3>1, <3>2, <3>3 DEF Past, Over
  <2> QED
    BY <1>3, <2>1, <2>2
<1>6. Queues' /\ Heads' /\ Queued' = Queued \cup {e}
  BY <1>1, <1>3, Emitted
<1>7. Jobs' /\ Letters' = Letters
  BY <1>1, <1>2 DEF FlightInv, Jobs, Letters
<1> QED
  BY <1>1, <1>2, <1>4, <1>5, <1>6, <1>7, Keeps DEF SamePending

\* LDK drops the head of its queue, or keeps it for the gate.
LEMMA Acknowledged ==
  ASSUME FlightInv, evq # <<>>, UNCHANGED sjob,
         \/ gate \in {"done", "none"} /\ Acknowledge
         \/ gate = "none" /\ gate' = "pending" /\ UNCHANGED <<evq, unsaved>>
  PROVE  Queues' /\ Heads' /\ Queued' \subseteq Queued
<1>1. CASE gate \in {"done", "none"} /\ Acknowledge
  <2>1. evq' = Tail(evq) /\ unsaved' = Append(unsaved, evq[1]) /\ gate' = "none"
    BY <1>1 DEF Acknowledge, Head1
  <2>2. IsSeq(evq)' /\ Elements(evq)' \subseteq Elements(evq) /\ evq[1] \in Elements(evq)
    BY <2>1, Tailed DEF FlightInv, Queues
  <2>3. IsSeq(unsaved)' /\ Elements(unsaved)' = Elements(unsaved) \cup {evq[1]}
    BY <2>1, Appended DEF FlightInv, Queues
  <2>4. sjob' \notin {"submit", "rebind", "complete"}
    BY <1>1 DEF FlightInv, Heads
  <2> QED
    BY <2>1, <2>2, <2>3, <2>4 DEF Queues, Heads, Queued
<1>2. CASE gate = "none" /\ gate' = "pending" /\ UNCHANGED <<evq, unsaved>>
  BY <1>2 DEF FlightInv, Queues, Heads, Queued
<1> QED
  BY <1>1, <1>2

LEMMA DeliverStep ==
  ASSUME FlightInv, (DeliverPayment /\ UNCHANGED spliceVars) \/ DeliverSplice
  PROVE  FlightInv'
<1>1. /\ UNCHANGED <<mem, rem, behind, sess, job, newpay, pays, owed, intents, sjob>>
      /\ evq # <<>>
      /\ \/ gate \in {"done", "none"} /\ Acknowledge
         \/ gate = "none" /\ gate' = "pending" /\ UNCHANGED <<evq, unsaved>>
  BY DEF DeliverPayment, DeliverSplice, storeVars, clientVars, spliceVars
<1>2. Stores' /\ UNCHANGED Stored
  BY <1>1, StoresStay DEF FlightInv
<1>3. Queues' /\ Heads' /\ Queued' \subseteq Queued
  BY <1>1, Acknowledged
<1>4. Apart' /\ Alive' \subseteq Alive
  BY <1>1, StillAlive DEF Sending
<1>5. Jobs' /\ Letters' = Letters
  BY <1>1, <1>2 DEF FlightInv, Jobs, Letters
<1> QED
  BY <1>1, <1>2, <1>3, <1>4, <1>5, Keeps DEF SamePending

\* The payment callback.
LEMMA EventStep ==
  ASSUME FlightInv, UNCHANGED spliceVars, EventJob
  PROVE  FlightInv'
<1>1. /\ UNCHANGED <<job, sjob, newpay, pays, owed, intents, sess, evq, unsaved>>
      /\ sess = "up" /\ evq # <<>> /\ gate = "pending"
      /\ Head1.t \in {"sent", "failed", "recv"}
  BY DEF EventJob, Start, eventFrame, spliceVars, FlightInv, Heads, OnReceived, OnOutcome,
         GateSettles
<1>2. Queues' /\ Heads' /\ Queued' = Queued
  BY <1>1 DEF FlightInv, Queues, Heads, Queued, Head1, SpliceEvents
<1>3. Apart' /\ Alive' \subseteq Alive
  BY <1>1, StillAlive DEF Sending
<1>4. Past(Head1)
  <2>1. Head1 \in Queued
    BY <1>1, Tailed DEF FlightInv, Queues, Queued, Head1
  <2> QED
    BY <2>1 DEF FlightInv, Replies
<1>5. Jobs'
  BY <1>1 DEF FlightInv, Jobs
<1>6. IsState(S)
  BY DEF FlightInv, Stores, S
<1>7. CASE UNCHANGED <<mem, rem, behind>>
  <2>1. Stores' /\ UNCHANGED Stored
    BY <1>7, StoresStay DEF FlightInv
  <2> QED
    BY <1>1, <1>2, <1>3, <1>5, <2>1, Keeps DEF SamePending, Letters
<1>8. ASSUME NEW next, NEW out, Save("stable", next, out), IsState(next),
             Stored = S => Alive = {} \/ SamePending(S, next),
             \A m \in Elements(next.inbox) : m \in Elements(S.inbox) \/ Over(m)
      PROVE  FlightInv'
  <2>1. Stores' /\ (Stored' = Stored \/ (Stored' = next /\ Stored = S))
    BY <1>8, StableSave DEF FlightInv
  <2>2. Alive' = {} \/ SamePending(Stored, Stored')
    BY <1>3, <1>8, <2>1 DEF SamePending
  <2>3. ASSUME NEW m \in Letters'
        PROVE  m \in Letters \/ Over(m)'
    BY <1>1, <1>3, <1>8, <2>1, <2>3, OverStays DEF Letters
  <2> QED
    BY <1>1, <1>2, <1>3, <1>5, <2>1, <2>2, <2>3, Keeps
<1>9. CASE Head1.t = "recv"
  <2>1. PICK m, keep, out :
          /\ m = Head1.m
          /\ keep = IF m.kind = "first" THEN [S EXCEPT !.first = "received"]
                    ELSE [S EXCEPT !.inbox = Append(@, m)]
          /\ UNCHANGED storeVars \/ Save("stable", keep, out)
    BY <1>9 DEF EventJob, OnReceived, Put
  <2>2. Over(m)
    BY <1>4, <1>9, <2>1 DEF Past
  <2>3. IsSeq(S.inbox)
    BY <1>6 DEF IsState
  <2>4. /\ DOMAIN keep = Fields /\ keep.pend = S.pend
        /\ keep.inbox = S.inbox \/ keep.inbox = Append(S.inbox, m)
    BY <1>6, <2>1 DEF IsState, Fields
  <2>5. IsSeq(keep.inbox) /\ \A n \in Elements(keep.inbox) : n \in Elements(S.inbox) \/ n = m
    <3>1. CASE keep.inbox = S.inbox
      BY <2>3, <3>1
    <3>2. CASE keep.inbox = Append(S.inbox, m)
      <4>1. IsSeq(Append(S.inbox, m)) /\ Elements(Append(S.inbox, m)) = Elements(S.inbox) \cup {m}
        BY <2>3, Appended
      <4> QED
        BY <3>2, <4>1
    <3> QED
      BY <2>4, <3>1, <3>2
  <2>6. IsState(keep) /\ SamePending(S, keep)
    BY <1>6, <2>4, <2>5 DEF IsState, SamePending
  <2> QED
    BY <1>7, <1>8, <2>1, <2>2, <2>5, <2>6 DEF storeVars
<1>10. CASE Head1.t # "recv"
  <2>1. PICK out : OnOutcome(Head1, out)
    BY <1>10 DEF EventJob
  <2>2. CASE ~Handles(Head1)
    BY <1>7, <2>1, <2>2 DEF OnOutcome, storeVars
  <2>3. CASE Handles(Head1)
    <3>1. PICK next :
            /\ next = IF Head1.t = "failed" THEN [S EXCEPT !.pend = NoIntent]
                      ELSE IF S.pend.kind = "trade" THEN [S EXCEPT !.pend.sent = TRUE]
                      ELSE [S EXCEPT !.pend = NoIntent, !.pos.backing = S.pend.backing]
            /\ Save("stable", next, out)
      BY <2>1, <2>3 DEF OnOutcome, Put
    <3>2. S.pend.id = Head1.id
      BY <1>1, <1>10, <2>3 DEF Handles
    <3>3. DOMAIN next = Fields /\ next.inbox = S.inbox
      BY <1>6, <3>1 DEF IsState, Fields
    <3>4. DOMAIN NoIntent = IntentFields
      BY DEF NoIntent, IntentFields
    <3>5. DOMAIN next.pend = IntentFields
      BY <1>6, <3>1, <3>4 DEF IsState, Fields, IntentFields
    <3>6. IsState(next)
      BY <1>6, <3>3, <3>5 DEF IsState
    <3>7. CASE Head1.t = "sent" /\ S.pend.kind = "trade"
      <4>1. SamePending(S, next)
        BY <1>6, <3>1, <3>7 DEF IsState, Fields, IntentFields, SamePending
      <4> QED
        BY <1>8, <3>1, <3>3, <3>6, <4>1
    <3>8. CASE ~(Head1.t = "sent" /\ S.pend.kind = "trade")
      <4>1. Stored = S => Alive = {}
        <5>1. ASSUME Stored = S, NEW in \in Alive
              PROVE  FALSE
          <6>1. in.id = Head1.id /\ in.kind = S.pend.kind
            BY <3>2, <5>1 DEF FlightInv, Alike
          <6> QED
            BY <1>1, <1>4, <1>10, <3>8, <5>1, <6>1 DEF Past
        <5> QED
          BY <5>1
      <4> QED
        BY <1>8, <3>1, <3>3, <3>6, <4>1
    <3> QED
      BY <1>1, <1>10, <3>7, <3>8
  <2> QED
    BY <2>2, <2>3
<1> QED
  BY <1>9, <1>10

\* A save of the client by a step that starts nothing.
LEMMA SaveKeeps ==
  ASSUME FlightInv, NEW next, NEW out, Save("stable", next, out), IsState(next),
         Stored = S => Alive = {} \/ SamePending(S, next),
         \A m \in Elements(next.inbox) : m \in Elements(S.inbox) \/ Over(m),
         UNCHANGED <<newpay, pays, owed, intents>>,
         Sending' => Sending /\ job'.in = job.in,
         Queues', Heads', Jobs', Queued' \subseteq Queued
  PROVE  FlightInv'
<1>1. Stores' /\ (Stored' = Stored \/ (Stored' = next /\ Stored = S))
  BY StableSave DEF FlightInv
<1>2. Apart' /\ Alive' \subseteq Alive
  BY StillAlive
<1>3. Alive' = {} \/ SamePending(Stored, Stored')
  BY <1>1, <1>2 DEF SamePending
<1>4. ASSUME NEW m \in Letters'
      PROVE  m \in Letters \/ Over(m)'
  BY <1>1, <1>2, <1>4, OverStays DEF Letters
<1> QED
  BY <1>1, <1>2, <1>3, <1>4, Keeps

\* The entry applyInbox takes is one of the inbox, and answers a pending trade.
LEMMA EntryTaken ==
  ASSUME NEW s, IsState(s), NextEntry(s) # 0
  PROVE  s.inbox[NextEntry(s)] \in Elements(s.inbox)
<1>1. Len(s.inbox) \in Nat /\ DOMAIN s.inbox = 1 .. Len(s.inbox)
      /\ (s.inbox # <<>> => Len(s.inbox) >= 1)
  BY DEF IsState, IsSeq
<1>2. NextEntry(s) \in 1 .. Len(s.inbox)
  <2>1. CASE s.pend.kind = "trade"
    <3> DEFINE hits == {i \in DOMAIN s.inbox : Answers(s.inbox[i], s.pend)}
    <3>1. hits # {}
          /\ NextEntry(s) = CHOOSE i \in hits : \A j \in hits : i <= j
      BY <2>1 DEF NextEntry
    <3>2. hits \subseteq Nat /\ hits \subseteq 1 .. Len(s.inbox)
      BY <1>1
    <3> HIDE DEF hits
    <3>3. \E i \in hits : \A j \in hits : i <= j
      BY <3>1, <3>2, Least
    <3>4. NextEntry(s) \in hits
      BY <3>1, <3>3
    <3> QED
      BY <3>2, <3>4
  <2>2. CASE s.pend.kind # "trade"
    BY <1>1, <2>2 DEF NextEntry
  <2> QED
    BY <2>1, <2>2
<1> QED
  BY <1>2 DEF Elements

\* Applying an entry keeps the inbox, and ends an intent only when nothing of
\* it is under way.
LEMMA EntryApplied ==
  ASSUME FlightInv, NEW m \in Elements(S.inbox), ~SkipEntry(S, m)
  PROVE  /\ IsState(ApplyEntry(S, m)) /\ ApplyEntry(S, m).inbox = S.inbox
         /\ Stored = S => Alive = {} \/ SamePending(S, ApplyEntry(S, m))
<1>1. IsState(S)
  BY DEF FlightInv, Stores, S
<1>2. DOMAIN NoIntent = IntentFields
  BY DEF NoIntent, IntentFields
<1>3. CASE m.kind \in {"rejected", "sync"}
  <2>1. /\ DOMAIN ApplyEntry(S, m) = Fields
        /\ ApplyEntry(S, m).inbox = S.inbox /\ ApplyEntry(S, m).pend = NoIntent
    <3>1. CASE m.kind = "rejected"
      BY <1>1, <3>1 DEF ApplyEntry, IsState, Fields
    <3>2. CASE m.kind = "sync"
      <4>1. PICK pos : ApplyEntry(S, m) = [S EXCEPT !.pend = NoIntent, !.pos = pos]
        BY <3>2 DEF ApplyEntry
      <4> QED
        BY <1>1, <4>1 DEF IsState, Fields
    <3> QED
      BY <1>3, <3>1, <3>2
  <2>2. IsState(ApplyEntry(S, m))
    BY <1>1, <1>2, <2>1 DEF IsState
  <2>3. S.pend.id = m.corr \/ S.pend.id = 0
    <3>1. CASE m.kind = "rejected"
      BY <3>1 DEF SkipEntry, Answers
    <3>2. CASE m.kind = "sync" /\ m.corr # 0
      BY <3>2 DEF SkipEntry, Answers
    <3>3. CASE m.kind = "sync" /\ m.corr = 0
      BY <3>3 DEF SkipEntry, HasPending
    <3> QED
      BY <1>3, <3>1, <3>2, <3>3
  <2>4. ASSUME Stored = S, NEW in \in Alive
        PROVE  FALSE
    <3>1. Over(m) /\ in.id \in 1 .. intents /\ in.id = S.pend.id
      BY <2>4 DEF FlightInv, Replies, Letters, Alike
    <3>2. in.id # m.corr /\ in.id # 0
      BY <3>1 DEF Over, FlightInv
    <3> QED
      BY <2>3, <3>1, <3>2
  <2> QED
    BY <2>1, <2>2, <2>4
<1>4. CASE m.kind \notin {"rejected", "sync"}
  <2>1. ApplyEntry(S, m) =
          [S EXCEPT !.pos.backing = ReceivedBacking(S.pos, m.amt),
                    !.pos.receipts = @ \cup {<<m.pid, m.sid>>}]
    BY <1>4 DEF ApplyEntry
  <2>2. /\ DOMAIN ApplyEntry(S, m) = Fields
        /\ ApplyEntry(S, m).inbox = S.inbox /\ ApplyEntry(S, m).pend = S.pend
    BY <1>1, <2>1 DEF IsState, Fields
  <2> QED
    BY <1>1, <2>2, StateFields DEF IsState
<1> QED
  BY <1>3, <1>4

LEMMA InboxApplyStep ==
  ASSUME FlightInv, UNCHANGED spliceVars, InboxApply
  PROVE  FlightInv'
<1>1. /\ UNCHANGED <<newpay, pays, owed, intents, sess, evq, unsaved, gate, sjob>>
      /\ sess = "up" /\ NextEntry(S) # 0
  BY DEF InboxApply, Start, eventFrame, queueVars, spliceVars
<1>2. PICK m : m = S.inbox[NextEntry(S)]
  OBVIOUS
<1>3. IsState(S) /\ m \in Elements(S.inbox)
  BY <1>1, <1>2, EntryTaken DEF FlightInv, Stores, S
<1>4. PICK remove : remove = [k |-> "inbox", pc |-> "remove", in |-> [NoIntent EXCEPT !.id = m.pid]]
  OBVIOUS
<1>5. DOMAIN remove = {"k", "pc", "in"} /\ remove.pc = "remove"
  BY <1>4
<1>6. DOMAIN Idle = {"k", "pc", "in"} /\ Idle.pc = ""
  BY DEF Idle
<1>7. /\ job' \in {remove, Idle}
      /\ \/ UNCHANGED <<mem, rem, behind>>
         \/ ~SkipEntry(S, m) /\ \E out : Save("stable", ApplyEntry(S, m), out)
  BY <1>2, <1>4 DEF InboxApply, Put, storeVars
<1>8. ~Sending' /\ Jobs'
  BY <1>1, <1>5, <1>6, <1>7 DEF Sending, Jobs
<1>9. Queues' /\ Heads' /\ Queued' = Queued
  BY <1>1 DEF FlightInv, Queues, Heads, Queued, Head1
<1>10. CASE UNCHANGED <<mem, rem, behind>>
  <2>1. Stores' /\ UNCHANGED Stored
    BY <1>10, StoresStay DEF FlightInv
  <2>2. Apart' /\ Alive' \subseteq Alive
    BY <1>1, <1>8, StillAlive
  <2> QED
    BY <1>1, <1>8, <1>9, <2>1, <2>2, Keeps DEF SamePending, Letters
<1>11. CASE ~SkipEntry(S, m) /\ \E out : Save("stable", ApplyEntry(S, m), out)
  <2>1. PICK out : Save("stable", ApplyEntry(S, m), out)
    BY <1>11
  <2>2. /\ IsState(ApplyEntry(S, m)) /\ ApplyEntry(S, m).inbox = S.inbox
        /\ Stored = S => Alive = {} \/ SamePending(S, ApplyEntry(S, m))
    BY <1>3, <1>11, EntryApplied
  <2> QED
    BY <1>1, <1>8, <1>9, <2>1, <2>2, SaveKeeps
<1> QED
  BY <1>7, <1>10, <1>11

LEMMA InboxRemoveStep ==
  ASSUME FlightInv, UNCHANGED spliceVars, InboxRemove
  PROVE  FlightInv'
<1>1. /\ UNCHANGED <<newpay, pays, owed, intents, sess, evq, unsaved, gate, sjob>>
      /\ job.pc = "remove" /\ job' = Idle
  BY DEF InboxRemove, frame, spliceVars
<1>2. IsState(S)
  BY DEF FlightInv, Stores, S
<1>3. PICK next, out :
        /\ next = [S EXCEPT !.inbox = Without(@, job.in.id)]
        /\ Save("stable", next, out)
  BY DEF InboxRemove, Put
<1>4. next.inbox = Without(S.inbox, job.in.id) /\ next.pend = S.pend /\ DOMAIN next = Fields
  BY <1>2, <1>3 DEF IsState, Fields
<1>5. IsSeq(S.inbox)
  BY <1>2 DEF IsState
<1>6. IsSeq(next.inbox) /\ Elements(next.inbox) \subseteq Elements(S.inbox)
  BY <1>4, <1>5, Filtered
<1>7. IsState(next) /\ SamePending(S, next)
  BY <1>2, <1>4, <1>6 DEF IsState, SamePending
<1>8. DOMAIN Idle = {"k", "pc", "in"} /\ Idle.pc = ""
  BY DEF Idle
<1>9. ~Sending' /\ Jobs'
  BY <1>1, <1>8 DEF Sending, Jobs, FlightInv
<1>10. Queues' /\ Heads' /\ Queued' = Queued
  BY <1>1 DEF FlightInv, Queues, Heads, Queued, Head1
<1> QED
  BY <1>1, <1>3, <1>6, <1>7, <1>9, <1>10, SaveKeeps

-----------------------------------------------------------------------------
(* The splice controller's steps.                                          *)

\* A step of the controller: it saves its own state or nothing, leaves the
\* client's job and the keysends alone, and adds no event of a payment.
LEMMA SpliceKeeps ==
  ASSUME FlightInv, UNCHANGED <<job, newpay, pays, owed, intents, sess>>,
         UNCHANGED <<mem, rem, behind>> \/ \E next, out : Save("splice", next, out),
         Queues', Heads', sess = "up" \/ sjob' = SIdle \/ sjob' = sjob,
         \A e \in Queued' : e \in Queued \/ e.t \in SpliceEvents
  PROVE  FlightInv'
<1>1. Stores' /\ UNCHANGED Stored
  BY SpliceSave, StoresStay DEF FlightInv
<1>2. Apart' /\ Alive' \subseteq Alive
  BY StillAlive DEF Sending
<1>3. Jobs'
  BY DEF FlightInv, Jobs
<1>4. ASSUME NEW e \in Queued'
      PROVE  e \in Queued \/ Past(e)'
  <2>1. e.t \in SpliceEvents => e.t \notin {"failed", "sent", "recv"}
    BY DEF SpliceEvents
  <2> QED
    BY <1>4, <2>1 DEF Past
<1> QED
  BY <1>1, <1>2, <1>3, <1>4, Keeps DEF SamePending, Letters

\* The queue of LDK, its gate untouched; the stored manager may catch up.
LEMMA QueueStays ==
  ASSUME FlightInv, UNCHANGED <<evq, gate>>, unsaved' \in {unsaved, <<>>},
         sjob' = sjob \/ sjob' \notin {"submit", "rebind", "complete"}
  PROVE  Queues' /\ Heads' /\ \A e \in Queued' : e \in Queued
<1>1. IsSeq(unsaved)' /\ Elements(unsaved)' \subseteq Elements(unsaved)
  BY EmptySeq DEF FlightInv, Queues
<1> QED
  BY <1>1 DEF FlightInv, Queues, Heads, Queued, Head1

LEMMA QuietSplice ==
  ASSUME FlightInv,
         QuoteSplice \/ CommitSplice \/ VerifyFails \/ PrepareSplice \/ FinishCommit
           \/ FinishCancel \/ SpliceTick \/ AllocDone
           \/ BeginSend \/ FinishSend \/ BumpFee \/ CreateChannel \/ FundChannel
           \/ SubsidizeSweep
  PROVE  /\ UNCHANGED <<job, newpay, pays, owed, intents, sess, evq, gate>>
         /\ unsaved' \in {unsaved, <<>>}
         /\ UNCHANGED <<mem, rem, behind>> \/ \E next, out : Save("splice", next, out)
         /\ \/ sjob' \in {sjob, SIdle}
            \/ sess = "up" /\ sjob' \in {"verify", "tickrebind"}
            \/ sjob = "verify" /\ sjob' \in {"started", "refused"}
<1>1. CASE QuoteSplice
  BY <1>1 DEF QuoteSplice, nonStore, clientVars, queueVars, storeVars
<1>2. CASE CommitSplice
  BY <1>2 DEF CommitSplice, nonStore, clientVars, queueVars, storeVars
<1>3. CASE VerifyFails
  BY <1>3 DEF VerifyFails, EndCommit, nonStore, clientVars, queueVars, storeVars
<1>4. CASE PrepareSplice
  <2>1. UNCHANGED nonStore /\ \E next, out : Save("splice", next, out)
    BY <1>4 DEF PrepareSplice, PutSplice
  <2>2. sjob = "verify" /\ sjob' \in {"started", "refused", SIdle}
    BY <1>4 DEF PrepareSplice, EndCommit
  <2> QED
    BY <2>1, <2>2 DEF nonStore, clientVars, queueVars
<1>5. CASE FinishCommit
  <2>1. /\ UNCHANGED <<evq, gate, sess, clientVars>> /\ unsaved' \in {unsaved, <<>>}
        /\ sjob' = SIdle
    BY <1>5 DEF FinishCommit, EndCommit
  <2>2. \E next, out : Save("splice", next, out)
    BY <1>5 DEF FinishCommit, PutSplice
  <2> QED
    BY <2>1, <2>2 DEF clientVars
<1>6. CASE FinishCancel
  <2>1. UNCHANGED nonStore /\ sjob' = SIdle /\ \E next, out : Save("splice", next, out)
    BY <1>6 DEF FinishCancel, PutSplice
  <2> QED
    BY <2>1 DEF nonStore, clientVars, queueVars
<1>7. CASE SpliceTick
  BY <1>7 DEF SpliceTick, handleFrame, clientVars, queueVars, storeVars
<1>8. CASE AllocDone
  <2>1. UNCHANGED nonStore /\ sjob' = SIdle
    BY <1>8 DEF AllocDone
  <2>2. UNCHANGED storeVars \/ \E next, out : Save("splice", next, out)
    BY <1>8 DEF AllocDone, PutSplice
  <2> QED
    BY <2>1, <2>2 DEF nonStore, clientVars, queueVars, storeVars
<1>9. CASE UNCHANGED spendFrame
  BY <1>9 DEF spendFrame, clientVars, queueVars, storeVars
<1> QED
  BY <1>1, <1>2, <1>3, <1>4, <1>5, <1>6, <1>7, <1>8, <1>9
  DEF BeginSend, FinishSend, BumpFee, CreateChannel, FundChannel, SubsidizeSweep

LEMMA QuietSpliceStep ==
  ASSUME FlightInv,
         QuoteSplice \/ CommitSplice \/ VerifyFails \/ PrepareSplice \/ FinishCommit
           \/ FinishCancel \/ SpliceTick \/ AllocDone
           \/ BeginSend \/ FinishSend \/ BumpFee \/ CreateChannel \/ FundChannel
           \/ SubsidizeSweep
  PROVE  FlightInv'
<1>1. /\ UNCHANGED <<job, newpay, pays, owed, intents, sess, evq, gate>>
      /\ unsaved' \in {unsaved, <<>>}
      /\ UNCHANGED <<mem, rem, behind>> \/ \E next, out : Save("splice", next, out)
      /\ \/ sjob' \in {sjob, SIdle}
         \/ sess = "up" /\ sjob' \in {"verify", "tickrebind"}
         \/ sjob = "verify" /\ sjob' \in {"started", "refused"}
  BY QuietSplice
<1>2. sjob' = sjob \/ sjob' \notin {"submit", "rebind", "complete"}
  BY <1>1 DEF SIdle
<1>3. sess = "up" \/ sjob' = SIdle \/ sjob' = sjob
  BY <1>1 DEF FlightInv, Jobs, SIdle
<1>4. Queues' /\ Heads' /\ \A e \in Queued' : e \in Queued
  BY <1>1, <1>2, QueueStays
<1> QED
  BY <1>1, <1>3, <1>4, SpliceKeeps

\* The gate's work on a splice event.
LEMMA HandleSplice ==
  ASSUME FlightInv,
         HandleIdle \/ HandleSignRefused \/ HandleSign \/ HandleSignAgain \/ SubmitSigned
           \/ HandlePending \/ HandleFailed \/ HandleReady \/ SaveComplete
  PROVE  /\ UNCHANGED <<job, newpay, pays, owed, intents, sess, evq>>
         /\ unsaved' \in {unsaved, <<>>}
         /\ UNCHANGED <<mem, rem, behind>> \/ \E next, out : Save("splice", next, out)
         /\ sess = "up"
         /\ gate' = gate \/ (evq # <<>> /\ Head1.t \in SpliceEvents)
         /\ \/ sjob' \notin {"submit", "rebind", "complete"}
            \/ gate' = "pending" /\ Head1.t \in SpliceEvents
<1>1. /\ UNCHANGED <<job, newpay, pays, owed, intents, sess, evq>>
      /\ unsaved' \in {unsaved, <<>>}
      /\ UNCHANGED <<mem, rem, behind>> \/ \E next, out : Save("splice", next, out)
  <2>1. UNCHANGED <<handleFrame, evq>> /\ unsaved' \in {unsaved, <<>>}
    BY DEF HandleIdle, HandleSignRefused, HandleSign, HandleSignAgain, SubmitSigned,
           HandlePending, HandleFailed, HandleReady, SaveComplete, GateSettles, queueVars
  <2>2. UNCHANGED storeVars \/ \E next, out : Save("splice", next, out)
    BY DEF HandleIdle, HandleSignRefused, HandleSign, HandleSignAgain, SubmitSigned,
           HandlePending, HandleFailed, HandleReady, SaveComplete, PutSplice
  <2> QED
    BY <2>1, <2>2 DEF handleFrame, clientVars, storeVars
<1>2. sess = "up"
  <2>1. CASE \E t : HandleStart(t)
    BY <2>1 DEF HandleStart
  <2>2. CASE SubmitSigned \/ SaveComplete
    BY <2>2 DEF SubmitSigned, SaveComplete, FlightInv, Jobs, SIdle
  <2> QED
    BY <2>1, <2>2 DEF HandleIdle, HandleSignRefused, HandleSign, HandleSignAgain,
       HandlePending, HandleFailed, HandleReady
<1>3. /\ gate' = gate \/ (evq # <<>> /\ Head1.t \in SpliceEvents)
      /\ \/ sjob' \notin {"submit", "rebind", "complete"}
         \/ gate' = "pending" /\ Head1.t \in SpliceEvents
  <2>1. CASE \E t \in SpliceEvents : HandleStart(t)
    <3>1. evq # <<>> /\ gate = "pending" /\ sjob = SIdle /\ Head1.t \in SpliceEvents
      BY <2>1 DEF HandleStart
    <3>2. sjob' = sjob \/ gate' = gate
          \/ SubmitSigned \/ SaveComplete
      BY DEF HandleIdle, HandleSignRefused, HandleSign, HandleSignAgain,
         HandlePending, HandleFailed, HandleReady, queueVars
    <3>3. ~SubmitSigned /\ ~SaveComplete
      BY <3>1 DEF SubmitSigned, SaveComplete, SIdle
    <3> QED
      BY <3>1, <3>2, <3>3 DEF SIdle
  <2>2. CASE SubmitSigned
    BY <2>2 DEF SubmitSigned, FlightInv, Heads, SIdle
  <2>3. CASE SaveComplete
    <3>1. sjob' = SIdle /\ (sjob = "complete" \/ UNCHANGED queueVars)
      BY <2>3 DEF SaveComplete, FromEvent
    <3> QED
      BY <3>1 DEF FlightInv, Heads, SIdle, queueVars
  <2> QED
    BY <2>1, <2>2, <2>3 DEF HandleIdle, HandleSignRefused, HandleSign, HandleSignAgain,
       HandlePending, HandleFailed, HandleReady, SpliceEvents
<1> QED
  BY <1>1, <1>2, <1>3

LEMMA HandleStep ==
  ASSUME FlightInv,
         HandleIdle \/ HandleSignRefused \/ HandleSign \/ HandleSignAgain \/ SubmitSigned
           \/ HandlePending \/ HandleFailed \/ HandleReady \/ SaveComplete
  PROVE  FlightInv'
<1>1. /\ UNCHANGED <<job, newpay, pays, owed, intents, sess, evq>>
      /\ unsaved' \in {unsaved, <<>>}
      /\ UNCHANGED <<mem, rem, behind>> \/ \E next, out : Save("splice", next, out)
      /\ sess = "up"
      /\ gate' = gate \/ (evq # <<>> /\ Head1.t \in SpliceEvents)
      /\ \/ sjob' \notin {"submit", "rebind", "complete"}
         \/ gate' = "pending" /\ Head1.t \in SpliceEvents
  BY HandleSplice
<1>2. IsSeq(unsaved)' /\ Elements(unsaved)' \subseteq Elements(unsaved)
  BY <1>1, EmptySeq DEF FlightInv, Queues
<1>3. Queues' /\ Heads' /\ \A e \in Queued' : e \in Queued
  BY <1>1, <1>2 DEF FlightInv, Queues, Heads, Queued, Head1
<1> QED
  BY <1>1, <1>3, SpliceKeeps

\* LDK and the peer take the splice further; cancelling it is one of these.
LEMMA SpliceEvent ==
  ASSUME FlightInv,
         CancelUnsigned \/ Negotiated \/ NegotiationFails \/ SignaturesExchanged \/ SpliceLocks
  PROVE  /\ UNCHANGED <<mem, rem, behind, job, newpay, pays, owed, intents, sess, gate>>
         /\ unsaved' \in {unsaved, <<>>}
         /\ sjob' = sjob \/ (sjob' = "cancel" /\ sess = "up")
         /\ UNCHANGED evq \/ \E e : e.t \in SpliceEvents /\ Emit(e)
<1>1. /\ UNCHANGED <<mem, rem, behind, job, newpay, pays, owed, intents, sess, gate>>
      /\ unsaved' \in {unsaved, <<>>}
      /\ sjob' = sjob \/ (sjob' = "cancel" /\ sess = "up")
  <2>1. CASE CancelUnsigned
    BY <2>1 DEF CancelUnsigned, clientVars, storeVars
  <2>2. CASE UNCHANGED ldkFrame
    BY <2>2 DEF ldkFrame, storeVars
  <2> QED
    BY <2>1, <2>2 DEF Negotiated, NegotiationFails, SignaturesExchanged, SpliceLocks
<1>2. UNCHANGED evq \/ \E e : e.t \in SpliceEvents /\ Emit(e)
  <2>1. PICK a, b, c, d :
          /\ a = [t |-> "sign", tx |-> ls.tx] /\ b = [t |-> "sfail"]
          /\ c = [t |-> "spending"] /\ d = [t |-> "ready"]
    OBVIOUS
  <2>2. a.t = "sign" /\ b.t = "sfail" /\ c.t = "spending" /\ d.t = "ready"
    BY <2>1
  <2>3. UNCHANGED evq \/ Emit(a) \/ Emit(b) \/ Emit(c) \/ Emit(d)
    BY <2>1 DEF CancelUnsigned, Negotiated, NegotiationFails, SignaturesExchanged, SpliceLocks
  <2> QED
    BY <2>2, <2>3 DEF SpliceEvents
<1> QED
  BY <1>1, <1>2

LEMMA SpliceEventStep ==
  ASSUME FlightInv,
         CancelUnsigned \/ Negotiated \/ NegotiationFails \/ SignaturesExchanged \/ SpliceLocks
  PROVE  FlightInv'
<1>1. /\ UNCHANGED <<mem, rem, behind, job, newpay, pays, owed, intents, sess, gate>>
      /\ unsaved' \in {unsaved, <<>>}
      /\ sjob' = sjob \/ (sjob' = "cancel" /\ sess = "up")
      /\ UNCHANGED evq \/ \E e : e.t \in SpliceEvents /\ Emit(e)
  BY SpliceEvent
<1>2. IsSeq(unsaved)' /\ Elements(unsaved)' \subseteq Elements(unsaved)
  BY <1>1, EmptySeq DEF FlightInv, Queues
<1>3. CASE UNCHANGED evq
  <2>1. Queues' /\ Heads' /\ \A e \in Queued' : e \in Queued
    BY <1>1, <1>3, QueueStays
  <2> QED
    BY <1>1, <2>1, SpliceKeeps
<1>4. CASE \E e : e.t \in SpliceEvents /\ Emit(e)
  <2>1. PICK e : e.t \in SpliceEvents /\ Emit(e)
    BY <1>4
  <2>2. evq' = Append(evq, e) /\ IsSeq(evq)
    BY <2>1 DEF Emit, FlightInv, Queues
  <2>3. /\ IsSeq(evq)' /\ Elements(evq)' = Elements(evq) \cup {e}
        /\ evq' # <<>> /\ (evq # <<>> => evq'[1] = evq[1])
    BY <2>2, Appended
  <2>4. Queues' /\ Heads' /\ \A d \in Queued' : d \in Queued \/ d = e
    BY <1>1, <1>2, <2>3 DEF FlightInv, Queues, Heads, Queued, Head1
  <2> QED
    BY <1>1, <2>1, <2>4, SpliceKeeps
<1> QED
  BY <1>1, <1>3, <1>4

\* rebindSplicedChannel: one save of the client, its intent and inbox empty.
LEMMA RebindStep ==
  ASSUME FlightInv, Rebind
  PROVE  FlightInv'
<1>1. /\ UNCHANGED <<job, newpay, pays, owed, intents, sess, evq, unsaved>>
      /\ sess = "up" /\ sjob \in {"rebind", "tickrebind"}
  BY DEF Rebind, Start, JobThrows, GateSettles, queueVars
<1>2. sjob' \in {SIdle, "complete", "tickcomplete"}
      /\ (sjob' = "complete" => sjob = "rebind" /\ gate' = gate)
      /\ (gate' = gate \/ gate' = "none")
  BY DEF Rebind, JobThrows, GateSettles, queueVars, FromEvent, SIdle
<1>3. /\ gate' # "none" => evq # <<>>
      /\ sjob' \notin {"submit", "rebind"}
      /\ sjob' = "complete" => gate' = "pending" /\ Head1.t \in SpliceEvents
  BY <1>2 DEF FlightInv, Heads, SIdle
<1>4. Queues' /\ Heads' /\ Queued' = Queued
  BY <1>1, <1>3 DEF FlightInv, Queues, Heads, Queued, Head1
<1>5. CASE UNCHANGED storeVars
  <2>1. UNCHANGED <<mem, rem, behind>>
    BY <1>5 DEF storeVars
  <2> QED
    BY <1>1, <1>4, <2>1, SpliceKeeps
<1>6. CASE ~UNCHANGED storeVars
  <2>1. PICK next, out : next = [S EXCEPT !.pos.chan = chan.id] /\ Save("stable", next, out)
    BY <1>6 DEF Rebind, Put
  <2>2. IsState(S)
    BY DEF FlightInv, Stores, S
  <2>3. DOMAIN next = DOMAIN S /\ next.pend = S.pend /\ next.inbox = S.inbox
    BY <2>1, <2>2 DEF IsState, Fields
  <2>4. IsState(next) /\ SamePending(S, next)
    BY <2>2, <2>3, StateFields
  <2>5. Jobs'
    BY <1>1 DEF FlightInv, Jobs
  <2>6. Sending' => Sending /\ job'.in = job.in
    BY <1>1 DEF Sending
  <2> QED
    BY <1>1, <1>4, <2>1, <2>3, <2>4, <2>5, <2>6, SaveKeeps
<1> QED
  BY <1>5, <1>6

\* allocateAll: marked first, then traded like any other balance.
LEMMA AllocateStep ==
  ASSUME FlightInv, AllocateAll \/ AllocAttempted
  PROVE  FlightInv'
<1>1. DOMAIN Idle = {"k", "pc", "in"} /\ Idle.pc = ""
  BY DEF Idle
<1>2. /\ UNCHANGED <<newpay, pays, owed, intents, sess, evq, gate, unsaved>>
      /\ UNCHANGED <<mem, rem, behind>> \/ \E next, out : Save("splice", next, out)
  <2>1. CASE AllocateAll
    BY <2>1 DEF AllocateAll, storeVars, queueVars
  <2>2. CASE AllocAttempted
    BY <2>2 DEF AllocAttempted, PutSplice, queueVars
  <2> QED
    BY <2>1, <2>2
<1>3. sess = "up" /\ job'.pc \in {"", "before", "quoted"} /\ DOMAIN job' = {"k", "pc", "in"}
      /\ sjob' \in {"alloc", SIdle}
  <2>1. CASE AllocateAll
    <3>1. sess = "up" /\ job' = [Idle EXCEPT !.k = "alloc", !.pc = "before"] /\ sjob' = "alloc"
      BY <2>1 DEF AllocateAll, Start
    <3> QED
      BY <1>1, <3>1
  <2>2. CASE AllocAttempted
    <3>1. sjob = "alloc" /\ job.pc = "before"
          /\ \/ job' = [job EXCEPT !.pc = "quoted"] /\ sjob' = sjob
             \/ job' = Idle /\ sjob' = SIdle
      BY <2>2 DEF AllocAttempted
    <3>2. sess = "up" /\ DOMAIN job = {"k", "pc", "in"}
      BY <1>1, <3>1 DEF FlightInv, Jobs
    <3>3. DOMAIN job' = {"k", "pc", "in"} /\ job'.pc \in {"", "quoted"}
      BY <1>1, <3>1, <3>2
    <3> QED
      BY <3>1, <3>2, <3>3
  <2> QED
    BY <2>1, <2>2
<1>4. ~Sending' /\ Jobs' /\ sjob' \notin {"submit", "rebind", "complete"}
  BY <1>2, <1>3 DEF Sending, Jobs, SIdle
<1>5. Stores' /\ UNCHANGED Stored
  BY <1>2, SpliceSave, StoresStay DEF FlightInv
<1>6. Apart' /\ Alive' \subseteq Alive
  BY <1>2, <1>4, StillAlive
<1>7. Queues' /\ Heads' /\ Queued' = Queued
  BY <1>2, <1>4 DEF FlightInv, Queues, Heads, Queued, Head1
<1> QED
  BY <1>2, <1>4, <1>5, <1>6, <1>7, Keeps DEF SamePending, Letters

LEMMA AllocTradeStep ==
  ASSUME FlightInv, AllocTrade
  PROVE  FlightInv'
<1>1. Idle.pc = "" /\ DOMAIN Idle = {"k", "pc", "in"}
  BY DEF Idle
<1>2. sess = "up" /\ ~Sending
  BY <1>1 DEF AllocTrade, FlightInv, Jobs, Sending
<1>3. CASE Quotable(S, 1)
  <2>1. ~HasPending(S)
    BY <1>3 DEF Quotable
  <2>2. SavePending("alloc", NewIntent("trade", 1, Backing(S, 1), 0), <<"splice", P.tx>>)
        /\ UNCHANGED sjob
    BY <1>3 DEF AllocTrade
  <2> QED
    BY <1>2, <2>1, <2>2, SavePendingStep
<1>4. CASE ~Quotable(S, 1)
  <2>1. /\ UNCHANGED <<mem, rem, behind, newpay, pays, owed, intents, sess, evq, gate, unsaved>>
        /\ job' = Idle /\ sjob' = SIdle
    BY <1>4 DEF AllocTrade, storeVars, frame
  <2>2. ~Sending' /\ Jobs' /\ sjob' \notin {"submit", "rebind", "complete"}
    BY <1>1, <2>1 DEF Sending, Jobs, SIdle
  <2>3. Stores' /\ UNCHANGED Stored
    BY <2>1, StoresStay DEF FlightInv
  <2>4. Apart' /\ Alive' \subseteq Alive
    BY <2>1, <2>2, StillAlive
  <2>5. Queues' /\ Heads' /\ Queued' = Queued
    BY <2>1, <2>2 DEF FlightInv, Queues, Heads, Queued, Head1
  <2> QED
    BY <2>1, <2>2, <2>3, <2>4, <2>5, Keeps DEF SamePending, Letters
<1> QED
  BY <1>3, <1>4

-----------------------------------------------------------------------------
(* Sessions.                                                               *)

\* A crash forgets the jobs and the keysends LDK had not stored.
LEMMA CrashStep ==
  ASSUME FlightInv, CrashAll
  PROVE  FlightInv'
<1>1. /\ UNCHANGED <<mem, rem, behind, pays, owed, intents>>
      /\ newpay' = {} /\ job' = Idle /\ sjob' = SIdle /\ gate' = "none"
      /\ evq' = unsaved \o evq /\ unsaved' = <<>>
  BY DEF CrashAll, Crash, ReplayAll, storeVars
<1>2. DOMAIN Idle = {"k", "pc", "in"} /\ Idle.pc = ""
  BY DEF Idle
<1>3. ~Sending' /\ Jobs'
  BY <1>1, <1>2 DEF Sending, Jobs
<1>4. Stores' /\ UNCHANGED Stored
  BY <1>1, StoresStay DEF FlightInv
<1>5. Apart' /\ Alive' \subseteq Alive
  BY <1>1, <1>3 DEF FlightInv, Apart, Alive, Flight
<1>6. IsSeq(unsaved \o evq) /\ Elements(unsaved \o evq) = Elements(unsaved) \cup Elements(evq)
  BY Joined DEF FlightInv, Queues
<1>7. Queues' /\ Heads' /\ Queued' = Queued
  BY <1>1, <1>6, EmptySeq DEF Queues, Heads, Queued, SIdle
<1> QED
  BY <1>1, <1>3, <1>4, <1>5, <1>7, Keeps DEF SamePending, Letters

\* The next session opens, and loads what VSS has.
LEMMA OpenStep ==
  ASSUME FlightInv, OpenAll \/ StartAll
  PROVE  FlightInv'
<1>1. /\ UNCHANGED <<rem, job, newpay, pays, owed, intents, sjob, evq, gate, unsaved>>
      /\ sess \in {"off", "recovering"}
      /\ UNCHANGED <<mem, behind>> \/ (mem' = rem /\ behind' = {})
  BY DEF OpenAll, StartAll, Open, StartRuntime, Load, storeVars, queueVars, clientVars
<1>2. Stores' /\ UNCHANGED Stored
  BY <1>1 DEF FlightInv, Stores, Mirror, IsState, Stored
<1>3. Apart' /\ Alive' \subseteq Alive
  BY <1>1, StillAlive DEF Sending
<1>4. Jobs'
  BY <1>1 DEF FlightInv, Jobs
<1>5. Queues' /\ Heads' /\ Queued' = Queued /\ Letters' = Letters
  BY <1>1, <1>2 DEF FlightInv, Queues, Heads, Queued, Head1, Letters
<1> QED
  BY <1>1, <1>2, <1>3, <1>4, <1>5, Keeps DEF SamePending

LEMMA FlightInit ==
  ASSUME SystemInit
  PROVE  FlightInv
<1>1. /\ DOMAIN InitialState = Fields /\ DOMAIN InitialState.pend = IntentFields
      /\ InitialState.inbox = <<>>
  <2>1. InitialState.pend = NoIntent /\ DOMAIN InitialState = Fields
        /\ InitialState.inbox = <<>>
    BY DEF InitialState, Fields
  <2>2. DOMAIN NoIntent = IntentFields
    BY DEF NoIntent, IntentFields
  <2> QED
    BY <2>1, <2>2
<1>2. "stable" \in Owners
  BY DEF Owners
<1>3. /\ mem = [o \in Owners |-> mem[o]] /\ rem = mem /\ mem["stable"] = InitialState
  BY <1>2 DEF SystemInit, StoreInit
<1>4. Stores /\ Stored = InitialState
  BY <1>1, <1>3, EmptySeq DEF Stores, IsState, Mirror, Stored
<1>5. /\ evq = <<>> /\ unsaved = <<>> /\ gate = "none" /\ sess = "recovering"
      /\ newpay = {} /\ pays = {} /\ owed = {} /\ intents = 0 /\ job = Idle /\ sjob = SIdle
  BY DEF SystemInit, StoreInit, ClientInit, SpliceInit
<1>6. DOMAIN Idle = {"k", "pc", "in"} /\ Idle.pc = ""
  BY DEF Idle
<1>7. ~Sending /\ Flight = {} /\ Alive = {}
  BY <1>5, <1>6 DEF Sending, Flight, Alive
<1>8. Apart /\ Alike
  BY <1>5, <1>7 DEF Apart, Alike
<1>9. Queues /\ Queued = {} /\ Letters = {}
  BY <1>1, <1>4, <1>5, EmptySeq DEF Queues, Queued, Letters
<1>10. Replies /\ Heads /\ Jobs
  BY <1>5, <1>6, <1>9 DEF Replies, Heads, Jobs, SIdle
<1> QED
  BY <1>4, <1>5, <1>8, <1>9, <1>10 DEF FlightInv

LEMMA FlightStep ==
  ASSUME FlightInv, [SystemNext]_allVars
  PROVE  FlightInv'
<1>1. CASE ClientNext /\ UNCHANGED spliceVars
  BY <1>1, SettingsStep, JobStep, TradeStep, WithdrawStep, KeysendStep, EventStep,
     InboxApplyStep, InboxRemoveStep, DeliverStep, PaymentEndsStep, ProviderStep
  DEF ClientNext
<1>2. CASE SpliceNext
  BY <1>2, QuietSpliceStep, HandleStep, SpliceEventStep, RebindStep, AllocateStep,
     AllocTradeStep, DeliverStep
  DEF SpliceNext
<1>3. CASE CrashAll \/ OpenAll \/ StartAll
  BY <1>3, CrashStep, OpenStep
<1>4. CASE UNCHANGED allVars
  <2>1. UNCHANGED <<mem, rem, behind, job, newpay, pays, owed, intents, sess, evq, gate,
                    unsaved, sjob>>
    BY <1>4 DEF allVars, storeVars, queueVars, clientVars, spliceVars
  <2>2. Queues' /\ Heads' /\ \A e \in Queued' : e \in Queued
    BY <2>1, QueueStays
  <2> QED
    BY <2>1, <2>2, SpliceKeeps
<1> QED
  BY <1>1, <1>2, <1>3, <1>4 DEF SystemNext

(***************************************************************************)
(* After any crash the wallet knows what it sent: every keysend LDK holds  *)
(* (sendStableKeysend), stored or not, and every trade the provider still  *)
(* has to answer is the pending intent of the state StableStore has in     *)
(* VSS, whatever the bounds, the faults and the splice controller do.      *)
(***************************************************************************)
THEOREM FlightRemembered == System => []InFlightRemembered
<1>1. SystemInit => FlightInv
  BY FlightInit
<1>2. FlightInv /\ [SystemNext]_allVars => FlightInv'
  BY FlightStep
<1>3. FlightInv => InFlightRemembered
  BY DEF FlightInv, Alike, Alive, Flight, Stored, InFlightRemembered
<1> QED
  BY <1>1, <1>2, <1>3, PTL DEF System

-----------------------------------------------------------------------------
(* Where a provider's payment is: in an event, in the inbox, or over.      *)

PosFields == {"chan", "target", "backing", "sync", "receipts"}
Positions == DOMAIN S.pos = PosFields /\ DOMAIN Stored.pos = PosFields

\* The payments of events LDK has still to deliver, and all that may come back.
News(q) == {e.m : e \in {f \in Elements(q) : f.t = "recv"}}
Ahead == News(evq)
Held == Elements(S.inbox)
Known == Ahead \cup News(unsaved) \cup Letters \cup Held

\* A payment has one identity, and came over a channel.
Identities ==
  /\ msgs \in Nat /\ provider.ver \in Nat
  /\ \A m \in Known : m.pid \in 1 .. msgs /\ m.chan # 0 /\ m.ver \in Nat
  /\ \A a, b \in Known : a.pid = b.pid => a = b

Concluded(m) == EffectOf(m) \in applied \/ m.pid \in dropped
Kept(m) ==
  \/ m.kind = "first" /\ Stored.first \in {"received", "attempted"}
  \/ m \in Letters
  \/ Concluded(m)

\* A receipt is of a payment that took effect.
Shown(r, effects) == r[1] \in 1 .. msgs /\ \A m \in Known : m.pid = r[1] => EffectOf(m) \in effects
Effective(r) == Shown(r, applied)
Receipts == \A r \in S.pos.receipts \cup Stored.pos.receipts : Effective(r)

\* What memory still has and VSS has not, and what a job removes, is over.
Loose == sess = "up" => \A m \in Ahead \cap Held : m \in Letters \/ Concluded(m)
Removing ==
  job.pc = "remove" =>
    job.in.id \in 1 .. msgs /\ \A m \in Ahead : m.pid = job.in.id => Concluded(m)
NoFirst == \A m \in Letters \cup Held : m.kind # "first"
Answered == gate = "done" /\ Head1.t = "recv" => Kept(Head1.m)

AckInv ==
  /\ Positions /\ Identities /\ OneEvent(unsaved \o evq)
  /\ Receipts /\ Loose /\ Removing /\ NoFirst /\ Answered

\* The head of the queue is one of the payments ahead.
LEMMA HeadAhead ==
  ASSUME FlightInv, evq # <<>>, Head1.t = "recv"
  PROVE  Head1.m \in Ahead
<1>1. Head1 \in Elements(evq)
  BY Tailed DEF FlightInv, Queues, Head1
<1> QED
  BY <1>1 DEF Ahead, News

\* What the steps that receive no new payment keep.
LEMMA SameNews ==
  ASSUME AckInv, UNCHANGED <<msgs, provider>>, Known' \subseteq Known, applied \subseteq applied'
  PROVE  Identities' /\ \A r : Effective(r) => Effective(r)'
  BY DEF AckInv, Identities, Effective, Shown

\* A step that leaves the client's state alone.
LEMMA AckStill ==
  ASSUME FlightInv, AckInv, UNCHANGED <<msgs, provider, S, Stored>>,
         applied \subseteq applied', dropped \subseteq dropped',
         Ahead' \subseteq Ahead, Known' \subseteq Known, OneEvent(unsaved \o evq)',
         sess' = sess, Removing', Answered'
  PROVE  AckInv'
<1>1. Identities' /\ \A r : Effective(r) => Effective(r)'
  BY SameNews
<1>2. \A m : Concluded(m) => Concluded(m)'
  BY DEF Concluded
<1>3. Held' = Held /\ Letters' = Letters
  BY DEF Held, Letters
<1>4. Positions' /\ Receipts' /\ NoFirst'
  BY <1>1, <1>3 DEF AckInv, Positions, Receipts, NoFirst
<1>5. Loose'
  BY <1>2, <1>3 DEF AckInv, Loose
<1> QED
  BY <1>1, <1>4, <1>5 DEF AckInv

\* The stored manager may catch up: what is left is still in line.
LEMMA Caught ==
  ASSUME FlightInv, AckInv, unsaved' \in {unsaved, <<>>}
  PROVE  /\ IsSeq(unsaved)' /\ News(unsaved)' \subseteq News(unsaved)
         /\ OneEvent(unsaved' \o evq)
<1>1. IsSeq(unsaved) /\ IsSeq(evq) /\ OneEvent(unsaved \o evq)
  BY DEF FlightInv, Queues, AckInv
<1>2. IsSeq(unsaved)' /\ Elements(unsaved)' \subseteq Elements(unsaved)
  BY <1>1, EmptySeq
<1>3. OneEvent(evq) /\ <<>> \o evq = evq
  BY <1>1, OneEventSuffix, JoinedEmpty
<1> QED
  BY <1>1, <1>2, <1>3 DEF News

\* A step that leaves the client's state and the queue of events alone.
LEMMA AckQuiet ==
  ASSUME FlightInv, AckInv, UNCHANGED S, UNCHANGED Stored,
         UNCHANGED <<msgs, provider, applied, dropped, sess, evq>>, unsaved' \in {unsaved, <<>>},
         gate' \in {gate, "none"} \/ (evq # <<>> /\ Head1.t # "recv"),
         UNCHANGED job \/ job'.pc # "remove"
  PROVE  AckInv'
<1>1. Ahead' = Ahead /\ Held' = Held /\ Letters' = Letters
  BY DEF Ahead, News, Elements, Held, Letters
<1>2. Known' \subseteq Known /\ OneEvent(unsaved \o evq)'
  BY <1>1, Caught DEF Known
<1>3. Removing'
  BY <1>1 DEF AckInv, Removing, Concluded
<1>4. Answered'
  BY <1>1 DEF AckInv, Answered, Kept, Concluded, Head1
<1> QED
  BY <1>1, <1>2, <1>3, <1>4, AckStill

\* LDK reports something else than a received payment.
LEMMA AckEmit ==
  ASSUME FlightInv, AckInv, UNCHANGED S, UNCHANGED Stored,
         UNCHANGED <<msgs, provider, applied, dropped, sess, gate, job>>,
         unsaved' \in {unsaved, <<>>},
         NEW e, Emit(e), e.t # "recv"
  PROVE  AckInv'
<1>1. evq' = Append(evq, e) /\ IsSeq(evq)
  BY DEF Emit, FlightInv, Queues
<1>2. Elements(evq)' = Elements(evq) \cup {e} /\ (evq # <<>> => evq'[1] = evq[1])
  BY <1>1, Appended
<1>3. Ahead' = Ahead /\ Held' = Held /\ Letters' = Letters
  BY <1>2 DEF Ahead, News, Held, Letters, Elements
<1>4. Known' \subseteq Known
  BY <1>3, Caught DEF Known
<1>5. OneEvent(unsaved \o evq)'
  <2>1. IsSeq(unsaved)' /\ OneEvent(unsaved' \o evq)
    BY Caught
  <2>2. unsaved' \o evq' = Append(unsaved' \o evq, e)
    BY <1>1, <2>1, JoinedAppend
  <2>3. IsSeq(unsaved' \o evq)
    BY <1>1, <2>1, Joined
  <2> QED
    BY <2>1, <2>2, <2>3, OneEventAppend
<1>6. Removing'
  BY <1>3 DEF AckInv, Removing, Concluded
<1>7. Answered'
  BY <1>2, <1>3 DEF AckInv, Answered, Kept, Concluded, Head1, FlightInv, Heads
<1> QED
  BY <1>3, <1>4, <1>5, <1>6, <1>7, AckStill

\* A save of the client that counts is one from the state VSS has.
LEMMA Written ==
  ASSUME FlightInv, NEW next, NEW out, Save("stable", next, out)
  PROVE  \/ out = "refused" /\ S' = S /\ Stored' = Stored
         \/ out # "refused" /\ Stored = S /\ Stored' = next /\ S' \in {S, next}
<1>1. "stable" \in Owners
  BY DEF Owners
<1>2. /\ rem' = IF out = "refused" THEN rem ELSE [rem EXCEPT !["stable"] = next]
      /\ mem' = IF out \in {"ok", "local"} THEN [mem EXCEPT !["stable"] = next] ELSE mem
      /\ "stable" \in behind => out = "refused"
  BY DEF Save, Saves
<1>3. CASE out = "refused"
  BY <1>2, <1>3 DEF S, Stored
<1>4. CASE out # "refused"
  <2>1. Stored = S
    BY <1>2, <1>4 DEF FlightInv, Stores, Mirror, S, Stored
  <2>2. rem'["stable"] = next
    BY <1>1, <1>2, <1>4 DEF FlightInv, Stores
  <2>3. mem'["stable"] \in {mem["stable"], next}
    BY <1>1, <1>2, <1>4 DEF FlightInv, Stores
  <2> QED
    BY <1>4, <2>1, <2>2, <2>3 DEF S, Stored
<1> QED
  BY <1>3, <1>4

\* A save of the client.  What it takes from the inbox is over.
LEMMA AckSave ==
  ASSUME FlightInv, AckInv, NEW next, NEW out, Save("stable", next, out),
         UNCHANGED <<msgs, provider, evq, unsaved, sess>>,
         applied \subseteq applied', dropped \subseteq dropped',
         DOMAIN next.pos = PosFields,
         \A m \in Elements(next.inbox) : m \in Known /\ m.kind # "first",
         out # "refused" =>
           \A r \in next.pos.receipts : r \in S.pos.receipts \/ Shown(r, applied'),
         \A m \in Held \cap Ahead : m \in Elements(next.inbox) \/ Concluded(m)',
         S.first \in {"received", "attempted"} => next.first \in {"received", "attempted"},
         Removing', gate' = gate \/ Answered'
  PROVE  AckInv'
<1>1. \/ out = "refused" /\ S' = S /\ Stored' = Stored
      \/ out # "refused" /\ Stored = S /\ Stored' = next /\ S' \in {S, next}
  BY Written
<1>2. Letters' \subseteq Letters \cup Elements(next.inbox)
      /\ Held' \subseteq Held \cup Elements(next.inbox)
  BY <1>1 DEF Letters, Held
<1>3. Ahead' = Ahead /\ News(unsaved)' = News(unsaved) /\ OneEvent(unsaved \o evq)'
  BY DEF Ahead, News, Elements, AckInv, OneEvent
<1>4. Known' \subseteq Known
  BY <1>2, <1>3 DEF Known
<1>5. Identities' /\ \A r : Effective(r) => Effective(r)'
  BY <1>4, SameNews
<1>6. \A m : Concluded(m) => Concluded(m)'
  BY DEF Concluded
<1>7. Positions'
  BY <1>1 DEF AckInv, Positions
<1>8. NoFirst'
  BY <1>2 DEF AckInv, NoFirst
<1>9. Receipts'
  <2>1. \A r : Shown(r, applied') => Effective(r)'
    BY <1>4 DEF Effective, Shown
  <2> QED
    BY <1>1, <1>5, <2>1 DEF AckInv, Receipts
<1>10. Loose'
  <2>1. SUFFICES ASSUME sess' = "up", NEW m \in Ahead, m \in Held'
                 PROVE  m \in Letters' \/ Concluded(m)'
    BY <1>3 DEF Loose
  <2>2. CASE S' = S
    BY <1>1, <1>6, <2>1, <2>2 DEF AckInv, Loose, Letters, Held
  <2>3. CASE S' # S
    BY <1>1, <2>1, <2>3 DEF Letters, Held
  <2> QED
    BY <2>2, <2>3
<1>11. Answered'
  <2>1. SUFFICES ASSUME gate' = gate, gate = "done", Head1.t = "recv"
                 PROVE  Kept(Head1.m)'
    BY DEF Answered, Head1
  <2>2. Kept(Head1.m) /\ Head1.m \in Ahead /\ Head1' = Head1
    BY <2>1, HeadAhead DEF AckInv, Answered, FlightInv, Heads, Head1
  <2>3. CASE Stored' = Stored
    BY <1>6, <2>2, <2>3 DEF Kept, Letters
  <2>4. CASE Stored' # Stored
    BY <1>1, <1>6, <2>2, <2>4 DEF Kept, Letters, Held
  <2> QED
    BY <2>3, <2>4
<1> QED
  BY <1>3, <1>5, <1>7, <1>8, <1>9, <1>10, <1>11 DEF AckInv

\* The provider pays: a payment with a new identity.
LEMMA AckNews ==
  ASSUME FlightInv, AckInv, UNCHANGED S, UNCHANGED Stored,
         UNCHANGED <<applied, dropped, sess, gate, job, unsaved>>,
         NEW m, ProviderPays(m), m.pid = msgs + 1, m.chan = chan.id, m.ver \in Nat,
         provider.ver \in Nat => provider'.ver \in Nat
  PROVE  AckInv'
<1>1. PICK e : e = [t |-> "recv", m |-> m]
  OBVIOUS
<1>2. e.t = "recv" /\ e.m = m /\ evq' = Append(evq, e) /\ IsSeq(evq) /\ IsSeq(unsaved)
      /\ msgs' = msgs + 1 /\ msgs \in Nat
  BY <1>1 DEF ProviderPays, Emit, FlightInv, Queues, AckInv, Identities
<1>3. Elements(evq)' = Elements(evq) \cup {e} /\ (evq # <<>> => evq'[1] = evq[1])
  BY <1>2, Appended
<1>4. Ahead' = Ahead \cup {m} /\ Held' = Held /\ Letters' = Letters
      /\ News(unsaved)' = News(unsaved)
  BY <1>2, <1>3 DEF Ahead, News, Held, Letters, Elements
<1>5. Known' = Known \cup {m} /\ \A n \in Known : n.pid \in 1 .. msgs
  BY <1>4 DEF Known, AckInv, Identities
<1>6. Identities'
  <2>1. \A n \in Known' : n.pid \in 1 .. msgs' /\ n.chan # 0 /\ n.ver \in Nat
    <3>1. chan.id # 0 /\ m.pid \in 1 .. msgs'
      BY <1>2 DEF ProviderPays
    <3>2. \A n \in Known : n.pid \in 1 .. msgs'
      BY <1>2, <1>5
    <3> QED
      BY <1>5, <3>1, <3>2 DEF AckInv, Identities
  <2>2. ASSUME NEW a \in Known', NEW b \in Known', a.pid = b.pid
        PROVE  a = b
    BY <1>2, <1>5, <2>2 DEF AckInv, Identities
  <2> QED
    BY <1>2, <2>1, <2>2 DEF AckInv, Identities
<1>7. \A r : Effective(r) => Effective(r)'
  <2>1. ASSUME NEW r, Effective(r)
        PROVE  Effective(r)'
    <3>1. r[1] \in 1 .. msgs' /\ r[1] # m.pid
      BY <1>2, <2>1 DEF Effective, Shown
    <3> QED
      BY <1>5, <2>1, <3>1 DEF Effective, Shown
  <2> QED
    BY <2>1
<1>8. OneEvent(unsaved \o evq)'
  <2>1. IsSeq(unsaved \o evq) /\ OneEvent(unsaved \o evq)
        /\ Elements(unsaved \o evq) = Elements(unsaved) \cup Elements(evq)
    BY <1>2, Joined DEF AckInv
  <2>2. \A f \in Elements(unsaved \o evq) : f.t = "recv" => f.m \in Known
    BY <2>1 DEF Known, Ahead, News
  <2>3. \A f \in Elements(unsaved \o evq) : f.t = "recv" => f.m.pid # e.m.pid
    <3>1. m.pid \notin 1 .. msgs
      BY <1>2
    <3> QED
      BY <1>2, <1>5, <2>2, <3>1
  <2>4. unsaved' \o evq' = Append(unsaved \o evq, e)
    BY <1>2, JoinedAppend
  <2> QED
    BY <2>1, <2>3, <2>4, OneEventAppend
<1>9. Positions' /\ Receipts' /\ NoFirst'
  BY <1>4, <1>7 DEF AckInv, Positions, Receipts, NoFirst
<1>10. m \notin Held /\ \A n \in Ahead : Concluded(n) => Concluded(n)'
  BY <1>2, <1>5 DEF Known, Concluded
<1>11. Loose'
  BY <1>4, <1>10 DEF AckInv, Loose
<1>12. Removing'
  <2>1. SUFFICES ASSUME job.pc = "remove"
                 PROVE  /\ job.in.id \in 1 .. msgs'
                        /\ \A n \in Ahead' : n.pid = job.in.id => Concluded(n)'
    BY DEF Removing
  <2>2. job.in.id \in 1 .. msgs /\ m.pid # job.in.id
    BY <1>2, <2>1 DEF AckInv, Removing
  <2>3. job.in.id \in 1 .. msgs'
    BY <1>2, <2>2
  <2> QED
    BY <1>4, <1>10, <2>1, <2>2, <2>3 DEF AckInv, Removing
<1>13. Answered'
  BY <1>3, <1>4, <1>10 DEF AckInv, Answered, Kept, Concluded, Head1, FlightInv, Heads
<1> QED
  BY <1>6, <1>8, <1>9, <1>11, <1>12, <1>13 DEF AckInv

LEMMA ProviderAck ==
  ASSUME FlightInv, AckInv, ProviderAnswers \/ ProviderInitiates \/ FirstReceivePaid
  PROVE  AckInv'
<1>1. UNCHANGED <<mem, rem, applied, dropped, sess, gate, job, unsaved>>
  BY DEF ProviderAnswers, ProviderInitiates, FirstReceivePaid, envFrame, storeVars
<1>2. UNCHANGED S /\ UNCHANGED Stored
  BY <1>1 DEF S, Stored
<1>3. PICK kind, corr, ver, target, amt, sid :
        /\ ProviderPays(Msg(kind, corr, ver, target, amt, sid))
        /\ \/ provider' = provider /\ ver = 0
           \/ provider'.ver = provider.ver + 1 /\ ver = provider.ver + 1
  <2>1. CASE ProviderAnswers
    <3>1. PICK in :
            \/ /\ provider' = [ver |-> provider.ver + 1, target |-> in.target]
               /\ ProviderPays(Msg("sync", in.id, provider.ver + 1, in.target, 0, 0))
            \/ ProviderPays(Msg("rejected", in.id, 0, 0, 0, 0)) /\ UNCHANGED provider
      BY <2>1 DEF ProviderAnswers
    <3> QED
      BY <3>1
  <2>2. CASE ProviderInitiates
    <3>1. PICK sid, t :
            \/ /\ ProviderPays(Msg("settlement", 0, 0, provider.target, 1, sid))
               /\ UNCHANGED provider
            \/ /\ provider' = [ver |-> provider.ver + 1, target |-> t]
               /\ ProviderPays(Msg("sync", 0, provider.ver + 1, t, 0, 0))
      BY <2>2 DEF ProviderInitiates
    <3> QED
      BY <3>1
  <2>3. CASE FirstReceivePaid
    BY <2>3 DEF FirstReceivePaid
  <2> QED
    BY <2>1, <2>2, <2>3
<1>4. PICK m : m = Msg(kind, corr, ver, target, amt, sid)
  OBVIOUS
<1>5. m.pid = msgs + 1 /\ m.chan = chan.id /\ m.ver = ver
  BY <1>4 DEF Msg
<1>6. provider.ver \in Nat => ver \in Nat /\ provider'.ver \in Nat
  BY <1>3
<1>7. provider.ver \in Nat
  BY DEF AckInv, Identities
<1> QED
  BY <1>1, <1>2, <1>3, <1>4, <1>5, <1>6, <1>7, AckNews

\* LDK delivers its head: what it drops is not needed any more.
LEMMA DeliverAck ==
  ASSUME FlightInv, AckInv, (DeliverPayment /\ UNCHANGED spliceVars) \/ DeliverSplice
  PROVE  AckInv'
<1>1. /\ UNCHANGED <<mem, rem, sess, job, msgs, provider, applied>> /\ evq # <<>>
      /\ \/ /\ gate = "none" /\ gate' = "pending" /\ UNCHANGED <<evq, unsaved, dropped>>
         \/ /\ Acknowledge
            /\ dropped' = IF Head1.t = "recv" THEN dropped \ {Head1.m.pid} ELSE dropped
  <2>1. CASE DeliverPayment
    BY <2>1 DEF DeliverPayment, storeVars
  <2>2. CASE DeliverSplice
    BY <2>2 DEF DeliverSplice, storeVars, clientVars, SpliceEvents
  <2> QED
    BY <2>1, <2>2
<1>2. UNCHANGED S /\ UNCHANGED Stored
  BY <1>1 DEF S, Stored
<1>3. Held' = Held /\ Letters' = Letters
  BY <1>2 DEF Held, Letters
<1>4. CASE gate' = "pending" /\ UNCHANGED <<evq, unsaved, dropped>>
  <2>1. Ahead' = Ahead /\ Known' = Known /\ OneEvent(unsaved \o evq)'
    BY <1>3, <1>4 DEF Ahead, Known, News, Elements, AckInv, OneEvent
  <2>2. Removing' /\ Answered'
    BY <1>1, <1>4, <2>1 DEF AckInv, Removing, Answered, Concluded
  <2> QED
    BY <1>1, <1>2, <1>4, <2>1, <2>2, AckStill
<1>5. CASE /\ Acknowledge
           /\ dropped' = IF Head1.t = "recv" THEN dropped \ {Head1.m.pid} ELSE dropped
  <2>1. /\ evq' = Tail(evq) /\ unsaved' = Append(unsaved, evq[1]) /\ gate' = "none"
        /\ IsSeq(evq) /\ IsSeq(unsaved)
    BY <1>5 DEF Acknowledge, Head1, FlightInv, Queues
  <2>2. Elements(evq)' \subseteq Elements(evq) /\ evq[1] \in Elements(evq)
        /\ Elements(unsaved)' = Elements(unsaved) \cup {evq[1]}
    BY <1>1, <2>1, Tailed, Appended
  <2>3. Ahead' \subseteq Ahead /\ Known' \subseteq Known
    BY <1>3, <2>2 DEF Ahead, Known, News
  <2>4. OneEvent(unsaved \o evq)'
    BY <1>1, <2>1, MovedAlong DEF AckInv
  <2>5. ASSUME NEW m \in Ahead', Concluded(m)
        PROVE  Concluded(m)'
    <3>1. CASE Head1.t = "recv"
      <4>1. PICK f \in Elements(Tail(evq)) : f.t = "recv" /\ f.m = m
        BY <2>1 DEF Ahead, News
      <4>2. OneEvent(evq)
        BY <2>1, OneEventSuffix DEF AckInv
      <4>3. m.pid # Head1.m.pid
        BY <1>1, <2>1, <3>1, <4>1, <4>2, OneEventTail DEF Head1
      <4> QED
        BY <1>1, <1>5, <2>5, <3>1, <4>3 DEF Concluded
    <3>2. CASE Head1.t # "recv"
      BY <1>1, <1>5, <2>5, <3>2 DEF Concluded
    <3> QED
      BY <3>1, <3>2
  <2>6. Identities' /\ \A r : Effective(r) => Effective(r)'
    BY <1>1, <2>3, SameNews
  <2>7. Positions' /\ Receipts' /\ NoFirst'
    BY <1>2, <1>3, <2>6 DEF AckInv, Positions, Receipts, NoFirst
  <2>8. Loose'
    BY <1>1, <1>3, <2>3, <2>5 DEF AckInv, Loose
  <2>9. Removing'
    BY <1>1, <2>3, <2>5 DEF AckInv, Removing
  <2>10. Answered'
    BY <2>1 DEF Answered
  <2> QED
    BY <2>4, <2>6, <2>7, <2>8, <2>9, <2>10 DEF AckInv
<1> QED
  BY <1>1, <1>4, <1>5

\* A save that leaves inbox and receipts, or forgets receipts.
LEMMA AckPlain ==
  ASSUME FlightInv, AckInv, NEW next, NEW out, Save("stable", next, out),
         UNCHANGED <<msgs, provider, evq, unsaved, sess>>,
         applied \subseteq applied', dropped \subseteq dropped',
         next.inbox = S.inbox, DOMAIN next.pos = PosFields,
         next.pos.receipts \subseteq S.pos.receipts,
         S.first \in {"received", "attempted"} => next.first \in {"received", "attempted"},
         gate' \in {gate, "none"} \/ Head1.t # "recv",
         UNCHANGED job \/ job'.pc # "remove"
  PROVE  AckInv'
<1>1. \A m \in Elements(next.inbox) : m \in Known /\ m.kind # "first"
  BY DEF Known, Held, AckInv, NoFirst
<1>2. \A m \in Held \cap Ahead : m \in Elements(next.inbox)
  BY DEF Held
<1>3. Ahead' = Ahead
  BY DEF Ahead, News, Elements
<1>4. Removing'
  BY <1>3 DEF AckInv, Removing, Concluded
<1>5. gate' = gate \/ Answered'
  BY DEF Answered, Head1
<1> QED
  BY <1>1, <1>2, <1>4, <1>5, AckSave

LEMMA KnownState ==
  ASSUME FlightInv, AckInv
  PROVE  IsState(S) /\ DOMAIN S.pos = PosFields
  BY DEF FlightInv, Stores, S, AckInv, Positions

LEMMA SettingsAck ==
  ASSUME FlightInv, AckInv, Enable \/ Pause \/ PrepareFirstReceive \/ ClearClosedPosition
  PROVE  AckInv'
<1>1. IsState(S) /\ DOMAIN S.pos = PosFields
  BY KnownState
<1>2. PICK next, out :
        /\ \/ next \in {[S EXCEPT !.enabled = TRUE], [S EXCEPT !.paused = ~S.paused],
                        [S EXCEPT !.pos = NoPosition]}
           \/ next = [S EXCEPT !.enabled = TRUE, !.first = "prepared"] /\ S.first = "none"
        /\ Save("stable", next, out) /\ UNCHANGED <<unrecorded, job>>
        /\ applied \subseteq applied'
  BY DEF Enable, Pause, PrepareFirstReceive, ClearClosedPosition, SettingsChange, Put, frame,
     unrecorded
<1>3. next.inbox = S.inbox /\ (next.pos = S.pos \/ next.pos = NoPosition)
      /\ (next.first = S.first \/ S.first = "none")
  BY <1>1, <1>2 DEF IsState, Fields
<1>4. DOMAIN NoPosition = PosFields /\ NoPosition.receipts = {}
  BY DEF NoPosition, PosFields
<1>5. DOMAIN next.pos = PosFields /\ next.pos.receipts \subseteq S.pos.receipts
  BY <1>1, <1>3, <1>4
<1>6. UNCHANGED <<msgs, provider, evq, unsaved, sess, dropped, gate, job>>
  BY <1>2 DEF unrecorded
<1> QED
  BY <1>2, <1>3, <1>5, <1>6, AckPlain

LEMMA WithdrawAck ==
  ASSUME FlightInv, AckInv, SendNotReady \/ SendRejected
  PROVE  AckInv'
<1>1. IsState(S) /\ DOMAIN S.pos = PosFields
  BY KnownState
<1>2. PICK next, out : /\ next = [S EXCEPT !.pend = NoIntent] /\ Save("stable", next, out)
                       /\ job' = Idle /\ UNCHANGED frame
  BY DEF SendNotReady, SendRejected, Withdraw, Put
<1>3. next.inbox = S.inbox /\ next.pos = S.pos /\ next.first = S.first
  BY <1>1, <1>2 DEF IsState, Fields
<1>4. job'.pc # "remove" /\ UNCHANGED <<msgs, provider, evq, unsaved, sess, applied, dropped, gate>>
  BY <1>2 DEF frame, Idle
<1> QED
  BY <1>1, <1>2, <1>3, <1>4, AckPlain

LEMMA SavePendingAck ==
  ASSUME FlightInv, AckInv, NEW kind, NEW in, NEW what, SavePending(kind, in, what)
  PROVE  AckInv'
<1>1. IsState(S) /\ DOMAIN S.pos = PosFields
  BY KnownState
<1>2. PICK next, out :
        /\ next = [S EXCEPT !.pend = in,
                            !.first = IF in.kind = "trade" /\ @ = "received"
                                      THEN "attempted" ELSE @]
        /\ Save("stable", next, out) /\ Effect(out, what)
        /\ job' = (IF out = "ok" THEN [k |-> kind, pc |-> "pending", in |-> in] ELSE Idle)
  BY DEF SavePending, Put, AfterSave
<1>3. next.inbox = S.inbox /\ next.pos = S.pos /\ next.first \in {S.first, "attempted"}
  BY <1>1, <1>2 DEF IsState, Fields
<1>4. job'.pc # "remove"
  BY <1>2 DEF Idle
<1>5. applied \subseteq applied'
  BY <1>2 DEF Effect
<1>6. UNCHANGED <<msgs, provider, evq, unsaved, sess, dropped, gate>>
  BY DEF SavePending, queueVars
<1> QED
  BY <1>1, <1>2, <1>3, <1>4, <1>5, <1>6, AckPlain

LEMMA TradeAck ==
  ASSUME FlightInv, AckInv, CommitTrade \/ AutoConvert \/ SettleTick
  PROVE  AckInv'
<1>1. \E kind, in, what : SavePending(kind, in, what)
  BY DEF CommitTrade, AutoConvert, SettleTick
<1> QED
  BY <1>1, SavePendingAck

\* The payment callback: what it settles is in VSS, or had been concluded.
LEMMA EventAck ==
  ASSUME FlightInv, AckInv, EventJob
  PROVE  AckInv'
<1>1. IsState(S) /\ DOMAIN S.pos = PosFields
  BY KnownState
<1>2. /\ UNCHANGED <<job, msgs, provider, sess, evq, unsaved>> /\ sess = "up"
      /\ gate = "pending" /\ evq # <<>> /\ gate' \in {"done", "none"}
  BY DEF EventJob, Start, eventFrame, OnReceived, OnOutcome, GateSettles, FlightInv, Heads
<1>3. Ahead' = Ahead
  BY <1>2 DEF Ahead, News, Elements
<1>4. CASE Head1.t # "recv"
  <2>1. PICK out : OnOutcome(Head1, out) /\ UNCHANGED dropped
    BY <1>4 DEF EventJob
  <2>2. CASE ~Handles(Head1)
    <3>1. UNCHANGED <<mem, rem, applied>>
      BY <2>1, <2>2 DEF OnOutcome, storeVars
    <3>2. UNCHANGED S /\ UNCHANGED Stored
      BY <3>1 DEF S, Stored
    <3> QED
      BY <1>2, <1>4, <2>1, <3>1, <3>2, AckQuiet
  <2>3. CASE Handles(Head1)
    <3>1. PICK next :
            /\ next = IF Head1.t = "failed" THEN [S EXCEPT !.pend = NoIntent]
                      ELSE IF S.pend.kind = "trade" THEN [S EXCEPT !.pend.sent = TRUE]
                      ELSE [S EXCEPT !.pend = NoIntent, !.pos.backing = S.pend.backing]
            /\ Save("stable", next, out)
      BY <2>1, <2>3 DEF OnOutcome, Put
    <3>2. next.inbox = S.inbox /\ next.first = S.first
      BY <1>1, <3>1 DEF IsState, Fields
    <3>3. DOMAIN next.pos = PosFields /\ next.pos.receipts = S.pos.receipts
      <4>1. CASE next.pos = S.pos
        BY <1>1, <4>1
      <4>2. CASE next = [S EXCEPT !.pend = NoIntent, !.pos.backing = S.pend.backing]
        <5>1. PICK pos : pos = [S.pos EXCEPT !.backing = S.pend.backing]
          OBVIOUS
        <5>2. next.pos = pos
          BY <1>1, <4>2, <5>1 DEF IsState, Fields
        <5> QED
          BY <1>1, <5>1, <5>2 DEF PosFields
      <4>3. CASE next \in {[S EXCEPT !.pend = NoIntent], [S EXCEPT !.pend.sent = TRUE]}
        BY <1>1, <4>1, <4>3 DEF IsState, Fields
      <4> QED
        BY <3>1, <4>2, <4>3
    <3>4. applied \subseteq applied'
      BY <2>1, <2>3 DEF OnOutcome, Effect
    <3> QED
      BY <1>2, <1>4, <2>1, <3>1, <3>2, <3>3, <3>4, AckPlain
  <2> QED
    BY <2>2, <2>3
<1>5. CASE Head1.t = "recv"
  <2>1. PICK m, out : m = Head1.m /\ OnReceived(Head1, out) /\ UNCHANGED <<applied, twice>>
    BY <1>5 DEF EventJob
  <2>2. m \in Ahead /\ m \in Known
    BY <1>2, <1>5, <2>1, HeadAhead DEF Known
  <2>3. CASE ~Handles(Head1) \/ Received(S, m.pid) \/ chan.id # m.chan
    <3>1. /\ UNCHANGED <<mem, rem>>
          /\ dropped' = IF Received(S, m.pid) THEN dropped ELSE dropped \cup {m.pid}
      BY <2>1, <2>3 DEF OnReceived, storeVars
    <3>2. UNCHANGED S /\ UNCHANGED Stored
      BY <3>1 DEF S, Stored
    <3>3. Held' = Held /\ Letters' = Letters /\ Known' = Known
          /\ OneEvent(unsaved \o evq)' /\ dropped \subseteq dropped'
      BY <1>2, <3>1, <3>2 DEF Held, Letters, Known, Ahead, News, Elements, AckInv, OneEvent
    <3>4. Removing'
      BY <1>2, <1>3, <2>1, <3>3 DEF AckInv, Removing, Concluded
    <3>5. Kept(m)'
      <4>1. CASE ~Received(S, m.pid)
        BY <3>1, <4>1 DEF Kept, Concluded
      <4>2. CASE \E r \in S.pos.receipts : r[1] = m.pid
        BY <2>1, <2>2, <4>2 DEF AckInv, Receipts, Effective, Shown, Kept, Concluded
      <4>3. CASE \E i \in DOMAIN S.inbox : S.inbox[i].pid = m.pid
        <5>1. PICK i \in DOMAIN S.inbox : S.inbox[i].pid = m.pid
          BY <4>3
        <5>2. DOMAIN S.inbox = 1 .. Len(S.inbox)
          BY <1>1 DEF IsState, IsSeq
        <5>3. S.inbox[i] \in Held
          BY <5>1, <5>2 DEF Held, Elements
        <5>4. S.inbox[i] = m
          BY <2>2, <5>1, <5>3 DEF AckInv, Identities, Known
        <5>5. m \in Letters \/ Concluded(m)
          BY <1>2, <2>2, <5>3, <5>4 DEF AckInv, Loose
        <5> QED
          BY <2>1, <3>3, <5>5 DEF Kept, Concluded
      <4> QED
        BY <4>1, <4>2, <4>3 DEF Received
    <3>6. Answered'
      BY <1>2, <2>1, <3>5 DEF Answered, Head1
    <3> QED
      BY <1>2, <1>3, <2>1, <3>2, <3>3, <3>4, <3>6, AckStill
  <2>4. CASE ~(~Handles(Head1) \/ Received(S, m.pid) \/ chan.id # m.chan)
    <3>1. PICK keep :
            /\ keep = IF m.kind = "first" THEN [S EXCEPT !.first = "received"]
                      ELSE [S EXCEPT !.inbox = Append(@, m)]
            /\ Save("stable", keep, out) /\ UNCHANGED dropped
            /\ gate' = IF out = "ok" THEN "done" ELSE "none"
      BY <2>1, <2>4 DEF OnReceived, Put, GateSettles
    <3>2. IsSeq(S.inbox)
      BY <1>1 DEF IsState
    <3>3. Elements(Append(S.inbox, m)) = Held \cup {m}
      BY <3>2, Appended DEF Held
    <3>4. /\ keep.pos = S.pos
          /\ m.kind = "first" => keep.first = "received" /\ keep.inbox = S.inbox
          /\ m.kind # "first" => keep.first = S.first /\ keep.inbox = Append(S.inbox, m)
      BY <1>1, <3>1 DEF IsState, Fields
    <3>5. /\ \A n \in Elements(keep.inbox) : n \in Known /\ n.kind # "first"
          /\ \A n \in Held \cap Ahead : n \in Elements(keep.inbox)
          /\ m.kind # "first" => m \in Elements(keep.inbox)
      BY <2>2, <3>3, <3>4 DEF Held, Known, AckInv, NoFirst
    <3>6. Removing'
      BY <1>2, <1>3, <2>1, <3>1 DEF AckInv, Removing, Concluded
    <3>7. Answered'
      <4>1. SUFFICES ASSUME out = "ok"
                     PROVE  Kept(m)'
        BY <1>2, <2>1, <3>1 DEF Answered, Head1
      <4>2. IsState(keep)
        <5>1. IsSeq(keep.inbox)
          BY <3>2, <3>4, Appended
        <5>2. DOMAIN keep = Fields /\ keep.pend = S.pend
          BY <1>1, <3>1 DEF IsState, Fields
        <5> QED
          BY <1>1, <5>1, <5>2 DEF IsState
      <4>3. Stored' = keep
        BY <3>1, <4>1, <4>2, StableSave DEF FlightInv
      <4> QED
        BY <3>4, <3>5, <4>3 DEF Kept, Letters
    <3> QED
      BY <1>1, <1>2, <2>1, <3>1, <3>4, <3>5, <3>6, <3>7, AckSave
  <2> QED
    BY <2>3, <2>4
<1> QED
  BY <1>4, <1>5

\* applyInbox: what it takes from the inbox next took effect, or never will.
LEMMA InboxApplyAck ==
  ASSUME FlightInv, AckInv, InboxApply
  PROVE  AckInv'
<1>1. IsState(S) /\ DOMAIN S.pos = PosFields
  BY KnownState
<1>2. UNCHANGED <<msgs, provider, sess, evq, unsaved, gate>> /\ NextEntry(S) # 0
  BY DEF InboxApply, eventFrame, queueVars
<1>3. PICK m, remove :
        /\ m = S.inbox[NextEntry(S)]
        /\ remove = [k |-> "inbox", pc |-> "remove", in |-> [NoIntent EXCEPT !.id = m.pid]]
  OBVIOUS
<1>4. m \in Elements(S.inbox) /\ m \in Known /\ m.kind # "first"
  <2>1. m \in Elements(S.inbox)
    BY <1>1, <1>2, <1>3, EntryTaken
  <2> QED
    BY <2>1 DEF Known, Held, AckInv, NoFirst
<1>5. remove.pc = "remove" /\ remove.in.id = m.pid /\ Idle.pc = ""
  <2>1. [NoIntent EXCEPT !.id = m.pid].id = m.pid
    BY DEF NoIntent
  <2> QED
    BY <1>3, <2>1 DEF Idle
<1>6. m.pid \in 1 .. msgs /\ \A n \in Known : n.pid = m.pid => n = m
  BY <1>4 DEF AckInv, Identities
<1>7. Ahead' = Ahead /\ News(unsaved)' = News(unsaved) /\ Ahead \subseteq Known
  BY <1>2 DEF Ahead, News, Elements, Known
<1>8. CASE SkipEntry(S, m)
  <2>1. /\ UNCHANGED <<mem, rem, applied>> /\ job' = remove
        /\ dropped' = IF \E r \in S.pos.receipts : r[1] = m.pid THEN dropped
                      ELSE dropped \cup {m.pid}
    BY <1>3, <1>8 DEF InboxApply, storeVars
  <2>2. UNCHANGED S /\ UNCHANGED Stored
    BY <2>1 DEF S, Stored
  <2>3. Held' = Held /\ Letters' = Letters /\ Known' = Known /\ OneEvent(unsaved \o evq)'
    BY <1>2, <1>7, <2>2 DEF Held, Letters, Known, AckInv, OneEvent
  <2>4. Concluded(m)'
    <3>1. CASE \E r \in S.pos.receipts : r[1] = m.pid
      BY <1>4, <2>1, <3>1 DEF AckInv, Receipts, Effective, Shown, Concluded
    <3>2. CASE ~\E r \in S.pos.receipts : r[1] = m.pid
      BY <2>1, <3>2 DEF Concluded
    <3> QED
      BY <3>1, <3>2
  <2>5. Removing'
    BY <1>2, <1>5, <1>6, <1>7, <2>1, <2>4 DEF Removing
  <2>6. Answered'
    <3>1. \A n : Concluded(n) => Concluded(n)'
      BY <2>1 DEF Concluded
    <3>2. \A n : Kept(n) => Kept(n)'
      BY <2>2, <2>3, <3>1 DEF Kept
    <3> QED
      BY <1>2, <3>2 DEF AckInv, Answered, Head1
  <2> QED
    BY <1>2, <1>7, <2>1, <2>2, <2>3, <2>5, <2>6, AckStill
<1>9. CASE ~SkipEntry(S, m)
  <2>1. PICK next, out :
          /\ next = ApplyEntry(S, m) /\ Save("stable", next, out)
          /\ job' = IF out = "ok" THEN remove ELSE Idle
          /\ IF m.kind = "rejected"
             THEN /\ dropped' = IF out = "refused" THEN dropped ELSE dropped \cup {m.pid}
                  /\ UNCHANGED <<applied, twice>>
             ELSE Effect(out, EffectOf(m)) /\ UNCHANGED dropped
    BY <1>3, <1>9 DEF InboxApply, Put
  <2>2. out \in {"ok", "local", "lost", "refused"}
    BY <2>1 DEF Save, Saves
  <2>3. applied \subseteq applied' /\ dropped \subseteq dropped'
    BY <2>1 DEF Effect
  <2>4. /\ m.kind # "rejected" /\ out # "refused" => EffectOf(m) \in applied'
        /\ out # "refused" => Concluded(m)'
    BY <2>1, <2>2 DEF Effect, Concluded
  <2>5. next.inbox = S.inbox
    BY <1>4, <1>9, <2>1, EntryApplied
  <2>6. /\ DOMAIN next.pos = PosFields /\ next.first = S.first
        /\ \/ m.kind = "rejected" /\ next.pos.receipts = S.pos.receipts
           \/ m.kind # "rejected" /\ \E i : next.pos.receipts = S.pos.receipts \cup {<<m.pid, i>>}
    <3>1. CASE m.kind = "rejected"
      <4>1. next = [S EXCEPT !.pend = NoIntent]
        BY <2>1, <3>1 DEF ApplyEntry
      <4> QED
        BY <1>1, <3>1, <4>1 DEF IsState, Fields
    <3>2. CASE m.kind = "sync"
      <4>1. PICK pos : /\ next = [S EXCEPT !.pend = NoIntent, !.pos = pos]
                       /\ pos = [chan |-> chan.id, target |-> m.target,
                                 backing |-> SyncBacking(S, m), sync |-> m.ver,
                                 receipts |-> S.pos.receipts \cup {<<m.pid, 0>>}]
        BY <2>1, <3>2 DEF ApplyEntry
      <4>2. DOMAIN pos = PosFields /\ pos.receipts = S.pos.receipts \cup {<<m.pid, 0>>}
        BY <4>1 DEF PosFields
      <4>3. next.pos = pos /\ next.first = S.first
        BY <1>1, <4>1 DEF IsState, Fields
      <4> QED
        BY <3>2, <4>2, <4>3
    <3>3. CASE m.kind \notin {"rejected", "sync"}
      <4>1. PICK pos : /\ next = [S EXCEPT !.pos = pos]
                       /\ pos = [S.pos EXCEPT !.backing = ReceivedBacking(S.pos, m.amt),
                                              !.receipts = @ \cup {<<m.pid, m.sid>>}]
        BY <1>1, <2>1, <3>3 DEF ApplyEntry, IsState, Fields
      <4>2. DOMAIN pos = PosFields /\ pos.receipts = S.pos.receipts \cup {<<m.pid, m.sid>>}
        BY <1>1, <4>1 DEF PosFields
      <4>3. next.pos = pos /\ next.first = S.first
        BY <1>1, <4>1 DEF IsState, Fields
      <4> QED
        BY <3>3, <4>2, <4>3
    <3> QED
      BY <3>1, <3>2, <3>3
  <2>7. out # "refused" => \A r \in next.pos.receipts : r \in S.pos.receipts \/ Shown(r, applied')
    BY <1>6, <2>4, <2>6 DEF Shown
  <2>8. /\ \A n \in Elements(next.inbox) : n \in Known /\ n.kind # "first"
        /\ \A n \in Held \cap Ahead : n \in Elements(next.inbox)
    BY <2>5 DEF Known, Held, AckInv, NoFirst
  <2>9. Removing'
    BY <1>2, <1>5, <1>6, <1>7, <2>1, <2>4 DEF Removing
  <2> QED
    BY <1>2, <2>1, <2>3, <2>6, <2>7, <2>8, <2>9, AckSave
<1> QED
  BY <1>8, <1>9

LEMMA InboxRemoveAck ==
  ASSUME FlightInv, AckInv, InboxRemove
  PROVE  AckInv'
<1>1. IsState(S) /\ DOMAIN S.pos = PosFields
  BY KnownState
<1>2. /\ UNCHANGED <<msgs, provider, applied, dropped, sess, evq, gate, unsaved>>
      /\ job.pc = "remove" /\ job' = Idle
  BY DEF InboxRemove, frame
<1>3. PICK next, out :
        /\ next = [S EXCEPT !.inbox = Without(@, job.in.id)]
        /\ Save("stable", next, out)
  BY DEF InboxRemove, Put
<1>4. next.inbox = Without(S.inbox, job.in.id) /\ next.pos = S.pos /\ next.first = S.first
      /\ IsSeq(S.inbox)
  BY <1>1, <1>3 DEF IsState, Fields
<1>5. /\ Elements(next.inbox) \subseteq Held
      /\ \A m \in Held : m.pid # job.in.id => m \in Elements(next.inbox)
  BY <1>4, Filtered DEF Held
<1>6. \A m \in Elements(next.inbox) : m \in Known /\ m.kind # "first"
  BY <1>5 DEF Known, AckInv, NoFirst
<1>7. \A m \in Held \cap Ahead : m \in Elements(next.inbox) \/ Concluded(m)'
  BY <1>2, <1>5 DEF AckInv, Removing, Concluded
<1>8. Removing'
  BY <1>2 DEF Removing, Idle
<1> QED
  BY <1>1, <1>2, <1>3, <1>4, <1>6, <1>7, <1>8, AckSave

\* Jobs, pages and payments that change nothing a payment received depends on.
LEMMA JobAck ==
  ASSUME FlightInv, AckInv,
         PersistHistory \/ HistoryFails \/ SendKeysend \/ Refresh \/ TakeQuote \/ FlushLocal
           \/ OrdinaryPayment \/ CloseChannel \/ StoreManager
  PROVE  AckInv'
<1>1. /\ UNCHANGED <<mem, rem, msgs, provider, applied, dropped, sess, gate>>
      /\ UNCHANGED evq /\ unsaved' \in {unsaved, <<>>}
  BY DEF PersistHistory, HistoryFails, SendKeysend, Refresh, TakeQuote, FlushLocal,
     OrdinaryPayment, CloseChannel, StoreManager, Flush, storeVars, queueVars, frame,
     clientVars, envFrame
<1>2. UNCHANGED job \/ job' = Idle \/ job' = [job EXCEPT !.pc = "persisted"]
  BY DEF PersistHistory, HistoryFails, SendKeysend, Refresh, TakeQuote, FlushLocal,
     OrdinaryPayment, CloseChannel, StoreManager, frame, clientVars, envFrame
<1>3. UNCHANGED job \/ job'.pc # "remove"
  <2>1. [job EXCEPT !.pc = "persisted"].pc = "persisted"
    BY DEF FlightInv, Jobs
  <2>2. Idle.pc = ""
    BY DEF Idle
  <2> QED
    BY <1>2, <2>1, <2>2
<1>4. UNCHANGED S /\ UNCHANGED Stored
  BY <1>1 DEF S, Stored
<1> QED
  BY <1>1, <1>3, <1>4, AckQuiet

LEMMA PaymentEndsAck ==
  ASSUME FlightInv, AckInv, PaymentEnds
  PROVE  AckInv'
<1>1. UNCHANGED <<mem, rem, msgs, provider, applied, dropped, sess, gate, job, unsaved>>
  BY DEF PaymentEnds, envFrame, storeVars
<1>2. PICK id : Emit([t |-> "sent", id |-> id]) \/ Emit([t |-> "failed", id |-> id])
  BY DEF PaymentEnds
<1>3. PICK e : Emit(e) /\ e.t # "recv"
  <2>1. PICK a, b : a = [t |-> "sent", id |-> id] /\ b = [t |-> "failed", id |-> id]
    OBVIOUS
  <2>2. a.t = "sent" /\ b.t = "failed"
    BY <2>1
  <2> QED
    BY <1>2, <2>1, <2>2
<1>4. UNCHANGED S /\ UNCHANGED Stored
  BY <1>1 DEF S, Stored
<1> QED
  BY <1>1, <1>3, <1>4, AckEmit

\* The splice controller receives no payment, and answers no event of one.
LEMMA SpliceAck ==
  ASSUME FlightInv, AckInv,
         QuoteSplice \/ CommitSplice \/ VerifyFails \/ PrepareSplice \/ FinishCommit
           \/ FinishCancel \/ SpliceTick \/ AllocDone
           \/ BeginSend \/ FinishSend \/ BumpFee \/ CreateChannel \/ FundChannel
           \/ SubsidizeSweep
           \/ HandleIdle \/ HandleSignRefused \/ HandleSign \/ HandleSignAgain \/ SubmitSigned
           \/ HandlePending \/ HandleFailed \/ HandleReady \/ SaveComplete
  PROVE  AckInv'
<1>1. UNCHANGED clientVars
  BY DEF QuoteSplice, CommitSplice, VerifyFails, PrepareSplice, FinishCommit, FinishCancel,
     SpliceTick, AllocDone, BeginSend, FinishSend, BumpFee, CreateChannel, FundChannel,
     SubsidizeSweep, HandleIdle, HandleSignRefused, HandleSign, HandleSignAgain, SubmitSigned,
     HandlePending, HandleFailed, HandleReady, SaveComplete, nonStore, spendFrame, handleFrame
<1>2. /\ UNCHANGED <<sess, evq>> /\ unsaved' \in {unsaved, <<>>}
      /\ UNCHANGED <<mem, rem, behind>> \/ \E next, out : Save("splice", next, out)
      /\ gate' = gate \/ (evq # <<>> /\ Head1.t \in SpliceEvents)
  BY QuietSplice, HandleSplice
<1>3. UNCHANGED S /\ UNCHANGED Stored
  BY <1>2, SpliceSave, StoresStay DEF FlightInv
<1>4. UNCHANGED <<msgs, provider, applied, dropped, job>>
  BY <1>1 DEF clientVars
<1> QED
  BY <1>2, <1>3, <1>4, AckQuiet DEF SpliceEvents

LEMMA SpliceEventAck ==
  ASSUME FlightInv, AckInv,
         CancelUnsigned \/ Negotiated \/ NegotiationFails \/ SignaturesExchanged \/ SpliceLocks
  PROVE  AckInv'
<1>1. /\ UNCHANGED <<mem, rem, sess, gate, job>> /\ unsaved' \in {unsaved, <<>>}
      /\ UNCHANGED evq \/ \E e : e.t \in SpliceEvents /\ Emit(e)
  BY SpliceEvent
<1>2. UNCHANGED <<msgs, provider, applied, dropped>>
  BY DEF CancelUnsigned, Negotiated, NegotiationFails, SignaturesExchanged, SpliceLocks,
     ldkFrame, clientVars
<1>3. UNCHANGED S /\ UNCHANGED Stored
  BY <1>1 DEF S, Stored
<1>4. CASE UNCHANGED evq
  BY <1>1, <1>2, <1>3, <1>4, AckQuiet
<1>5. CASE \E e : e.t \in SpliceEvents /\ Emit(e)
  <2>1. PICK e : e.t \in SpliceEvents /\ Emit(e)
    BY <1>5
  <2>2. e.t # "recv"
    BY <2>1 DEF SpliceEvents
  <2> QED
    BY <1>1, <1>2, <1>3, <2>1, <2>2, AckEmit
<1> QED
  BY <1>1, <1>4, <1>5

LEMMA RebindAck ==
  ASSUME FlightInv, AckInv, Rebind
  PROVE  AckInv'
<1>1. IsState(S) /\ DOMAIN S.pos = PosFields
  BY KnownState
<1>2. /\ UNCHANGED <<job, msgs, provider, applied, dropped, sess, evq, unsaved>>
      /\ gate' \in {gate, "none"}
  BY DEF Rebind, JobThrows, GateSettles, queueVars
<1>3. CASE UNCHANGED storeVars
  <2>1. UNCHANGED S /\ UNCHANGED Stored
    BY <1>3 DEF S, Stored, storeVars
  <2> QED
    BY <1>2, <2>1, AckQuiet
<1>4. CASE ~UNCHANGED storeVars
  <2>1. PICK next, out : next = [S EXCEPT !.pos.chan = chan.id] /\ Save("stable", next, out)
    BY <1>4 DEF Rebind, Put
  <2>2. PICK pos : pos = [S.pos EXCEPT !.chan = chan.id]
    OBVIOUS
  <2>3. next.inbox = S.inbox /\ next.first = S.first /\ next.pos = pos
    BY <1>1, <2>1, <2>2 DEF IsState, Fields
  <2>4. DOMAIN pos = PosFields /\ pos.receipts = S.pos.receipts
    BY <1>1, <2>2 DEF PosFields
  <2> QED
    BY <1>2, <2>1, <2>3, <2>4, AckPlain
<1> QED
  BY <1>3, <1>4

LEMMA AllocateAck ==
  ASSUME FlightInv, AckInv, AllocateAll \/ AllocAttempted \/ AllocTrade
  PROVE  AckInv'
<1>1. CASE AllocateAll
  <2>1. /\ UNCHANGED <<mem, rem, msgs, provider, applied, dropped, sess, evq, gate, unsaved>>
        /\ job' = [Idle EXCEPT !.k = "alloc", !.pc = "before"]
    BY <1>1 DEF AllocateAll, storeVars, queueVars
  <2>2. job'.pc # "remove" /\ UNCHANGED S /\ UNCHANGED Stored
    BY <2>1 DEF Idle, S, Stored
  <2> QED
    BY <2>1, <2>2, AckQuiet
<1>2. CASE AllocAttempted
  <2>1. /\ UNCHANGED <<msgs, provider, applied, dropped, sess, evq, gate, unsaved>>
        /\ job' \in {Idle, [job EXCEPT !.pc = "quoted"]}
        /\ \E next, out : Save("splice", next, out)
    BY <1>2 DEF AllocAttempted, PutSplice, queueVars
  <2>2. job'.pc # "remove"
    <3>1. [job EXCEPT !.pc = "quoted"].pc = "quoted"
      BY DEF FlightInv, Jobs
    <3>2. Idle.pc = ""
      BY DEF Idle
    <3> QED
      BY <2>1, <3>1, <3>2
  <2>3. UNCHANGED S /\ UNCHANGED Stored
    BY <2>1, SpliceSave DEF FlightInv
  <2> QED
    BY <2>1, <2>2, <2>3, AckQuiet
<1>3. CASE AllocTrade
  <2>1. CASE Quotable(S, 1)
    BY <1>3, <2>1, SavePendingAck DEF AllocTrade
  <2>2. CASE ~Quotable(S, 1)
    <3>1. /\ UNCHANGED <<mem, rem, msgs, provider, applied, dropped, sess, evq, gate, unsaved>>
          /\ job' = Idle
      BY <1>3, <2>2 DEF AllocTrade, storeVars, frame
    <3>2. job'.pc # "remove" /\ UNCHANGED S /\ UNCHANGED Stored
      BY <3>1 DEF Idle, S, Stored
    <3> QED
      BY <3>1, <3>2, AckQuiet
  <2> QED
    BY <2>1, <2>2
<1> QED
  BY <1>1, <1>2, <1>3

\* After a crash LDK delivers again what the stored manager still has.
LEMMA CrashAck ==
  ASSUME FlightInv, AckInv, CrashAll
  PROVE  AckInv'
<1>1. /\ UNCHANGED <<mem, rem, msgs, provider, applied, dropped>>
      /\ job' = Idle /\ gate' = "none" /\ sess' = "off"
      /\ evq' = unsaved \o evq /\ unsaved' = <<>>
  BY DEF CrashAll, Crash, ReplayAll, storeVars
<1>2. IsSeq(unsaved \o evq) /\ Elements(unsaved \o evq) = Elements(unsaved) \cup Elements(evq)
  BY Joined DEF FlightInv, Queues
<1>3. UNCHANGED S /\ UNCHANGED Stored
  BY <1>1 DEF S, Stored
<1>4. Held' = Held /\ Letters' = Letters
  BY <1>3 DEF Held, Letters
<1>5. Known' = Known
  <2>1. Elements(evq)' = Elements(unsaved) \cup Elements(evq) /\ Elements(unsaved)' = {}
    BY <1>1, <1>2, EmptySeq
  <2>2. Ahead' = Ahead \cup News(unsaved) /\ News(unsaved)' = {}
    BY <2>1 DEF Ahead, News
  <2> QED
    BY <1>4, <2>2 DEF Known
<1>6. Identities' /\ \A r : Effective(r) => Effective(r)'
  BY <1>1, <1>5, SameNews
<1>7. Positions' /\ Receipts' /\ NoFirst'
  BY <1>3, <1>4, <1>6 DEF AckInv, Positions, Receipts, NoFirst
<1>8. OneEvent(unsaved \o evq)'
  <2>1. <<>> \o (unsaved \o evq) = unsaved \o evq
    BY <1>2, JoinedEmpty
  <2> QED
    BY <1>1, <2>1 DEF AckInv
<1>9. Loose' /\ Removing' /\ Answered'
  BY <1>1 DEF Loose, Removing, Answered, Idle
<1> QED
  BY <1>6, <1>7, <1>8, <1>9 DEF AckInv

\* A session that starts has in memory what VSS has.
LEMMA OpenAck ==
  ASSUME FlightInv, AckInv, OpenAll \/ StartAll
  PROVE  AckInv'
<1>1. /\ UNCHANGED <<rem, msgs, provider, applied, dropped, job, evq, gate, unsaved>>
      /\ \/ sess' = "recovering" /\ UNCHANGED mem
         \/ mem' = rem
  BY DEF OpenAll, StartAll, Open, StartRuntime, Load, storeVars, queueVars, clientVars
<1>2. UNCHANGED Stored /\ S' \in {S, Stored} /\ (sess' = "recovering" \/ S' = Stored)
  BY <1>1 DEF S, Stored
<1>3. Held' \in {Held, Letters} /\ Letters' = Letters /\ Ahead' = Ahead
      /\ News(unsaved)' = News(unsaved) /\ (sess' = "recovering" \/ Held' = Letters)
  BY <1>1, <1>2 DEF Held, Letters, Ahead, News, Elements
<1>4. Known' \subseteq Known
  BY <1>3 DEF Known
<1>5. Identities' /\ \A r : Effective(r) => Effective(r)'
  BY <1>1, <1>4, SameNews
<1>6. Positions' /\ Receipts' /\ NoFirst'
  BY <1>2, <1>3, <1>5 DEF AckInv, Positions, Receipts, NoFirst
<1>7. OneEvent(unsaved \o evq)' /\ Removing' /\ Answered'
  BY <1>1, <1>2, <1>3 DEF AckInv, OneEvent, Removing, Answered, Kept, Concluded, Head1
<1>8. Loose'
  BY <1>3 DEF Loose
<1> QED
  BY <1>5, <1>6, <1>7, <1>8 DEF AckInv

LEMMA AckInit ==
  ASSUME SystemInit
  PROVE  AckInv
<1>1. "stable" \in Owners
  BY DEF Owners
<1>2. /\ S = InitialState /\ Stored = InitialState
      /\ evq = <<>> /\ unsaved = <<>> /\ gate = "none" /\ sess = "recovering"
      /\ msgs = 0 /\ provider.ver = 0 /\ job = Idle
  BY <1>1 DEF SystemInit, StoreInit, ClientInit, S, Stored
<1>3. /\ InitialState.pos = NoPosition /\ InitialState.inbox = <<>>
      /\ DOMAIN NoPosition = PosFields /\ NoPosition.receipts = {}
  BY DEF InitialState, NoPosition, PosFields
<1>4. Known = {} /\ Letters = {} /\ Held = {}
  BY <1>2, <1>3, EmptySeq DEF Known, Ahead, News, Letters, Held
<1>5. Positions /\ Identities /\ Receipts /\ NoFirst
  BY <1>2, <1>3, <1>4 DEF Positions, Identities, Receipts, NoFirst
<1>6. OneEvent(unsaved \o evq)
  <2>1. <<>> \o <<>> = <<>>
    BY EmptySeq, JoinedEmpty
  <2>2. Len(unsaved \o evq) = 0
    BY <1>2, <2>1
  <2> QED
    BY <2>2 DEF OneEvent
<1>7. Loose /\ Removing /\ Answered
  BY <1>2 DEF Loose, Removing, Answered, Idle
<1> QED
  BY <1>5, <1>6, <1>7 DEF AckInv

LEMMA AckStep ==
  ASSUME FlightInv, AckInv, [SystemNext]_allVars
  PROVE  AckInv'
<1>1. CASE ClientNext /\ UNCHANGED spliceVars
  BY <1>1, SettingsAck, JobAck, TradeAck, WithdrawAck, EventAck, InboxApplyAck,
     InboxRemoveAck, DeliverAck, PaymentEndsAck, ProviderAck
  DEF ClientNext
<1>2. CASE SpliceNext
  BY <1>2, SpliceAck, SpliceEventAck, RebindAck, AllocateAck, DeliverAck DEF SpliceNext
<1>3. CASE CrashAll \/ OpenAll \/ StartAll
  BY <1>3, CrashAck, OpenAck
<1>4. CASE UNCHANGED allVars
  <2>1. UNCHANGED <<mem, rem, msgs, provider, applied, dropped, sess, evq, gate, unsaved, job>>
    BY <1>4 DEF allVars, storeVars, queueVars, clientVars
  <2>2. UNCHANGED S /\ UNCHANGED Stored
    BY <2>1 DEF S, Stored
  <2> QED
    BY <2>1, <2>2, AckQuiet
<1> QED
  BY <1>1, <1>2, <1>3, <1>4 DEF SystemNext

(***************************************************************************)
(* LDK forgets a payment of the provider only when it is safe to: the gate *)
(* of stable/event-gate.ts answers "done" only for a payment whose message *)
(* is in VSS, took effect there, or was refused by one of the client's     *)
(* rules, through failed writes, lost answers, crashes and replays.        *)
(***************************************************************************)
THEOREM NothingForgotten == System => AckMeansDurable
<1>1. SystemInit => FlightInv /\ AckInv
  BY FlightInit, AckInit
<1>2. FlightInv /\ AckInv /\ [SystemNext]_allVars => (FlightInv /\ AckInv)'
  BY FlightStep, AckStep
<1>3. AckInv => (gate = "done" /\ Head1.t = "recv"
                   => \/ Durable(Head1.m) \/ EffectOf(Head1.m) \in applied
                      \/ Head1.m.pid \in dropped)
  <2>1. SUFFICES ASSUME AckInv, gate = "done", Head1.t = "recv", NEW m, m = Head1.m
                 PROVE  Durable(m) \/ EffectOf(m) \in applied \/ m.pid \in dropped
    OBVIOUS
  <2>2. Kept(m)
    BY <2>1 DEF AckInv, Answered
  <2>3. m \in Letters => m.kind # "first" /\ \E i \in DOMAIN Stored.inbox : Stored.inbox[i] = m
    <3>1. SUFFICES ASSUME m \in Letters
                   PROVE  m.kind # "first" /\ \E i \in DOMAIN Stored.inbox : Stored.inbox[i] = m
      OBVIOUS
    <3> QED
      BY <2>1, <3>1 DEF AckInv, NoFirst, Letters, Elements
  <2> QED
    BY <2>2, <2>3 DEF Kept, Concluded, Durable, Received, Stored
<1>4. AckInv => [gate = "done" /\ unsaved' # unsaved /\ Head1.t = "recv" /\ evq # evq'
                   => \/ Durable(Head1.m) \/ EffectOf(Head1.m) \in applied
                      \/ Head1.m.pid \in dropped]_<<storeVars, queueVars, faults, sess, clientVars>>
  BY <1>3
<1> QED
  BY <1>1, <1>2, <1>4, PTL DEF System, AckMeansDurable

-----------------------------------------------------------------------------
(* No effect twice.  An effect is recorded in the state it changes: by the *)
(* number of the intent, the stage of the first receive, the pending       *)
(* intent that ends, the version or the receipts of the position.  The     *)
(* receipts go with the position, so the channel must be gone by then.     *)

Told(a, s, n, c) ==
  /\ a[1] = "intent" => a[2] \in 0 .. n - 1
  /\ a[1] = "first" => s.first = "attempted"
  /\ a[1] = "paid" => a[2] \in 1 .. n /\ s.pend.id # a[2]
  /\ a[1] = "sync" /\ c # 0 => a[2] \in Nat /\ a[2] <= s.pos.sync
  /\ a[1] = "got" /\ c # 0 => \E r \in s.pos.receipts : r[2] = a[2]
Fits(s, effects, n, c) ==
  /\ s.pos.sync \in Nat
  /\ s.pend.kind = "settlement" => s.pend.id \in 1 .. n
  /\ \A a \in effects : Told(a, s, n, c)
ClientOnce ==
  twice = FALSE /\ "id" \in DOMAIN chan /\ Fits(Stored, applied, intents, chan.id)

\* A splice's added balance is traded once, and no splice follows it.
R == rem["splice"]
Allocated == \E a \in applied : a[1] = "splice"
Final(p) == p.status = "complete" /\ p.conv # "waiting"
Path ==
  /\ DOMAIN ls = {"st", "tx"}
  /\ squote \/ sjob = "verify" => ls.st = "none"
  /\ sjob \in {"started", "refused"} => ls.st \in {"none", "negotiating", "signing"}
  /\ sjob \in {"rebind", "tickrebind", "complete", "tickcomplete"} => ls.st = "locked"
  /\ sjob = "alloc" => P.status = "complete"
  /\ sjob = "cancel" => SplicePending(P)
Finished == P.status = "complete" \/ R.status = "complete" => ls.st = "locked"
Allocating ==
  /\ job.pc \in {"before", "quoted"} => sjob = "alloc" /\ ~Allocated
  /\ job.pc = "quoted" => Final(P) /\ Final(R)
  /\ Allocated => Final(P) /\ Final(R)
SpliceFields == {"status", "tx", "new", "conv"}
SpliceStores ==
  /\ DOMAIN P = SpliceFields /\ DOMAIN R = SpliceFields
  /\ "splice" \notin behind => P = R
SpliceOnce == SpliceStores /\ Path /\ Finished /\ Allocating

OnceInv == ClientOnce /\ SpliceOnce

\* Without a save and an effect, nothing changes.
LEMMA OnceStill ==
  ASSUME ClientOnce, UNCHANGED <<applied, twice, intents>>, UNCHANGED Stored,
         "id" \in DOMAIN chan => "id" \in DOMAIN chan' /\ (chan'.id # 0 => chan.id # 0)
  PROVE  ClientOnce'
BY DEF ClientOnce, Fits, Told

LEMMA OnceSave ==
  ASSUME FlightInv, ClientOnce, NEW next, NEW out, Save("stable", next, out),
         out = "refused" => UNCHANGED <<applied, twice>>,
         out # "refused" /\ Stored = S =>
           twice' = FALSE /\ Fits(next, applied', intents', chan'.id),
         intents' \in {intents, intents + 1}, chan' = chan
  PROVE  ClientOnce'
<1>1. \/ out = "refused" /\ Stored' = Stored
      \/ out # "refused" /\ Stored = S /\ Stored' = next
  BY Written
<1>2. CASE out = "refused"
  <2>1. intents \in Nat
    BY DEF FlightInv
  <2>2. \A a, s, c : Told(a, s, intents, c) => Told(a, s, intents', c)
    BY <2>1 DEF Told
  <2>3. Stored.pend.kind = "settlement" => Stored.pend.id \in 1 .. intents'
    BY <2>1 DEF ClientOnce, Fits
  <2> QED
    BY <1>1, <1>2, <2>2, <2>3 DEF ClientOnce, Fits
<1>3. CASE out # "refused"
  BY <1>1, <1>3 DEF ClientOnce
<1> QED
  BY <1>2, <1>3

\* A save that neither starts, ends nor counts anything.
LEMMA OncePlain ==
  ASSUME FlightInv, ClientOnce, NEW next, NEW out, Save("stable", next, out),
         UNCHANGED <<applied, twice, intents, chan>>,
         next.pend = S.pend \/ next.pend = NoIntent \/ SamePending(S, next),
         next.first = S.first \/ S.first # "attempted",
         \/ next.pos.sync = S.pos.sync /\ next.pos.receipts = S.pos.receipts
         \/ next.pos = NoPosition /\ chan.id = 0
  PROVE  ClientOnce'
<1>1. NoIntent.id = 0 /\ NoIntent.kind = "none" /\ NoPosition.sync = 0
  BY DEF NoIntent, NoPosition
<1>2. SUFFICES ASSUME Stored = S
               PROVE  Fits(next, applied, intents, chan.id)
  BY OnceSave DEF ClientOnce
<1>3. Fits(S, applied, intents, chan.id) /\ intents \in Nat
  BY <1>2 DEF ClientOnce, FlightInv
<1>4. /\ next.pend.id \in {S.pend.id, 0}
      /\ next.pend.kind = "settlement" => next.pend.kind = S.pend.kind /\ next.pend.id = S.pend.id
  BY <1>1 DEF SamePending
<1>5. ASSUME NEW a \in applied
      PROVE  Told(a, next, intents, chan.id)
  <2>1. Told(a, S, intents, chan.id)
    BY <1>3, <1>5 DEF Fits
  <2>2. a[1] = "paid" => next.pend.id # a[2]
    BY <1>3, <1>4, <2>1 DEF Told
  <2> QED
    BY <2>1, <2>2 DEF Told
<1>6. next.pos.sync \in Nat
  BY <1>1, <1>3 DEF Fits
<1> QED
  BY <1>3, <1>4, <1>5, <1>6 DEF Fits

LEMMA SettingsOnce ==
  ASSUME FlightInv, AckInv, ClientOnce,
         Enable \/ Pause \/ PrepareFirstReceive \/ ClearClosedPosition,
         ClearClosedPosition => chan.id = 0
  PROVE  ClientOnce'
<1>1. IsState(S)
  BY KnownState
<1>2. PICK next, out :
        /\ \/ next \in {[S EXCEPT !.enabled = TRUE], [S EXCEPT !.paused = ~S.paused]}
           \/ next = [S EXCEPT !.enabled = TRUE, !.first = "prepared"] /\ S.first = "none"
           \/ next = [S EXCEPT !.pos = NoPosition] /\ chan.id = 0
        /\ Save("stable", next, out) /\ UNCHANGED <<unrecorded, applied>>
  BY DEF Enable, Pause, PrepareFirstReceive, ClearClosedPosition, SettingsChange, Put, frame,
     unrecorded
<1>3. /\ next.pend = S.pend
      /\ next.pos = S.pos \/ (next.pos = NoPosition /\ chan.id = 0)
      /\ next.first = S.first \/ S.first = "none"
  BY <1>1, <1>2 DEF IsState, Fields
<1>4. UNCHANGED <<applied, twice, intents, chan>>
  BY <1>2 DEF unrecorded
<1> QED
  BY <1>2, <1>3, <1>4, OncePlain

LEMMA WithdrawOnce ==
  ASSUME FlightInv, AckInv, ClientOnce, SendNotReady \/ SendRejected
  PROVE  ClientOnce'
<1>1. IsState(S)
  BY KnownState
<1>2. PICK next, out : next = [S EXCEPT !.pend = NoIntent] /\ Save("stable", next, out)
                       /\ UNCHANGED frame
  BY DEF SendNotReady, SendRejected, Withdraw, Put
<1>3. next.pend = NoIntent /\ next.pos = S.pos /\ next.first = S.first
  BY <1>1, <1>2 DEF IsState, Fields
<1>4. UNCHANGED <<applied, twice, intents, chan>>
  BY <1>2 DEF frame
<1> QED
  BY <1>2, <1>3, <1>4, OncePlain

LEMMA RemoveOnce ==
  ASSUME FlightInv, AckInv, ClientOnce, InboxRemove
  PROVE  ClientOnce'
<1>1. IsState(S)
  BY KnownState
<1>2. PICK next, out : next = [S EXCEPT !.inbox = Without(@, job.in.id)]
                       /\ Save("stable", next, out) /\ UNCHANGED frame
  BY DEF InboxRemove, Put
<1>3. next.pend = S.pend /\ next.pos = S.pos /\ next.first = S.first
  BY <1>1, <1>2 DEF IsState, Fields
<1>4. UNCHANGED <<applied, twice, intents, chan>>
  BY <1>2 DEF frame
<1> QED
  BY <1>2, <1>3, <1>4, OncePlain

\* What a save counts for the first time.
LEMMA EffectOnce ==
  ASSUME ClientOnce, NEW out, NEW what, Effect(out, what), what \notin applied
  PROVE  /\ twice' = FALSE /\ applied' \in {applied, applied \cup {what}}
         /\ out = "refused" => UNCHANGED <<applied, twice>>
  BY DEF ClientOnce, Effect

LEMMA SavePendingOnce ==
  ASSUME FlightInv, AckInv, ClientOnce, NEW kind, NEW in, NEW what, SavePending(kind, in, what),
         in.id = intents + 1,
         \/ what[1] = "intent" /\ what[2] = intents
         \/ what[1] = "first" /\ in.kind = "trade" /\ S.first = "received"
         \/ what[1] = "splice" /\ what \notin applied
  PROVE  ClientOnce'
<1>1. IsState(S)
  BY KnownState
<1>2. PICK next, out :
        /\ next = [S EXCEPT !.pend = in,
                            !.first = IF in.kind = "trade" /\ @ = "received"
                                      THEN "attempted" ELSE @]
        /\ Save("stable", next, out) /\ Effect(out, what)
  BY DEF SavePending, Put
<1>3. /\ intents' = intents + 1 /\ chan' = chan /\ intents \in Nat
  BY DEF SavePending, FlightInv
<1>4. /\ next.pend = in /\ next.pos = S.pos
      /\ next.first = IF in.kind = "trade" /\ S.first = "received" THEN "attempted" ELSE S.first
  BY <1>1, <1>2 DEF IsState, Fields
<1>5. out = "refused" => UNCHANGED <<applied, twice>>
  BY <1>2 DEF Effect
<1>6. SUFFICES ASSUME out # "refused", Stored = S
               PROVE  twice' = FALSE /\ Fits(next, applied', intents', chan'.id)
  BY <1>2, <1>3, <1>5, OnceSave
<1>7. Fits(S, applied, intents, chan.id)
  BY <1>6 DEF ClientOnce
<1>8. what \notin applied
  BY <1>3, <1>7 DEF Fits, Told
<1>9. twice' = FALSE /\ applied' \in {applied, applied \cup {what}}
  BY <1>2, <1>8, EffectOnce
<1>10. ASSUME NEW a \in applied
       PROVE  Told(a, next, intents', chan'.id)
  <2>1. Told(a, S, intents, chan.id)
    BY <1>7, <1>10 DEF Fits
  <2>2. a[1] = "paid" => a[2] \in 1 .. intents' /\ next.pend.id # a[2]
    BY <1>3, <1>4, <2>1 DEF Told
  <2>3. a[1] = "intent" => a[2] \in 0 .. intents' - 1
    BY <1>3, <2>1 DEF Told
  <2> QED
    BY <1>3, <1>4, <2>1, <2>2, <2>3 DEF Told
<1>11. Told(what, next, intents', chan'.id)
  BY <1>3, <1>4 DEF Told
<1>12. next.pend.id \in 1 .. intents' /\ next.pos.sync \in Nat
  BY <1>3, <1>4, <1>7 DEF Fits
<1> QED
  BY <1>9, <1>10, <1>11, <1>12 DEF Fits

LEMMA TradeOnce ==
  ASSUME FlightInv, AckInv, ClientOnce, CommitTrade \/ AutoConvert \/ SettleTick
  PROVE  ClientOnce'
<1>1. \A k, t, b, m : /\ NewIntent(k, t, b, m).id = intents + 1
                      /\ NewIntent(k, t, b, m).kind = k
  BY DEF NewIntent
<1>2. CASE CommitTrade
  <2>1. PICK in : SavePending("trade", in, <<"intent", intents>>) /\ in.id = intents + 1
    BY <1>1, <1>2 DEF CommitTrade
  <2> QED
    BY <2>1, SavePendingOnce
<1>3. CASE AutoConvert
  <2>1. PICK in : /\ SavePending("auto", in, <<"first", 0>>) /\ in.id = intents + 1
                  /\ in.kind = "trade" /\ S.first = "received"
    BY <1>1, <1>3 DEF AutoConvert
  <2> QED
    BY <2>1, SavePendingOnce
<1>4. CASE SettleTick
  <2>1. PICK in : SavePending("tick", in, <<"intent", intents>>) /\ in.id = intents + 1
    BY <1>1, <1>4 DEF SettleTick
  <2> QED
    BY <2>1, SavePendingOnce
<1> QED
  BY <1>2, <1>3, <1>4

\* The outcome of a keysend ends its intent, so it is not counted again.
LEMMA EventOnce ==
  ASSUME FlightInv, AckInv, ClientOnce, EventJob
  PROVE  ClientOnce'
<1>1. IsState(S)
  BY KnownState
<1>2. UNCHANGED <<intents, chan>>
  BY DEF EventJob, eventFrame
<1>3. CASE UNCHANGED <<mem, rem, applied, twice>>
  <2>1. UNCHANGED Stored
    BY <1>3 DEF Stored
  <2> QED
    BY <1>2, <1>3, <2>1, OnceStill
<1>4. CASE Head1.t = "recv"
  <2>1. PICK m, keep, out :
          /\ keep = IF m.kind = "first" THEN [S EXCEPT !.first = "received"]
                    ELSE [S EXCEPT !.inbox = Append(@, m)]
          /\ UNCHANGED storeVars \/ (Save("stable", keep, out) /\ Handles(Head1))
          /\ m = Head1.m /\ UNCHANGED <<applied, twice>>
    BY <1>4 DEF EventJob, OnReceived, Put
  <2>2. CASE UNCHANGED storeVars
    BY <1>3, <2>1, <2>2 DEF storeVars
  <2>3. CASE Save("stable", keep, out) /\ Handles(Head1)
    <3>1. m.kind = "first" => S.first = "prepared"
      BY <1>4, <2>1, <2>3 DEF Handles
    <3>2. keep.pend = S.pend /\ keep.pos = S.pos /\ (m.kind # "first" => keep.first = S.first)
      BY <1>1, <2>1 DEF IsState, Fields
    <3> QED
      BY <1>2, <2>1, <2>3, <3>1, <3>2, OncePlain
  <2> QED
    BY <2>1, <2>2, <2>3
<1>5. CASE Head1.t # "recv"
  <2>1. PICK out : OnOutcome(Head1, out)
    BY <1>5 DEF EventJob
  <2>2. CASE ~Handles(Head1)
    BY <1>3, <2>1, <2>2 DEF OnOutcome, storeVars
  <2>3. CASE Handles(Head1)
    <3>1. PICK next :
            /\ next = IF Head1.t = "failed" THEN [S EXCEPT !.pend = NoIntent]
                      ELSE IF S.pend.kind = "trade" THEN [S EXCEPT !.pend.sent = TRUE]
                      ELSE [S EXCEPT !.pend = NoIntent, !.pos.backing = S.pend.backing]
            /\ Save("stable", next, out)
            /\ IF Head1.t = "sent" /\ S.pend.kind = "settlement"
               THEN Effect(out, <<"paid", Head1.id>>) ELSE UNCHANGED <<applied, twice>>
      BY <2>1, <2>3 DEF OnOutcome, Put
    <3>2. Head1.t \in {"sent", "failed"} /\ S.pend.id = Head1.id
      BY <1>5, <2>3 DEF Handles, EventJob
    <3>3. /\ next.first = S.first
          /\ next.pos.sync = S.pos.sync /\ next.pos.receipts = S.pos.receipts
          /\ next.pend = NoIntent \/ SamePending(S, next)
          /\ Head1.t = "sent" /\ S.pend.kind = "settlement" => next.pend = NoIntent
      <4>1. CASE next = [S EXCEPT !.pend = NoIntent]
        BY <1>1, <4>1 DEF IsState, Fields
      <4>2. CASE next = [S EXCEPT !.pend.sent = TRUE] /\ S.pend.kind = "trade"
        BY <1>1, <4>2 DEF IsState, Fields, IntentFields, SamePending
      <4>3. CASE next = [S EXCEPT !.pend = NoIntent, !.pos.backing = S.pend.backing]
        <5>1. PICK pos : pos = [S.pos EXCEPT !.backing = S.pend.backing]
          OBVIOUS
        <5>2. next.pos = pos /\ next.first = S.first /\ next.pend = NoIntent
          BY <1>1, <4>3, <5>1 DEF IsState, Fields
        <5>3. pos.sync = S.pos.sync /\ pos.receipts = S.pos.receipts
          BY <5>1, KnownState DEF PosFields
        <5> QED
          BY <5>2, <5>3
      <4> QED
        BY <3>1, <4>1, <4>2, <4>3
    <3>4. CASE ~(Head1.t = "sent" /\ S.pend.kind = "settlement")
      BY <1>2, <3>1, <3>3, <3>4, OncePlain
    <3>5. CASE Head1.t = "sent" /\ S.pend.kind = "settlement"
      <4>1. PICK what : what = <<"paid", Head1.id>> /\ Effect(out, what)
        BY <3>1, <3>5
      <4>2. what[1] = "paid" /\ what[2] = Head1.id
        BY <4>1
      <4>3. out = "refused" => UNCHANGED <<applied, twice>>
        BY <4>1 DEF Effect
      <4>4. SUFFICES ASSUME Stored = S
                     PROVE  twice' = FALSE /\ Fits(next, applied', intents, chan.id)
        BY <1>2, <3>1, <4>3, OnceSave
      <4>5. Fits(S, applied, intents, chan.id) /\ intents \in Nat
        BY <4>4 DEF ClientOnce, FlightInv
      <4>6. what \notin applied
        BY <3>2, <4>2, <4>5 DEF Fits, Told
      <4>7. twice' = FALSE /\ applied' \in {applied, applied \cup {what}}
        BY <4>1, <4>6, EffectOnce
      <4>8. next.pend.id = 0 /\ next.pend.kind = "none"
        BY <3>3, <3>5 DEF NoIntent
      <4>9. Head1.id \in 1 .. intents
        BY <3>2, <3>5, <4>5 DEF Fits
      <4>10. ASSUME NEW a \in applied
             PROVE  Told(a, next, intents, chan.id)
        <5>1. Told(a, S, intents, chan.id)
          BY <4>5, <4>10 DEF Fits
        <5>2. a[1] = "paid" => next.pend.id # a[2]
          BY <4>5, <4>8, <5>1 DEF Told
        <5> QED
          BY <3>3, <5>1, <5>2 DEF Told
      <4>11. Told(what, next, intents, chan.id)
        BY <4>2, <4>5, <4>8, <4>9 DEF Told
      <4>12. next.pos.sync \in Nat
        BY <3>3, <4>5 DEF Fits
      <4> QED
        BY <4>7, <4>8, <4>10, <4>11, <4>12 DEF Fits
    <3> QED
      BY <3>4, <3>5
  <2> QED
    BY <2>2, <2>3
<1> QED
  BY <1>4, <1>5

\* A version is applied above the last one only, a settlement without a
\* receipt only.
LEMMA ApplyOnce ==
  ASSUME FlightInv, AckInv, ClientOnce, InboxApply
  PROVE  ClientOnce'
<1>1. IsState(S) /\ DOMAIN S.pos = PosFields
  BY KnownState
<1>2. UNCHANGED <<intents, chan>> /\ NextEntry(S) # 0 /\ intents \in Nat
  BY DEF InboxApply, eventFrame, FlightInv
<1>3. PICK m : m = S.inbox[NextEntry(S)]
  OBVIOUS
<1>4. m.chan # 0 /\ m.ver \in Nat
  <2>1. m \in Elements(S.inbox)
    BY <1>1, <1>2, <1>3, EntryTaken
  <2> QED
    BY <2>1 DEF AckInv, Identities, Known, Held
<1>5. CASE SkipEntry(S, m)
  <2>1. UNCHANGED <<rem, applied, twice>>
    BY <1>3, <1>5 DEF InboxApply, storeVars
  <2>2. UNCHANGED Stored
    BY <2>1 DEF Stored
  <2> QED
    BY <1>2, <2>1, <2>2, OnceStill
<1>6. CASE ~SkipEntry(S, m)
  <2>1. PICK next, out :
          /\ next = ApplyEntry(S, m) /\ Save("stable", next, out)
          /\ IF m.kind = "rejected" THEN UNCHANGED <<applied, twice>>
             ELSE Effect(out, EffectOf(m))
    BY <1>3, <1>6 DEF InboxApply, Put
  <2>2. chan.id # 0
    BY <1>4, <1>6 DEF SkipEntry
  <2>3. CASE m.kind = "rejected"
    <3>1. next = [S EXCEPT !.pend = NoIntent]
      BY <2>1, <2>3 DEF ApplyEntry
    <3>2. next.pend = NoIntent /\ next.first = S.first /\ next.pos = S.pos
      BY <1>1, <3>1 DEF IsState, Fields
    <3> QED
      BY <1>2, <2>1, <2>3, <3>2, OncePlain
  <2>4. CASE m.kind # "rejected"
    <3>1. PICK what : what = EffectOf(m) /\ Effect(out, what)
      BY <2>1, <2>4
    <3>2. out = "refused" => UNCHANGED <<applied, twice>>
      BY <3>1 DEF Effect
    <3>3. SUFFICES ASSUME Stored = S
                   PROVE  twice' = FALSE /\ Fits(next, applied', intents, chan.id)
      BY <1>2, <2>1, <3>2, OnceSave
    <3>4. Fits(S, applied, intents, chan.id)
      BY <3>3 DEF ClientOnce
    <3>5. CASE m.kind = "sync"
      <4>1. PICK pos : /\ next = [S EXCEPT !.pend = NoIntent, !.pos = pos]
                       /\ pos = [chan |-> chan.id, target |-> m.target,
                                 backing |-> SyncBacking(S, m), sync |-> m.ver,
                                 receipts |-> S.pos.receipts \cup {<<m.pid, 0>>}]
        BY <2>1, <3>5 DEF ApplyEntry
      <4>2. pos.sync = m.ver /\ pos.receipts = S.pos.receipts \cup {<<m.pid, 0>>}
        BY <4>1
      <4>3. next.pos = pos /\ next.first = S.first /\ next.pend = NoIntent
        BY <1>1, <4>1 DEF IsState, Fields
      <4>4. next.pend.id = 0 /\ next.pend.kind = "none"
        BY <4>3 DEF NoIntent
      <4>5. ~(m.ver <= S.pos.sync)
        <5>1. CASE m.corr = 0
          BY <1>6, <3>5, <5>1 DEF SkipEntry
        <5>2. CASE m.corr # 0
          BY <1>6, <3>5, <5>2 DEF SkipEntry
        <5> QED
          BY <5>1, <5>2
      <4>6. what[1] = "sync" /\ what[2] = m.ver
        BY <3>1, <3>5 DEF EffectOf
      <4>7. what \notin applied
        BY <2>2, <3>4, <4>5, <4>6 DEF Fits, Told
      <4>8. ASSUME NEW a \in applied
            PROVE  Told(a, next, intents, chan.id)
        <5>1. Told(a, S, intents, chan.id)
          BY <3>4, <4>8 DEF Fits
        <5>2. a[1] = "paid" => next.pend.id # a[2]
          BY <1>2, <4>4, <5>1 DEF Told
        <5>3. a[1] = "sync" => a[2] \in Nat /\ a[2] <= m.ver
          <6>1. S.pos.sync \in Nat
            BY <3>4 DEF Fits
          <6>2. a[1] = "sync" => a[2] \in Nat /\ a[2] <= S.pos.sync
            BY <2>2, <5>1 DEF Told
          <6> QED
            BY <1>4, <4>5, <6>1, <6>2
        <5> QED
          BY <4>2, <4>3, <5>1, <5>2, <5>3 DEF Told
      <4>9. Told(what, next, intents, chan.id)
        BY <1>4, <4>2, <4>3, <4>6 DEF Told
      <4>10. twice' = FALSE /\ applied' \in {applied, applied \cup {what}}
        BY <3>1, <4>7, EffectOnce
      <4> QED
        BY <1>4, <4>2, <4>3, <4>4, <4>8, <4>9, <4>10 DEF Fits
    <3>6. CASE m.kind # "sync"
      <4>1. PICK pos : /\ next = [S EXCEPT !.pos = pos]
                       /\ pos = [S.pos EXCEPT !.backing = ReceivedBacking(S.pos, m.amt),
                                              !.receipts = @ \cup {<<m.pid, m.sid>>}]
        BY <1>1, <2>1, <2>4, <3>6 DEF ApplyEntry, IsState, Fields
      <4>2. pos.sync = S.pos.sync /\ pos.receipts = S.pos.receipts \cup {<<m.pid, m.sid>>}
        BY <1>1, <4>1 DEF PosFields
      <4>3. next.pos = pos /\ next.first = S.first /\ next.pend = S.pend
        BY <1>1, <4>1 DEF IsState, Fields
      <4>4. ~\E r \in S.pos.receipts : r[2] = m.sid
        BY <1>6, <2>4, <3>6 DEF SkipEntry, SettlementSeen
      <4>5. what[1] = "got" /\ what[2] = m.sid
        BY <3>1, <3>6 DEF EffectOf
      <4>6. what \notin applied
        BY <2>2, <3>4, <4>4, <4>5 DEF Fits, Told
      <4>7. ASSUME NEW a \in applied
            PROVE  Told(a, next, intents, chan.id)
        <5>1. Told(a, S, intents, chan.id)
          BY <3>4, <4>7 DEF Fits
        <5> QED
          BY <4>2, <4>3, <5>1 DEF Told
      <4>8. Told(what, next, intents, chan.id)
        <5>1. <<m.pid, m.sid>> \in next.pos.receipts /\ <<m.pid, m.sid>>[2] = what[2]
          BY <4>2, <4>3, <4>5
        <5> QED
          BY <4>5, <5>1 DEF Told
      <4>9. twice' = FALSE /\ applied' \in {applied, applied \cup {what}}
        BY <3>1, <4>6, EffectOnce
      <4> QED
        BY <3>4, <4>2, <4>3, <4>7, <4>8, <4>9 DEF Fits
    <3> QED
      BY <3>5, <3>6
  <2> QED
    BY <2>3, <2>4
<1> QED
  BY <1>5, <1>6

LEMMA RebindOnce ==
  ASSUME FlightInv, AckInv, ClientOnce, Rebind
  PROVE  ClientOnce'
<1>1. IsState(S) /\ DOMAIN S.pos = PosFields
  BY KnownState
<1>2. UNCHANGED <<intents, chan, applied, twice>>
  BY DEF Rebind
<1>3. CASE UNCHANGED storeVars
  <2>1. UNCHANGED Stored
    BY <1>3 DEF Stored, storeVars
  <2> QED
    BY <1>2, <2>1, OnceStill
<1>4. CASE ~UNCHANGED storeVars
  <2>1. PICK next, out : next = [S EXCEPT !.pos.chan = chan.id] /\ Save("stable", next, out)
    BY <1>4 DEF Rebind, Put
  <2>2. PICK pos : pos = [S.pos EXCEPT !.chan = chan.id]
    OBVIOUS
  <2>3. next.pend = S.pend /\ next.first = S.first /\ next.pos = pos
    BY <1>1, <2>1, <2>2 DEF IsState, Fields
  <2>4. pos.sync = S.pos.sync /\ pos.receipts = S.pos.receipts
    BY <1>1, <2>2 DEF PosFields
  <2> QED
    BY <1>2, <2>1, <2>3, <2>4, OncePlain
<1> QED
  BY <1>3, <1>4

\* The controller's own saves, and the client's.
LEMMA SpliceWritten ==
  ASSUME FlightInv, SpliceStores, NEW next, NEW out, Save("splice", next, out),
         DOMAIN next = SpliceFields
  PROVE  /\ SpliceStores'
         /\ \/ UNCHANGED P /\ UNCHANGED R
            \/ P = R /\ P' \in {P, next} /\ R' = next
         /\ out = "ok" => P' = next /\ R' = next
<1>1. "splice" \in Owners
  BY DEF Owners
<1>2. /\ rem' = IF out = "refused" THEN rem ELSE [rem EXCEPT !["splice"] = next]
      /\ mem' = IF out \in {"ok", "local"} THEN [mem EXCEPT !["splice"] = next] ELSE mem
      /\ behind' = IF out = "lost" THEN behind \cup {"splice"} ELSE behind
      /\ "splice" \in behind => out = "refused"
      /\ out \in {"ok", "local", "lost", "refused"}
  BY DEF Save, Saves
<1>3. [rem EXCEPT !["splice"] = next]["splice"] = next
      /\ [mem EXCEPT !["splice"] = next]["splice"] = next
  BY <1>1 DEF FlightInv, Stores
<1>4. CASE out = "refused"
  BY <1>2, <1>4 DEF SpliceStores, P, R
<1>5. CASE out = "lost"
  BY <1>2, <1>3, <1>5 DEF SpliceStores, P, R
<1>6. CASE out \in {"ok", "local"}
  BY <1>2, <1>3, <1>6 DEF SpliceStores, P, R
<1> QED
  BY <1>2, <1>4, <1>5, <1>6

LEMMA SpliceApart ==
  ASSUME FlightInv, SpliceStores,
         UNCHANGED <<mem, rem, behind>> \/ \E next, out : Save("stable", next, out)
  PROVE  SpliceStores' /\ UNCHANGED P /\ UNCHANGED R
<1>1. CASE UNCHANGED <<mem, rem, behind>>
  BY <1>1 DEF SpliceStores, P, R
<1>2. CASE \E next, out : Save("stable", next, out)
  <2>1. PICK next, out : Save("stable", next, out)
    BY <1>2
  <2>2. /\ rem' = IF out = "refused" THEN rem ELSE [rem EXCEPT !["stable"] = next]
        /\ mem' = IF out \in {"ok", "local"} THEN [mem EXCEPT !["stable"] = next] ELSE mem
        /\ behind' = IF out = "lost" THEN behind \cup {"stable"} ELSE behind
    BY <2>1 DEF Save
  <2>3. "splice" # "stable" /\ "splice" \in Owners
    BY DEF Owners
  <2>4. rem'["splice"] = rem["splice"] /\ mem'["splice"] = mem["splice"]
    BY <2>2, <2>3 DEF FlightInv, Stores
  <2>5. "splice" \in behind <=> "splice" \in behind'
    BY <2>2, <2>3
  <2> QED
    BY <2>4, <2>5 DEF SpliceStores, P, R
<1> QED
  BY <1>1, <1>2

\* A step of the client: it allocates nothing.
LEMMA SpliceStill ==
  ASSUME FlightInv, SpliceOnce, UNCHANGED <<ls, sjob, squote>>,
         UNCHANGED <<mem, rem, behind>> \/ \E next, out : Save("stable", next, out),
         job' = job \/ job'.pc \notin {"before", "quoted"},
         \A a \in applied' : a[1] = "splice" => a \in applied,
         applied \subseteq applied'
  PROVE  SpliceOnce'
<1>1. SpliceStores' /\ UNCHANGED P /\ UNCHANGED R
  BY SpliceApart DEF SpliceOnce
<1>2. Path' /\ Finished'
  BY <1>1 DEF SpliceOnce, Path, Finished
<1>3. Allocated' <=> Allocated
  BY DEF Allocated
<1>4. Allocating'
  BY <1>1, <1>3 DEF SpliceOnce, Allocating
<1> QED
  BY <1>1, <1>2, <1>4 DEF SpliceOnce

\* A step of the controller or of LDK that saves nothing.
LEMMA SpliceQuiet ==
  ASSUME FlightInv, SpliceOnce, UNCHANGED <<mem, rem, behind, applied, job>>,
         UNCHANGED P => Path', ls.st = "locked" => ls'.st = "locked",
         sjob # "alloc" \/ sjob' = sjob \/ job = Idle
  PROVE  SpliceOnce'
<1>1. SpliceStores' /\ UNCHANGED P /\ UNCHANGED R
  BY SpliceApart DEF SpliceOnce
<1>2. Finished' /\ Path'
  BY <1>1 DEF SpliceOnce, Finished
<1>3. Idle.pc = ""
  BY DEF Idle
<1>4. Allocating'
  BY <1>1, <1>3 DEF SpliceOnce, Allocating, Allocated
<1> QED
  BY <1>1, <1>2, <1>4 DEF SpliceOnce

\* A step of the controller that saves.
LEMMA SpliceSaves ==
  ASSUME FlightInv, SpliceOnce, NEW next, NEW out, Save("splice", next, out),
         UNCHANGED <<applied, job>>, DOMAIN next = SpliceFields, Final(P) => Final(next),
         next.status = "complete" => ls'.st = "locked", ls.st = "locked" => ls'.st = "locked",
         P' \in {P, next} => Path',
         sjob # "alloc" \/ sjob' = sjob \/ job = Idle
  PROVE  SpliceOnce'
<1>1. /\ SpliceStores'
      /\ \/ UNCHANGED P /\ UNCHANGED R
         \/ P = R /\ P' \in {P, next} /\ R' = next
  BY SpliceWritten DEF SpliceOnce
<1>2. Finished' /\ Path'
  BY <1>1 DEF SpliceOnce, Finished
<1>3. Final(P) /\ Final(R) => Final(P)' /\ Final(R)'
  BY <1>1 DEF Final
<1>4. Idle.pc = ""
  BY DEF Idle
<1>5. Allocating'
  BY <1>3, <1>4 DEF SpliceOnce, Allocating, Allocated
<1> QED
  BY <1>1, <1>2, <1>5 DEF SpliceOnce

LEMMA CommitOnce ==
  ASSUME FlightInv, SpliceOnce,
         QuoteSplice \/ CommitSplice \/ VerifyFails \/ PrepareSplice \/ FinishCommit
  PROVE  SpliceOnce'
<1>1. UNCHANGED <<applied, job>>
  BY DEF QuoteSplice, CommitSplice, VerifyFails, PrepareSplice, FinishCommit, nonStore, clientVars
<1>2. CASE QuoteSplice \/ CommitSplice \/ VerifyFails
  <2>1. UNCHANGED <<mem, rem, behind, ls>>
    BY <1>2 DEF QuoteSplice, CommitSplice, VerifyFails, storeVars
  <2>2. Path' /\ sjob # "alloc"
    BY <1>2, <2>1 DEF QuoteSplice, CommitSplice, VerifyFails, EndCommit, SpliceOnce, Path, SIdle
  <2> QED
    BY <1>1, <2>1, <2>2, SpliceQuiet
<1>3. CASE PrepareSplice
  <2>1. PICK next, out :
          /\ next = [status |-> "prepared", tx |-> 0, new |-> FALSE, conv |-> "waiting"]
          /\ Save("splice", next, out)
    BY <1>3 DEF PrepareSplice, PutSplice
  <2>2. DOMAIN next = SpliceFields /\ next.status = "prepared"
    BY <2>1 DEF SpliceFields
  <2>3. /\ sjob = "verify" /\ ls.st = "none" /\ squote' = FALSE
        /\ \/ sjob' = "started" /\ ls' = [st |-> "negotiating", tx |-> ls.tx + 1]
           \/ sjob' \in {"refused", SIdle} /\ ls' = ls
    BY <1>3 DEF PrepareSplice, EndCommit, SpliceOnce, Path
  <2>4. Path'
    <3>1. DOMAIN ls' = {"st", "tx"}
      BY <2>3 DEF SpliceOnce, Path
    <3>2. ls' = ls \/ ls'.st = "negotiating"
      BY <2>3
    <3> QED
      BY <2>3, <3>1, <3>2 DEF Path, SIdle
  <2>5. ~Final(P)
    BY <2>3 DEF SpliceOnce, Finished, Final
  <2> QED
    BY <1>1, <2>1, <2>2, <2>3, <2>4, <2>5, SpliceSaves
<1>4. CASE FinishCommit
  <2>1. PICK status, next, out :
          /\ status \in {"negotiating", "failed"}
          /\ next = [P EXCEPT !.status = status]
          /\ Save("splice", next, out)
    BY <1>4 DEF FinishCommit, PutSplice
  <2>2. DOMAIN next = SpliceFields /\ next.status \in {"negotiating", "failed"}
    BY <2>1 DEF SpliceOnce, SpliceStores, SpliceFields
  <2>3. sjob \in {"started", "refused"} /\ sjob' = SIdle /\ UNCHANGED <<ls, squote>>
    BY <1>4 DEF FinishCommit, EndCommit
  <2>4. Path'
    BY <2>3 DEF SpliceOnce, Path, SIdle
  <2>5. ~Final(P)
    BY <2>3 DEF SpliceOnce, Path, Finished, Final
  <2> QED
    BY <1>1, <2>1, <2>2, <2>3, <2>4, <2>5, SpliceSaves
<1> QED
  BY <1>2, <1>3, <1>4

LEMMA CancelOnce ==
  ASSUME FlightInv, SpliceOnce, CancelUnsigned \/ FinishCancel
  PROVE  SpliceOnce'
<1>1. UNCHANGED <<applied, job, squote>>
  BY DEF CancelUnsigned, FinishCancel, nonStore, clientVars
<1>2. CASE CancelUnsigned
  <2>1. /\ UNCHANGED <<mem, rem, behind>> /\ sjob = SIdle /\ sjob' \in {sjob, "cancel"}
        /\ SplicePending(P)
        /\ ls' = ls \/ (ls.st \in {"negotiating", "signing"} /\ ls' = [ls EXCEPT !.st = "none"])
    BY <1>2 DEF CancelUnsigned, Cancellable, storeVars
  <2>2. UNCHANGED P => Path'
    BY <1>1, <2>1 DEF SpliceOnce, Path, SIdle, SplicePending
  <2> QED
    BY <1>1, <2>1, <2>2, SpliceQuiet DEF SIdle
<1>3. CASE FinishCancel
  <2>1. PICK next, out : next = [P EXCEPT !.status = "failed"] /\ Save("splice", next, out)
    BY <1>3 DEF FinishCancel, PutSplice
  <2>2. DOMAIN next = SpliceFields /\ next.status = "failed"
    BY <2>1 DEF SpliceOnce, SpliceStores, SpliceFields
  <2>3. sjob = "cancel" /\ sjob' = SIdle /\ UNCHANGED ls
    BY <1>3 DEF FinishCancel
  <2>4. Path' /\ ~Final(P)
    BY <1>1, <2>3 DEF SpliceOnce, Path, SIdle, SplicePending, Final
  <2> QED
    BY <1>1, <2>1, <2>2, <2>3, <2>4, SpliceSaves
<1> QED
  BY <1>2, <1>3

\* handle(event) and the tick, up to the last save.
LEMMA HandleOnce ==
  ASSUME FlightInv, SpliceOnce,
         \/ HandleIdle \/ HandleSignRefused \/ HandleSignAgain \/ SubmitSigned
         \/ HandleReady \/ SpliceTick
  PROVE  SpliceOnce'
<1>1. UNCHANGED <<mem, rem, behind, applied, job, squote>>
  BY DEF HandleIdle, HandleSignRefused, HandleSignAgain, SubmitSigned, HandleReady, SpliceTick,
         storeVars, handleFrame, clientVars
<1>2. \/ ls' = ls
      \/ ls.st = "signing" /\ ls' = [ls EXCEPT !.st = "signed"]
  BY DEF HandleIdle, HandleSignRefused, HandleSignAgain, SubmitSigned, HandleReady, SpliceTick
<1>3. /\ sjob \in {SIdle, "submit"}
      /\ \/ sjob' \in {SIdle, "submit"}
         \/ sjob' \in {"rebind", "tickrebind"} /\ ls.st = "locked" /\ ls' = ls
  BY DEF HandleIdle, HandleSignRefused, HandleSignAgain, SubmitSigned, HandleReady, SpliceTick,
         HandleStart, Locked
<1>4. Path'
  BY <1>1, <1>2, <1>3 DEF SpliceOnce, Path, SIdle
<1> QED
  BY <1>1, <1>2, <1>3, <1>4, SpliceQuiet DEF SIdle

LEMMA HandleSavesOnce ==
  ASSUME FlightInv, SpliceOnce, HandleSign \/ HandlePending \/ HandleFailed
  PROVE  SpliceOnce'
<1>1. UNCHANGED <<applied, job, squote, ls>>
  BY DEF HandleSign, HandlePending, HandleFailed, handleFrame, clientVars
<1>2. PICK next, out :
        /\ \/ next = [P EXCEPT !.status = "signed", !.tx = Head1.tx]
           \/ next = [P EXCEPT !.status = "pending", !.new = TRUE]
           \/ next = [P EXCEPT !.status = "failed"]
        /\ Save("splice", next, out)
  BY DEF HandleSign, HandlePending, HandleFailed, PutSplice
<1>3. DOMAIN next = SpliceFields /\ next.status # "complete"
  BY <1>2 DEF SpliceOnce, SpliceStores, SpliceFields
<1>4. /\ sjob = SIdle /\ sjob' \in {SIdle, "submit"} /\ SplicePending(P)
  BY DEF HandleSign, HandlePending, HandleFailed, HandleStart
<1>5. Path' /\ ~Final(P)
  BY <1>1, <1>4 DEF SpliceOnce, Path, SIdle, SplicePending, Final
<1> QED
  BY <1>1, <1>2, <1>3, <1>4, <1>5, SpliceSaves DEF SIdle

LEMMA FinishOnce ==
  ASSUME FlightInv, SpliceOnce, SaveComplete \/ AllocDone
  PROVE  SpliceOnce'
<1>1. UNCHANGED <<applied, job, squote, ls>> /\ sjob' = SIdle
  BY DEF SaveComplete, AllocDone, handleFrame, nonStore, clientVars
<1>2. Path'
  BY <1>1 DEF SpliceOnce, Path, SIdle
<1>3. CASE SaveComplete
  <2>1. PICK next, out : next = [P EXCEPT !.status = "complete"] /\ Save("splice", next, out)
    BY <1>3 DEF SaveComplete, PutSplice
  <2>2. DOMAIN next = SpliceFields /\ next.status = "complete" /\ next.conv = P.conv
    BY <2>1 DEF SpliceOnce, SpliceStores, SpliceFields
  <2>3. ls.st = "locked" /\ sjob # "alloc"
    BY <1>3 DEF SaveComplete, SpliceOnce, Path
  <2>4. Final(P) => Final(next)
    BY <2>2 DEF Final
  <2> QED
    BY <1>1, <1>2, <2>1, <2>2, <2>3, <2>4, SpliceSaves
<1>4. CASE AllocDone
  <2>1. job = Idle /\ P.status = "complete" /\ ls.st = "locked"
    BY <1>4 DEF AllocDone, SpliceOnce, Path, Finished
  <2>2. CASE UNCHANGED storeVars
    BY <1>1, <1>2, <2>1, <2>2, SpliceQuiet DEF storeVars
  <2>3. CASE ~UNCHANGED storeVars
    <3>1. PICK next, out : next = [P EXCEPT !.conv = "done"] /\ Save("splice", next, out)
      BY <1>4, <2>3 DEF AllocDone, PutSplice
    <3>2. DOMAIN next = SpliceFields /\ next.conv = "done" /\ next.status = P.status
      BY <3>1 DEF SpliceOnce, SpliceStores, SpliceFields
    <3>3. Final(P) => Final(next)
      BY <3>2 DEF Final
    <3> QED
      BY <1>1, <1>2, <2>1, <3>1, <3>2, <3>3, SpliceSaves
  <2> QED
    BY <2>2, <2>3
<1> QED
  BY <1>3, <1>4

\* LDK and the other spenders.
LEMMA OutsideOnce ==
  ASSUME FlightInv, SpliceOnce,
         \/ DeliverSplice \/ Negotiated \/ NegotiationFails \/ SignaturesExchanged \/ SpliceLocks
         \/ BeginSend \/ FinishSend \/ BumpFee \/ CreateChannel \/ FundChannel \/ SubsidizeSweep
  PROVE  SpliceOnce'
<1>1. CASE DeliverSplice \/ BeginSend \/ FinishSend \/ BumpFee \/ CreateChannel \/ FundChannel
           \/ SubsidizeSweep
  <2>1. UNCHANGED <<mem, rem, behind, applied, job, squote, ls, sjob>>
    BY <1>1 DEF DeliverSplice, BeginSend, FinishSend, BumpFee, CreateChannel, FundChannel,
                SubsidizeSweep, spendFrame, storeVars, clientVars, spliceVars
  <2>2. UNCHANGED P => Path'
    BY <2>1 DEF SpliceOnce, Path
  <2> QED
    BY <2>1, <2>2, SpliceQuiet
<1>2. CASE Negotiated \/ NegotiationFails \/ SignaturesExchanged \/ SpliceLocks
  <2>1. UNCHANGED <<mem, rem, behind, applied, job, squote, sjob>>
    BY <1>2 DEF Negotiated, NegotiationFails, SignaturesExchanged, SpliceLocks, ldkFrame, storeVars
  <2>2. PICK stage :
          /\ \/ ls.st \in {"negotiating", "signing"} /\ stage \in {"signing", "none"}
             \/ ls.st \in {"signed", "pending"} /\ stage \in {"pending", "locked"}
          /\ ls' = [ls EXCEPT !.st = stage]
    BY <1>2 DEF Negotiated, NegotiationFails, SignaturesExchanged, SpliceLocks
  <2>3. DOMAIN ls' = {"st", "tx"} /\ ls'.st = stage
    BY <2>2 DEF SpliceOnce, Path
  <2>4. UNCHANGED P => Path'
    BY <2>1, <2>2, <2>3 DEF SpliceOnce, Path
  <2> QED
    BY <2>1, <2>2, <2>4, SpliceQuiet
<1> QED
  BY <1>1, <1>2

LEMMA RebindSpliceOnce ==
  ASSUME FlightInv, SpliceOnce, Rebind
  PROVE  SpliceOnce'
<1>1. UNCHANGED <<applied, job, squote, ls>> /\ sjob \in {"rebind", "tickrebind"}
  BY DEF Rebind
<1>2. UNCHANGED <<mem, rem, behind>> \/ \E next, out : Save("stable", next, out)
  BY DEF Rebind, Put, storeVars
<1>3. SpliceStores' /\ UNCHANGED P /\ UNCHANGED R
  BY <1>2, SpliceApart DEF SpliceOnce
<1>4. sjob' \in {SIdle, "complete", "tickcomplete"}
  BY DEF Rebind
<1>5. Path' /\ Finished'
  BY <1>1, <1>3, <1>4 DEF SpliceOnce, Path, Finished, SIdle
<1>6. job = Idle /\ Idle.pc = ""
  BY DEF Rebind, Start, Idle
<1>7. Allocating'
  BY <1>1, <1>3, <1>6 DEF SpliceOnce, Allocating, Allocated
<1> QED
  BY <1>3, <1>5, <1>7 DEF SpliceOnce

\* Added balance is allocated by one job, from one completed splice.
LEMMA AllocateOnce ==
  ASSUME FlightInv, SpliceOnce, AllocateAll
  PROVE  SpliceOnce'
<1>1. /\ UNCHANGED <<mem, rem, behind, applied, squote, ls>>
      /\ P.status = "complete" /\ P.conv = "waiting" /\ sjob' = "alloc"
      /\ job' = [Idle EXCEPT !.k = "alloc", !.pc = "before"]
  BY DEF AllocateAll, storeVars
<1>2. SpliceStores' /\ UNCHANGED P /\ UNCHANGED R
  BY <1>1, SpliceApart DEF SpliceOnce
<1>3. Path' /\ Finished'
  BY <1>1, <1>2 DEF SpliceOnce, Path, Finished
<1>4. ~Allocated
  BY <1>1 DEF SpliceOnce, Allocating, Final
<1>5. job'.pc = "before"
  BY <1>1 DEF Idle
<1>6. Allocating'
  BY <1>1, <1>2, <1>4, <1>5 DEF Allocating, Allocated
<1> QED
  BY <1>2, <1>3, <1>6 DEF SpliceOnce

LEMMA AttemptOnce ==
  ASSUME FlightInv, SpliceOnce, AllocAttempted
  PROVE  SpliceOnce'
<1>1. /\ UNCHANGED <<applied, squote, ls>> /\ sjob = "alloc" /\ job.pc = "before"
      /\ Idle.pc = ""
  BY DEF AllocAttempted, Idle
<1>2. PICK next, out :
        /\ next = [P EXCEPT !.conv = "attempted"] /\ Save("splice", next, out)
        /\ IF out = "ok" THEN job' = [job EXCEPT !.pc = "quoted"] /\ sjob' = sjob
           ELSE job' = Idle /\ sjob' = SIdle
  BY DEF AllocAttempted, PutSplice
<1>3. /\ DOMAIN next = SpliceFields /\ next.conv = "attempted" /\ next.status = P.status
      /\ P.status = "complete" /\ ls.st = "locked"
  BY <1>1, <1>2 DEF SpliceOnce, SpliceStores, SpliceFields, Path, Finished
<1>4. /\ SpliceStores'
      /\ \/ UNCHANGED P /\ UNCHANGED R
         \/ P = R /\ P' \in {P, next} /\ R' = next
      /\ out = "ok" => P' = next /\ R' = next
  BY <1>2, <1>3, SpliceWritten DEF SpliceOnce
<1>5. Path' /\ Finished'
  <2>1. P'.status = "complete" /\ (sjob' = "alloc" \/ sjob' = SIdle)
    BY <1>1, <1>2, <1>3, <1>4
  <2> QED
    BY <1>1, <1>3, <2>1 DEF SpliceOnce, Path, Finished, SIdle
<1>6. ~Allocated /\ ~Allocated'
  BY <1>1 DEF SpliceOnce, Allocating, Allocated
<1>7. Allocating'
  <2>1. CASE out = "ok"
    <3>1. job'.pc = "quoted"
      BY <1>2, <2>1 DEF FlightInv, Jobs
    <3>2. Final(P)' /\ Final(R)'
      BY <1>3, <1>4, <2>1 DEF Final
    <3> QED
      BY <1>1, <1>2, <1>6, <2>1, <3>1, <3>2 DEF Allocating
  <2>2. CASE out # "ok"
    BY <1>1, <1>2, <1>6, <2>2 DEF Allocating
  <2> QED
    BY <2>1, <2>2
<1> QED
  BY <1>4, <1>5, <1>7 DEF SpliceOnce

LEMMA AllocTradeSpliceOnce ==
  ASSUME FlightInv, SpliceOnce, AllocTrade
  PROVE  SpliceOnce'
<1>1. /\ UNCHANGED <<squote, ls>> /\ sjob = "alloc" /\ job.pc = "quoted"
      /\ Final(P) /\ Final(R) /\ ~Allocated /\ Idle.pc = ""
  BY DEF AllocTrade, Idle, SpliceOnce, Allocating
<1>2. CASE ~Quotable(S, 1)
  <2>1. UNCHANGED <<mem, rem, behind, applied>> /\ job' = Idle /\ sjob' = SIdle
    BY <1>2 DEF AllocTrade, storeVars, frame
  <2>2. SpliceStores' /\ UNCHANGED P /\ UNCHANGED R
    BY <2>1, SpliceApart DEF SpliceOnce
  <2>3. Path' /\ Finished'
    BY <1>1, <2>1, <2>2 DEF SpliceOnce, Path, Finished, SIdle
  <2>4. Allocating'
    BY <1>1, <2>1, <2>2 DEF Allocating, Allocated
  <2> QED
    BY <2>2, <2>3, <2>4 DEF SpliceOnce
<1>3. CASE Quotable(S, 1)
  <2>1. PICK in, what : SavePending("alloc", in, what) /\ sjob' = sjob
    BY <1>3 DEF AllocTrade
  <2>2. PICK next, out : Save("stable", next, out) /\ job' = AfterSave("alloc", in, out)
    BY <2>1 DEF SavePending, Put
  <2>3. SpliceStores' /\ UNCHANGED P /\ UNCHANGED R
    BY <2>2, SpliceApart DEF SpliceOnce
  <2>4. Path' /\ Finished'
    BY <1>1, <2>1, <2>3 DEF SpliceOnce, Path, Finished
  <2>5. job'.pc \in {"pending", ""}
    BY <1>1, <2>2 DEF AfterSave
  <2>6. Allocating'
    BY <1>1, <2>1, <2>3, <2>5 DEF Allocating, Final
  <2> QED
    BY <2>3, <2>4, <2>6 DEF SpliceOnce
<1> QED
  BY <1>2, <1>3

LEMMA AllocTradeClientOnce ==
  ASSUME FlightInv, AckInv, OnceInv, AllocTrade
  PROVE  ClientOnce'
<1>1. CASE ~Quotable(S, 1)
  <2>1. UNCHANGED <<rem, applied, twice, intents, chan>>
    BY <1>1 DEF AllocTrade, storeVars, frame
  <2> QED
    BY <2>1, OnceStill DEF OnceInv, Stored
<1>2. CASE Quotable(S, 1)
  <2>1. PICK in, what :
          SavePending("alloc", in, what) /\ in.id = intents + 1 /\ what[1] = "splice"
    <3>1. /\ NewIntent("trade", 1, Backing(S, 1), 0).id = intents + 1
          /\ <<"splice", P.tx>>[1] = "splice"
      BY DEF NewIntent
    <3> QED
      BY <1>2, <3>1 DEF AllocTrade
  <2>2. what \notin applied
    BY <2>1 DEF OnceInv, SpliceOnce, Allocating, Allocated, AllocTrade
  <2> QED
    BY <2>1, <2>2, SavePendingOnce DEF OnceInv
<1> QED
  BY <1>1, <1>2

\* A crash ends the jobs; the next session goes on from what VSS has.
LEMMA SessionsSpliceOnce ==
  ASSUME FlightInv, SpliceOnce, CrashAll \/ OpenAll \/ StartAll
  PROVE  SpliceOnce'
<1>1. UNCHANGED <<applied, rem>>
  BY DEF CrashAll, Crash, OpenAll, Open, StartAll, StartRuntime, Load, storeVars, clientVars
<1>2. CASE CrashAll
  <2>1. /\ UNCHANGED <<mem, behind>> /\ sjob' = SIdle /\ squote' = FALSE /\ job' = Idle
        /\ UNCHANGED ls \/ (ls.st # "locked" /\ \E stage : ls' = [ls EXCEPT !.st = stage])
    BY <1>2 DEF CrashAll, Crash, storeVars
  <2>2. SpliceStores' /\ UNCHANGED P /\ UNCHANGED R
    BY <1>1, <2>1, SpliceApart DEF SpliceOnce
  <2>3. DOMAIN ls' = {"st", "tx"} /\ (ls.st = "locked" => ls'.st = "locked")
    BY <2>1 DEF SpliceOnce, Path
  <2>4. Path' /\ Finished'
    BY <2>1, <2>2, <2>3 DEF SpliceOnce, Path, Finished, SIdle
  <2>5. Idle.pc = ""
    BY DEF Idle
  <2>6. Allocating'
    BY <1>1, <2>1, <2>2, <2>5 DEF SpliceOnce, Allocating, Allocated
  <2> QED
    BY <2>2, <2>4, <2>6 DEF SpliceOnce
<1>3. CASE OpenAll \/ StartAll
  <2>1. UNCHANGED <<ls, sjob, squote, job>> /\ sess # "up"
    BY <1>3 DEF OpenAll, Open, StartAll, StartRuntime, clientVars
  <2>2. sjob = SIdle /\ job = Idle /\ Idle.pc = ""
    BY <2>1 DEF FlightInv, Jobs, Idle
  <2>3. (mem' = mem /\ behind' = behind) \/ (mem' = rem /\ behind' = {})
    BY <1>3 DEF OpenAll, Open, StartAll, StartRuntime, Load, storeVars
  <2>4. SpliceStores' /\ UNCHANGED R /\ P' \in {P, R}
    BY <1>1, <2>3 DEF SpliceOnce, SpliceStores, P, R
  <2>5. Path' /\ Finished'
    BY <2>1, <2>2, <2>4 DEF SpliceOnce, Path, Finished, SIdle
  <2>6. Allocating'
    BY <1>1, <2>1, <2>2, <2>4 DEF SpliceOnce, Allocating, Allocated
  <2> QED
    BY <2>4, <2>5, <2>6 DEF SpliceOnce
<1> QED
  BY <1>2, <1>3

LEMMA SessionsClientOnce ==
  ASSUME ClientOnce, CrashAll \/ OpenAll \/ StartAll
  PROVE  ClientOnce'
<1>1. UNCHANGED <<applied, twice, intents, chan, rem>>
  BY DEF CrashAll, Crash, OpenAll, Open, StartAll, StartRuntime, Load, storeVars, clientVars
<1> QED
  BY <1>1, OnceStill DEF Stored

\* The steps that count nothing.
LEMMA PlainClientOnce ==
  ASSUME FlightInv, OnceInv,
         \/ PersistHistory \/ HistoryFails \/ SendKeysend \/ Refresh \/ TakeQuote \/ FlushLocal
         \/ OrdinaryPayment \/ CloseChannel \/ StoreManager \/ DeliverPayment \/ PaymentEnds
         \/ ProviderAnswers \/ ProviderInitiates \/ FirstReceivePaid
  PROVE  ClientOnce'
<1>1. UNCHANGED <<rem, applied, twice, intents>>
  BY DEF PersistHistory, HistoryFails, SendKeysend, Refresh, TakeQuote, FlushLocal,
     OrdinaryPayment, CloseChannel, StoreManager, DeliverPayment, PaymentEnds, ProviderAnswers,
     ProviderInitiates, FirstReceivePaid, Flush, storeVars, frame, clientVars, envFrame
<1>2. chan' = chan \/ (\E b : chan' = [chan EXCEPT !.bal = b]) \/ chan' = [chan EXCEPT !.id = 0]
  BY DEF PersistHistory, HistoryFails, SendKeysend, Refresh, TakeQuote, FlushLocal,
     OrdinaryPayment, CloseChannel, StoreManager, DeliverPayment, PaymentEnds, ProviderAnswers,
     ProviderInitiates, FirstReceivePaid, frame, clientVars, envFrame
<1>3. "id" \in DOMAIN chan => "id" \in DOMAIN chan' /\ (chan'.id # 0 => chan.id # 0)
  BY <1>2
<1>4. UNCHANGED Stored
  BY <1>1 DEF Stored
<1> QED
  BY <1>1, <1>3, <1>4, OnceStill DEF OnceInv

LEMMA SpliceClientOnce ==
  ASSUME FlightInv, OnceInv,
         \/ QuoteSplice \/ CommitSplice \/ VerifyFails \/ PrepareSplice \/ FinishCommit
         \/ FinishCancel \/ SpliceTick \/ AllocDone
         \/ BeginSend \/ FinishSend \/ BumpFee \/ CreateChannel \/ FundChannel
         \/ SubsidizeSweep
         \/ HandleIdle \/ HandleSignRefused \/ HandleSign \/ HandleSignAgain \/ SubmitSigned
         \/ HandlePending \/ HandleFailed \/ HandleReady \/ SaveComplete
         \/ CancelUnsigned \/ Negotiated \/ NegotiationFails \/ SignaturesExchanged \/ SpliceLocks
         \/ DeliverSplice \/ AllocateAll \/ AllocAttempted
  PROVE  ClientOnce'
<1>1. UNCHANGED <<applied, twice, intents>> /\ (UNCHANGED chan \/ SpliceLocks)
  BY DEF QuoteSplice, CommitSplice, VerifyFails, PrepareSplice, FinishCommit, FinishCancel,
     SpliceTick, AllocDone, BeginSend, FinishSend, BumpFee, CreateChannel, FundChannel,
     SubsidizeSweep, HandleIdle, HandleSignRefused, HandleSign, HandleSignAgain, SubmitSigned,
     HandlePending, HandleFailed, HandleReady, SaveComplete, nonStore, spendFrame, handleFrame,
     CancelUnsigned, Negotiated, NegotiationFails, SignaturesExchanged, SpliceLocks,
     DeliverSplice, AllocateAll, AllocAttempted, ldkFrame, clientVars
<1>2. UNCHANGED <<mem, rem, behind>> \/ \E next, out : Save("splice", next, out)
  BY QuietSplice, HandleSplice, SpliceEvent
  DEF DeliverSplice, AllocateAll, AllocAttempted, PutSplice, storeVars
<1>3. UNCHANGED Stored
  BY <1>2, SpliceSave, StoresStay DEF FlightInv
<1>4. "id" \in DOMAIN chan => "id" \in DOMAIN chan' /\ (chan'.id # 0 => chan.id # 0)
  <2>1. CASE UNCHANGED chan
    BY <2>1
  <2>2. CASE SpliceLocks
    <3>1. PICK id, bal : chan.id # 0 /\ chan' = [id |-> id, bal |-> bal]
      BY <2>2 DEF SpliceLocks
    <3> QED
      BY <3>1
  <2> QED
    BY <1>1, <2>1, <2>2
<1> QED
  BY <1>1, <1>3, <1>4, OnceStill DEF OnceInv

\* No job of the client touches a splice.
LEMMA ClientSpliceOnce ==
  ASSUME FlightInv, SpliceOnce, UNCHANGED spliceVars,
         \/ Enable \/ Pause \/ PrepareFirstReceive \/ ClearClosedPosition
         \/ SendNotReady \/ SendRejected \/ InboxRemove
         \/ PersistHistory \/ HistoryFails \/ SendKeysend \/ Refresh \/ TakeQuote \/ FlushLocal
         \/ OrdinaryPayment \/ CloseChannel \/ StoreManager \/ DeliverPayment \/ PaymentEnds
         \/ ProviderAnswers \/ ProviderInitiates \/ FirstReceivePaid
  PROVE  SpliceOnce'
<1>1. UNCHANGED <<mem, rem, behind>> \/ \E next, out : Save("stable", next, out)
  BY DEF Enable, Pause, PrepareFirstReceive, ClearClosedPosition, SettingsChange, SendNotReady,
     SendRejected, Withdraw, InboxRemove, PersistHistory, HistoryFails, SendKeysend, Refresh,
     TakeQuote, FlushLocal, OrdinaryPayment, CloseChannel, StoreManager, DeliverPayment,
     PaymentEnds, ProviderAnswers, ProviderInitiates, FirstReceivePaid, Flush, Put, storeVars,
     envFrame
<1>2. /\ applied' \in {applied, applied \cup {<<"cleared">>}}
      /\ job' \in {job, Idle, [job EXCEPT !.pc = "persisted"]}
  BY DEF Enable, Pause, PrepareFirstReceive, ClearClosedPosition, SettingsChange, SendNotReady,
     SendRejected, Withdraw, InboxRemove, PersistHistory, HistoryFails, SendKeysend, Refresh,
     TakeQuote, FlushLocal, OrdinaryPayment, CloseChannel, StoreManager, DeliverPayment,
     PaymentEnds, ProviderAnswers, ProviderInitiates, FirstReceivePaid, frame, clientVars,
     envFrame
<1>3. [job EXCEPT !.pc = "persisted"].pc = "persisted"
  BY DEF FlightInv, Jobs
<1>4. Idle.pc = ""
  BY DEF Idle
<1>5. UNCHANGED <<ls, sjob, squote>>
  BY DEF spliceVars
<1>6. <<"cleared">>[1] # "splice"
  OBVIOUS
<1>7. \A a \in applied' : a[1] = "splice" => a \in applied
  BY <1>2, <1>6
<1> QED
  BY <1>1, <1>2, <1>3, <1>4, <1>5, <1>7, SpliceStill

LEMMA EffectSpliceOnce ==
  ASSUME FlightInv, SpliceOnce, UNCHANGED spliceVars,
         CommitTrade \/ AutoConvert \/ SettleTick \/ EventJob \/ InboxApply
  PROVE  SpliceOnce'
<1>1. UNCHANGED <<ls, sjob, squote>>
  BY DEF spliceVars
<1>2. UNCHANGED <<mem, rem, behind>> \/ \E next, out : Save("stable", next, out)
  BY DEF CommitTrade, AutoConvert, SettleTick, SavePending, EventJob, OnOutcome, OnReceived,
     InboxApply, Put, storeVars
<1>3. \/ UNCHANGED applied
      \/ \E out, what : Effect(out, what) /\ what[1] # "splice"
  <2>1. CASE CommitTrade \/ AutoConvert \/ SettleTick
    <3>1. \E k, in, what :
             SavePending(k, in, what) /\ what \in {<<"intent", intents>>, <<"first", 0>>}
      BY <2>1 DEF CommitTrade, AutoConvert, SettleTick
    <3>2. <<"intent", intents>>[1] = "intent" /\ <<"first", 0>>[1] = "first"
      OBVIOUS
    <3>3. \E out, what : Effect(out, what) /\ what \in {<<"intent", intents>>, <<"first", 0>>}
      BY <3>1 DEF SavePending
    <3> QED
      BY <3>2, <3>3
  <2>2. CASE EventJob
    <3>1. \/ UNCHANGED applied
          \/ \E out : Effect(out, <<"paid", Head1.id>>)
      BY <2>2 DEF EventJob, OnOutcome
    <3>2. <<"paid", Head1.id>>[1] # "splice"
      OBVIOUS
    <3> QED
      BY <3>1, <3>2
  <2>3. CASE InboxApply
    <3>1. UNCHANGED applied \/ \E out, m : Effect(out, EffectOf(m))
      BY <2>3 DEF InboxApply
    <3>2. \A m : EffectOf(m)[1] # "splice"
      BY DEF EffectOf
    <3> QED
      BY <3>1, <3>2
  <2> QED
    BY <2>1, <2>2, <2>3
<1>4. \A a \in applied' : a[1] = "splice" => a \in applied
  BY <1>3 DEF Effect
<1>5. applied \subseteq applied'
  BY <1>3 DEF Effect
<1>6. job' = job \/ job'.pc \notin {"before", "quoted"}
  <2>1. \A k, in, out : AfterSave(k, in, out).pc \in {"pending", ""}
    BY DEF AfterSave, Idle
  <2>2. CASE CommitTrade \/ AutoConvert \/ SettleTick
    BY <2>1, <2>2 DEF CommitTrade, AutoConvert, SettleTick, SavePending
  <2>3. CASE EventJob
    BY <2>3 DEF EventJob
  <2>4. CASE InboxApply
    <3>1. \A in : [k |-> "inbox", pc |-> "remove", in |-> in].pc = "remove"
      OBVIOUS
    <3>2. \/ job' = Idle
          \/ \E in : job' = [k |-> "inbox", pc |-> "remove", in |-> in]
      BY <2>4 DEF InboxApply
    <3>3. Idle.pc = ""
      BY DEF Idle
    <3> QED
      BY <3>1, <3>2, <3>3
  <2> QED
    BY <2>2, <2>3, <2>4
<1> QED
  BY <1>1, <1>2, <1>4, <1>5, <1>6, SpliceStill

LEMMA SpliceOnceInit ==
  ASSUME SystemInit
  PROVE  SpliceOnce
<1>1. "splice" \in Owners /\ "splice" # "stable"
  BY DEF Owners
<1>2. /\ P = NoSplice /\ R = NoSplice /\ applied = {} /\ ls = NoLdkSplice
      /\ sjob = "idle" /\ squote = FALSE /\ job = Idle
  BY <1>1 DEF SystemInit, StoreInit, ClientInit, SpliceInit, P, R, SIdle
<1>3. /\ DOMAIN NoSplice = SpliceFields /\ NoSplice.status = "none"
      /\ DOMAIN NoLdkSplice = {"st", "tx"} /\ NoLdkSplice.st = "none" /\ Idle.pc = ""
  BY DEF NoSplice, SpliceFields, NoLdkSplice, Idle
<1> QED
  BY <1>2, <1>3 DEF SpliceOnce, SpliceStores, Path, Finished, Allocating, Allocated

LEMMA ClientOnceInit ==
  ASSUME SystemInit
  PROVE  ClientOnce
<1>1. "stable" \in Owners
  BY DEF Owners
<1>2. Stored = InitialState /\ applied = {} /\ twice = FALSE /\ intents = 0
  BY <1>1 DEF SystemInit, StoreInit, ClientInit, Stored
<1>3. /\ InitialState.pos = NoPosition /\ InitialState.pend = NoIntent
      /\ NoPosition.sync = 0 /\ NoIntent.kind = "none"
  BY DEF InitialState, NoPosition, NoIntent
<1>4. "id" \in DOMAIN chan
  BY DEF SystemInit, ClientInit
<1> QED
  BY <1>2, <1>3, <1>4 DEF ClientOnce, Fits

LEMMA SpliceOnceStep ==
  ASSUME FlightInv, SpliceOnce, [SystemNext]_allVars
  PROVE  SpliceOnce'
<1>1. CASE ClientNext /\ UNCHANGED spliceVars
  BY <1>1, ClientSpliceOnce, EffectSpliceOnce DEF ClientNext
<1>2. CASE SpliceNext
  BY <1>2, CommitOnce, CancelOnce, HandleOnce, HandleSavesOnce, FinishOnce, OutsideOnce,
     RebindSpliceOnce, AllocateOnce, AttemptOnce, AllocTradeSpliceOnce
  DEF SpliceNext
<1>3. CASE CrashAll \/ OpenAll \/ StartAll
  BY <1>3, SessionsSpliceOnce
<1>4. CASE UNCHANGED allVars
  <2>1. UNCHANGED <<mem, rem, behind, applied, job, ls, sjob, squote>>
    BY <1>4 DEF allVars, storeVars, clientVars, spliceVars
  <2> QED
    BY <2>1, SpliceStill
<1> QED
  BY <1>1, <1>2, <1>3, <1>4 DEF SystemNext

\* What has taken effect stays on record.
LEMMA RecordGrows ==
  ASSUME [SystemNext]_allVars
  PROVE  applied \subseteq applied'
<1>1. CASE UNCHANGED allVars
  BY <1>1 DEF allVars, clientVars
<1>2. CASE \/ Enable \/ Pause \/ PrepareFirstReceive \/ ClearClosedPosition
           \/ SendNotReady \/ SendRejected \/ InboxRemove
           \/ PersistHistory \/ HistoryFails \/ SendKeysend \/ Refresh \/ TakeQuote \/ FlushLocal
           \/ OrdinaryPayment \/ CloseChannel \/ StoreManager \/ DeliverPayment \/ PaymentEnds
           \/ ProviderAnswers \/ ProviderInitiates \/ FirstReceivePaid
  BY <1>2 DEF Enable, Pause, PrepareFirstReceive, ClearClosedPosition, SettingsChange,
     SendNotReady, SendRejected, Withdraw, InboxRemove, PersistHistory, HistoryFails,
     SendKeysend, Refresh, TakeQuote, FlushLocal, OrdinaryPayment, CloseChannel, StoreManager,
     DeliverPayment, PaymentEnds, ProviderAnswers, ProviderInitiates, FirstReceivePaid, frame,
     clientVars, envFrame
<1>3. CASE CommitTrade \/ AutoConvert \/ SettleTick \/ EventJob \/ InboxApply
  BY <1>3 DEF CommitTrade, AutoConvert, SettleTick, SavePending, EventJob, OnOutcome,
     OnReceived, InboxApply, Effect
<1>4. CASE Rebind \/ AllocTrade
  BY <1>4 DEF Rebind, AllocTrade, SavePending, Effect, frame
<1>5. CASE SpliceNext /\ ~(Rebind \/ AllocTrade)
  BY <1>5 DEF SpliceNext, QuoteSplice, CommitSplice, VerifyFails, PrepareSplice, FinishCommit,
     FinishCancel, SpliceTick, AllocDone, BeginSend, FinishSend, BumpFee, CreateChannel,
     FundChannel, SubsidizeSweep, HandleIdle, HandleSignRefused, HandleSign, HandleSignAgain,
     SubmitSigned, HandlePending, HandleFailed, HandleReady, SaveComplete, nonStore, spendFrame,
     handleFrame, CancelUnsigned, Negotiated, NegotiationFails, SignaturesExchanged,
     SpliceLocks, DeliverSplice, AllocateAll, AllocAttempted, ldkFrame, clientVars
<1>6. CASE CrashAll \/ OpenAll \/ StartAll
  BY <1>6 DEF CrashAll, Crash, OpenAll, Open, StartAll, StartRuntime, Load, storeVars, clientVars
<1> QED
  BY <1>1, <1>2, <1>3, <1>4, <1>5, <1>6 DEF SystemNext, ClientNext

\* A position cleared while its channel lives is on record, or was not cleared.
LEMMA ClearOnce ==
  ASSUME FlightInv, ClientOnce, ClearClosedPosition, chan.id # 0, ~ClearedInUse'
  PROVE  ClientOnce'
<1>1. PICK next, out : Save("stable", next, out) /\ out = "refused"
  BY DEF ClearClosedPosition, Put, ClearedInUse
<1>2. UNCHANGED Stored
  BY <1>1, Written
<1>3. UNCHANGED <<applied, twice, intents, chan>>
  BY DEF ClearClosedPosition, ClearedInUse
<1> QED
  BY <1>2, <1>3, OnceStill

LEMMA ClientOnceStep ==
  ASSUME FlightInv, AckInv, OnceInv, [SystemNext]_allVars, ~ClearedInUse'
  PROVE  ClientOnce'
<1>1. CASE UNCHANGED allVars
  <2>1. UNCHANGED <<rem, applied, twice, intents, chan>>
    BY <1>1 DEF allVars, storeVars, clientVars
  <2> QED
    BY <2>1, OnceStill DEF OnceInv, Stored
<1>2. CASE ClientNext /\ UNCHANGED spliceVars /\ (ClearClosedPosition => chan.id = 0)
  BY <1>2, SettingsOnce, WithdrawOnce, RemoveOnce, TradeOnce, EventOnce, ApplyOnce,
     PlainClientOnce
  DEF ClientNext, OnceInv
<1>3. CASE ClearClosedPosition /\ chan.id # 0
  BY <1>3, ClearOnce DEF OnceInv
<1>4. CASE SpliceNext
  BY <1>4, SpliceClientOnce, RebindOnce, AllocTradeClientOnce DEF SpliceNext, OnceInv
<1>5. CASE CrashAll \/ OpenAll \/ StartAll
  BY <1>5, SessionsClientOnce DEF OnceInv
<1> QED
  BY <1>1, <1>2, <1>3, <1>4, <1>5 DEF SystemNext

(***************************************************************************)
(* Nothing counts twice: a settlement paid or received, a version of the   *)
(* provider, the conversion of the first receive or of a splice's added    *)
(* balance, however often saves fail, answers are lost, events replayed    *)
(* and jobs repeated, unless a position was cleared while its channel was  *)
(* in use.  clearClosedPosition accepts another channel, and a splice      *)
(* gives the channel a new id before the position is bound to it.          *)
(***************************************************************************)
THEOREM CountedOnce == System => []AppliedOnce
<1> DEFINE Counted == FlightInv /\ AckInv /\ SpliceOnce /\ (ClearedInUse \/ ClientOnce)
<1>1. SystemInit => Counted
  BY FlightInit, AckInit, ClientOnceInit, SpliceOnceInit
<1>2. Counted /\ [SystemNext]_allVars => Counted'
  <2> SUFFICES ASSUME Counted, [SystemNext]_allVars
               PROVE  Counted'
    OBVIOUS
  <2>1. FlightInv' /\ AckInv' /\ SpliceOnce'
    BY FlightStep, AckStep, SpliceOnceStep
  <2>2. CASE ClearedInUse
    BY <2>1, <2>2, RecordGrows DEF ClearedInUse
  <2>3. CASE ~ClearedInUse
    BY <2>1, <2>3, ClientOnceStep DEF OnceInv
  <2> QED
    BY <2>2, <2>3
<1>3. Counted => AppliedOnce
  BY DEF ClientOnce, AppliedOnce
<1> QED
  BY <1>1, <1>2, <1>3, PTL DEF System

-----------------------------------------------------------------------------
(* The signed splice.  Between the save of the signed transaction and the  *)
(* confirmation no event may fail it in the stored state, so a failure     *)
(* never follows the signing request of the splice under way.              *)

Ordered(q, tx) ==
  \A i, j \in 1 .. Len(q) : i < j /\ q[i].t = "sign" /\ q[i].tx = tx => q[j].t # "sfail"
Fails(q) == \E e \in Elements(q) : e.t = "sfail"

LEMMA OrderedAppend ==
  ASSUME NEW q, IsSeq(q), NEW tx, Ordered(q, tx), NEW e, e.t # "sfail"
  PROVE  Ordered(Append(q, e), tx)
<1>1. PICK E : q \in Seq(E)
  BY DEF IsSeq
<1>2. q \in Seq(E \cup {e})
  BY <1>1
<1>3. PICK r : r = Append(q, e)
  OBVIOUS
<1>4. /\ Len(q) \in Nat /\ Len(r) = Len(q) + 1 /\ r[Len(q) + 1] = e
      /\ \A i \in 1 .. Len(q) : r[i] = q[i]
  BY <1>2, <1>3
<1>5. ASSUME NEW i \in 1 .. Len(r), NEW j \in 1 .. Len(r), i < j, r[i].t = "sign", r[i].tx = tx
      PROVE  r[j].t # "sfail"
  <2>1. CASE j \in 1 .. Len(q)
    <3>1. i \in 1 .. Len(q)
      BY <1>4, <1>5, <2>1
    <3> QED
      BY <1>4, <1>5, <2>1, <3>1 DEF Ordered
  <2>2. j \in 1 .. Len(q) \/ j = Len(q) + 1
    BY <1>4
  <2> QED
    BY <1>4, <2>1, <2>2
<1> QED
  BY <1>3, <1>5 DEF Ordered

LEMMA OrderedSuffix ==
  ASSUME NEW u, NEW q, IsSeq(u), IsSeq(q), NEW tx, Ordered(u \o q, tx)
  PROVE  Ordered(q, tx)
<1>1. PICK E, F : u \in Seq(E) /\ q \in Seq(F)
  BY DEF IsSeq
<1>2. u \in Seq(E \cup F) /\ q \in Seq(E \cup F)
  BY <1>1
<1>3. /\ Len(u) \in Nat /\ Len(q) \in Nat /\ Len(u \o q) = Len(u) + Len(q)
      /\ \A i \in 1 .. Len(q) : (u \o q)[Len(u) + i] = q[i]
  BY <1>2
<1>4. ASSUME NEW i \in 1 .. Len(q), NEW j \in 1 .. Len(q), i < j, q[i].t = "sign", q[i].tx = tx
      PROVE  q[j].t # "sfail"
  <2>1. /\ Len(u) + i \in 1 .. Len(u \o q) /\ Len(u) + j \in 1 .. Len(u \o q)
        /\ Len(u) + i < Len(u) + j
    BY <1>3, <1>4
  <2>2. (u \o q)[Len(u) + i] = q[i] /\ (u \o q)[Len(u) + j] = q[j]
    BY <1>3
  <2> QED
    BY <1>4, <2>1, <2>2 DEF Ordered
<1> QED
  BY <1>4 DEF Ordered

\* A transaction nobody has been asked to sign.
LEMMA OrderedFresh ==
  ASSUME NEW q, NEW tx, \A e \in Elements(q) : e.t = "sign" => e.tx # tx
  PROVE  Ordered(q, tx)
  BY DEF Elements, Ordered

\* After the request at the head there is no failure.
LEMMA OrderedHead ==
  ASSUME NEW q, IsSeq(q), q # <<>>, NEW tx, Ordered(q, tx), q[1].t = "sign", q[1].tx = tx
  PROVE  ~Fails(q)
<1>1. PICK E : q \in Seq(E)
  BY DEF IsSeq
<1>2. Len(q) \in Nat /\ Len(q) >= 1
  BY <1>1
<1>3. ASSUME NEW j \in 1 .. Len(q)
      PROVE  q[j].t # "sfail"
  <2>1. CASE j = 1
    BY <2>1
  <2>2. CASE j # 1
    <3>1. 1 \in 1 .. Len(q) /\ 1 < j
      BY <1>2, <2>2
    <3> QED
      BY <3>1 DEF Ordered
  <2> QED
    BY <2>1, <2>2
<1> QED
  BY <1>3 DEF Fails, Elements

-----------------------------------------------------------------------------

\* LDK has a splice that may still be signed, or is.
Live == ls.st \in {"negotiating", "signing"} \/ SignatureOut
Disk == disk["splice"]

\* What LDK asks: one signature of one transaction, no failure after it.
Asked ==
  /\ ls.tx \in Nat /\ (Live => ls.tx # 0)
  /\ \A e \in Queued : e.t = "sign" => e.tx \in 1 .. ls.tx
  /\ Live => Ordered(unsaved \o evq, ls.tx)
  /\ SignatureOut => ~Fails(evq)

\* What the running job goes by.
Working ==
  /\ sjob = "verify" => ~SplicePending(P)
  /\ sjob \in {"started", "refused"} => SplicePending(P) /\ ~Signed(P)
  /\ sjob = "refused" => ls.st = "none"
  /\ sjob = "cancel" => ~Signed(P)
  /\ sjob = "submit" => /\ Head1.t = "sign" /\ P.tx = Head1.tx /\ SplicePending(P)
                        /\ ls.st # "locked" => SplicePending(R) /\ R.tx = P.tx

\* A failure VSS has and memory has not, since the answer was lost: its event
\* stays at the head until the wallet loads again.
Stuck == evq # <<>> /\ Head1.t = "sfail" /\ gate # "done"
Followed ==
  sess = "up" /\ ls.st # "locked" /\ SplicePending(P) /\ Signed(P)
    => (SplicePending(R) /\ R.tx = P.tx) \/ Stuck

\* A splice that may be signed keeps the coin.
Ours ==
  Live /\ SplicePending(R) =>
    /\ SplicePending(Disk) /\ (sess # "off" => reserved)
    /\ coin \notin {"send", "bump"}

SignInv ==
  /\ disk = [o \in Owners |-> disk[o]]
  /\ Asked /\ Working /\ Followed /\ SignedIsSaved /\ Ours

\* The queue grows by another event, loses its front to the stored manager,
\* or moves on.
QueueMoves ==
  \/ UNCHANGED evq /\ unsaved' \in {unsaved, <<>>}
  \/ /\ \E e : Emit(e) /\ e.t \notin {"sign", "sfail"}
     /\ unsaved' \in {unsaved, <<>>} /\ UNCHANGED gate
  \/ evq # <<>> /\ gate # "pending" /\ Acknowledge

LEMMA QueueStaysInOrder ==
  ASSUME FlightInv, QueueMoves
  PROVE  /\ \A e \in Queued' : e.t \in {"sign", "sfail"} => e \in Queued
         /\ Fails(evq)' => Fails(evq)
         /\ \A tx : Ordered(unsaved \o evq, tx) => Ordered(unsaved' \o evq', tx)
<1>1. IsSeq(unsaved) /\ IsSeq(evq)
  BY DEF FlightInv, Queues
<1>2. ASSUME unsaved' \in {unsaved, <<>>}
      PROVE  /\ IsSeq(unsaved') /\ Elements(unsaved') \subseteq Elements(unsaved)
             /\ \A tx : Ordered(unsaved \o evq, tx) => Ordered(unsaved' \o evq, tx)
  <2>1. \A tx : Ordered(unsaved \o evq, tx) => Ordered(<<>> \o evq, tx)
    BY <1>1, OrderedSuffix, JoinedEmpty
  <2> QED
    BY <1>1, <1>2, <2>1, EmptySeq
<1>3. CASE UNCHANGED evq /\ unsaved' \in {unsaved, <<>>}
  BY <1>2, <1>3 DEF Queued, Fails
<1>4. CASE /\ \E e : Emit(e) /\ e.t \notin {"sign", "sfail"}
           /\ unsaved' \in {unsaved, <<>>}
  <2>1. PICK e : evq' = Append(evq, e) /\ e.t \notin {"sign", "sfail"}
    BY <1>4 DEF Emit
  <2>2. Elements(evq') = Elements(evq) \cup {e}
    BY <1>1, <2>1, Appended
  <2>3. IsSeq(unsaved' \o evq) /\ unsaved' \o evq' = Append(unsaved' \o evq, e)
    BY <1>1, <1>2, <1>4, <2>1, Joined, JoinedAppend
  <2>4. \A tx : Ordered(unsaved \o evq, tx) => Ordered(unsaved' \o evq', tx)
    BY <1>2, <1>4, <2>1, <2>3, OrderedAppend
  <2> QED
    BY <1>2, <1>4, <2>1, <2>2, <2>4 DEF Queued, Fails
<1>5. CASE evq # <<>> /\ Acknowledge
  <2>1. evq' = Tail(evq) /\ unsaved' = Append(unsaved, evq[1])
    BY <1>5 DEF Acknowledge, Head1
  <2>2. Elements(evq') \subseteq Elements(evq) /\ evq[1] \in Elements(evq)
        /\ Elements(unsaved') = Elements(unsaved) \cup {evq[1]}
    BY <1>1, <1>5, <2>1, Tailed, Appended
  <2>3. unsaved' \o evq' = unsaved \o evq
    BY <1>1, <1>5, <2>1, MovedAlong
  <2> QED
    BY <2>2, <2>3 DEF Queued, Fails
<1> QED
  BY <1>3, <1>4, <1>5 DEF QueueMoves

\* The event at the head stays there, unless the gate was done with it.
HeadStays == UNCHANGED evq \/ \E e : Emit(e)
Patient ==
  /\ gate' = "done" => gate = "done" \/ Head1.t # "sfail"
  /\ HeadStays \/ gate = "done" \/ sess # "up" \/ Head1.t # "sfail"

LEMMA SameHead ==
  ASSUME FlightInv, evq # <<>>, HeadStays
  PROVE  evq' # <<>> /\ Head1' = Head1
<1>1. IsSeq(evq)
  BY DEF FlightInv, Queues
<1> QED
  BY <1>1, Appended DEF HeadStays, Emit, Head1

LEMMA StuckStays ==
  ASSUME FlightInv, Patient, sess = "up", Stuck
  PROVE  Stuck'
<1>1. HeadStays /\ gate' # "done" /\ evq # <<>>
  BY DEF Stuck, Patient
<1> QED
  BY <1>1, SameHead DEF Stuck

\* A save of the controller: what memory, VSS and IndexedDB have after it.
LEMMA SpliceSaved ==
  ASSUME FlightInv, SpliceStores, disk = [o \in Owners |-> disk[o]],
         NEW next, NEW out, Save("splice", next, out)
  PROVE  /\ disk' = [o \in Owners |-> disk'[o]]
         /\ \/ out = "refused" /\ UNCHANGED <<P, R, Disk>>
            \/ /\ out \in {"ok", "local", "lost"} /\ P = R /\ R' = next
               /\ P' = IF out = "lost" THEN P ELSE next
               /\ Disk' = IF out = "ok" THEN next ELSE Disk
<1>1. "splice" \in Owners
  BY DEF Owners
<1>2. /\ rem' = IF out = "refused" THEN rem ELSE [rem EXCEPT !["splice"] = next]
      /\ mem' = IF out \in {"ok", "local"} THEN [mem EXCEPT !["splice"] = next] ELSE mem
      /\ disk' = IF out = "ok" THEN [disk EXCEPT !["splice"] = next] ELSE disk
      /\ "splice" \in behind => out = "refused"
      /\ out \in {"ok", "local", "lost", "refused"}
  BY DEF Save, Saves
<1>3. /\ [rem EXCEPT !["splice"] = next]["splice"] = next
      /\ [mem EXCEPT !["splice"] = next]["splice"] = next
  BY <1>1 DEF FlightInv, Stores
<1>4. PICK d : d = [disk EXCEPT !["splice"] = next]
  OBVIOUS
<1>5. d["splice"] = next /\ d = [o \in Owners |-> d[o]]
  BY <1>1, <1>4
<1>6. disk' = [o \in Owners |-> disk'[o]] /\ Disk' = IF out = "ok" THEN next ELSE Disk
  BY <1>2, <1>4, <1>5 DEF Disk
<1>7. CASE out = "refused"
  BY <1>2, <1>6, <1>7 DEF P, R
<1>8. CASE out = "lost"
  BY <1>2, <1>3, <1>6, <1>8 DEF SpliceStores, P, R
<1>9. CASE out \in {"ok", "local"}
  BY <1>2, <1>3, <1>6, <1>9 DEF SpliceStores, P, R
<1> QED
  BY <1>2, <1>6, <1>7, <1>8, <1>9

\* What the client writes to IndexedDB is its own.
LEMMA DiskApart ==
  ASSUME disk = [o \in Owners |-> disk[o]],
         \/ UNCHANGED disk
         \/ \E x : disk' = [disk EXCEPT !["stable"] = x]
         \/ \E next, out : Save("stable", next, out)
  PROVE  disk' = [o \in Owners |-> disk'[o]] /\ UNCHANGED Disk
<1>1. UNCHANGED disk \/ \E x : disk' = [disk EXCEPT !["stable"] = x]
  BY DEF Save
<1>2. "splice" \in Owners /\ "splice" # "stable"
  BY DEF Owners
<1> QED
  BY <1>1, <1>2 DEF Disk

LEMMA AskedStays ==
  ASSUME FlightInv, Asked, QueueMoves, UNCHANGED ls
  PROVE  Asked'
<1>1. /\ \A e \in Queued' : e.t \in {"sign", "sfail"} => e \in Queued
      /\ Fails(evq)' => Fails(evq)
      /\ \A tx : Ordered(unsaved \o evq, tx) => Ordered(unsaved' \o evq', tx)
  BY QueueStaysInOrder
<1>2. Live' = Live /\ SignatureOut' = SignatureOut
  BY DEF Live, SignatureOut
<1>3. Ordered(unsaved \o evq, ls.tx)' <=> Ordered(unsaved' \o evq', ls.tx)
  BY DEF Ordered
<1> QED
  BY <1>1, <1>2, <1>3 DEF Asked

\* A step that writes nothing of the splice.
LEMMA SignStill ==
  ASSUME FlightInv, SignInv, UNCHANGED <<P, R, Disk>>, disk' = [o \in Owners |-> disk'[o]],
         UNCHANGED <<ls, sess, reserved>>, Asked', Working',
         \/ Patient \/ ~SplicePending(P) \/ ls.st = "locked",
         Live /\ SplicePending(R) => coin' = coin \/ coin' \notin {"send", "bump"}
  PROVE  SignInv'
<1>1. Live' = Live /\ SignatureOut' = SignatureOut
  BY DEF Live, SignatureOut
<1>2. Followed'
  <2>1. SUFFICES ASSUME sess = "up", ls.st # "locked", SplicePending(P), Signed(P)
                 PROVE  (SplicePending(R) /\ R.tx = P.tx) \/ Stuck'
    BY DEF Followed
  <2> QED
    BY <2>1, StuckStays DEF SignInv, Followed
<1>3. SignedIsSaved'
  BY <1>1 DEF SignInv, SignedIsSaved, R
<1>4. Ours'
  BY <1>1 DEF SignInv, Ours
<1> QED
  BY <1>2, <1>3, <1>4 DEF SignInv

\* A step that saves the splice.
LEMMA SignSave ==
  ASSUME FlightInv, SpliceOnce, SignInv, NEW next, NEW out, PutSplice(next, out),
         UNCHANGED <<ls, sess, coin>>, Asked', Working',
         ls.st = "locked" \/ out = "ok" \/ Patient,
         P = R /\ SplicePending(P) /\ Signed(P) /\ ls.st # "locked" =>
           (SplicePending(next) /\ next.tx = P.tx) \/ (out # "ok" => Stuck'),
         P = R /\ SignatureOut => SplicePending(next) /\ next.tx = P.tx,
         P = R /\ Live /\ SplicePending(next) => SplicePending(P)
  PROVE  SignInv'
<1>1. Live' = Live /\ SignatureOut' = SignatureOut
  BY DEF Live, SignatureOut
<1>2. /\ disk' = [o \in Owners |-> disk'[o]]
      /\ \/ out = "refused" /\ UNCHANGED <<P, R, Disk>>
         \/ /\ out \in {"ok", "local", "lost"} /\ P = R /\ R' = next
            /\ P' = IF out = "lost" THEN P ELSE next
            /\ Disk' = IF out = "ok" THEN next ELSE Disk
  BY SpliceSaved DEF PutSplice, SignInv, SpliceOnce
<1>3. reserved' = IF out \in {"ok", "local"} THEN SplicePending(next) ELSE reserved
  BY DEF PutSplice, Reserves
<1>4. Followed'
  <2>1. SUFFICES ASSUME sess = "up", ls.st # "locked", SplicePending(P'), Signed(P')
                 PROVE  (SplicePending(R') /\ R'.tx = P'.tx) \/ Stuck'
    BY DEF Followed
  <2>2. CASE out = "refused"
    BY <1>2, <2>1, <2>2, StuckStays DEF SignInv, Followed
  <2>3. CASE out # "refused"
    BY <1>2, <2>1, <2>3
  <2> QED
    BY <2>2, <2>3
<1>5. SignedIsSaved'
  BY <1>1, <1>2 DEF SignInv, SignedIsSaved, R
<1>6. Ours'
  <2>1. CASE out = "refused"
    BY <1>1, <1>2, <1>3, <2>1 DEF SignInv, Ours
  <2>2. CASE out # "refused"
    BY <1>1, <1>2, <1>3, <2>2 DEF SignInv, Ours
  <2> QED
    BY <2>1, <2>2
<1> QED
  BY <1>2, <1>4, <1>5, <1>6 DEF SignInv

\* A step that neither saves the splice nor moves it on.
LEMMA SignQuiet ==
  ASSUME FlightInv, SpliceOnce, SignInv, UNCHANGED <<ls, sess, reserved>>,
         UNCHANGED <<mem, rem, behind>> \/ \E next, out : Save("stable", next, out),
         \/ UNCHANGED disk
         \/ \E x : disk' = [disk EXCEPT !["stable"] = x]
         \/ \E next, out : Save("stable", next, out),
         QueueMoves, Working',
         \/ Patient \/ ~SplicePending(P) \/ ls.st = "locked",
         Live /\ SplicePending(R) => coin' = coin \/ coin' \notin {"send", "bump"}
  PROVE  SignInv'
<1>1. UNCHANGED P /\ UNCHANGED R
  BY SpliceApart DEF SpliceOnce
<1>2. disk' = [o \in Owners |-> disk'[o]] /\ UNCHANGED Disk
  BY DiskApart DEF SignInv
<1>3. Asked'
  BY AskedStays DEF SignInv
<1> QED
  BY <1>1, <1>2, <1>3, SignStill

LEMMA WorkingStays ==
  ASSUME FlightInv, Working, UNCHANGED P, UNCHANGED R, UNCHANGED <<ls, sjob>>,
         sjob = "submit" => HeadStays
  PROVE  Working'
<1>1. CASE sjob = "submit"
  <2>1. evq # <<>>
    BY <1>1 DEF FlightInv, Heads
  <2>2. Head1' = Head1
    BY <1>1, <2>1, SameHead
  <2> QED
    BY <1>1, <2>2 DEF Working
<1>2. CASE sjob # "submit"
  BY <1>2 DEF Working
<1> QED
  BY <1>1, <1>2

\* The client's steps and what they do to LDK's queue.
PayEvents == {"sent", "failed", "recv"}
PaysMove ==
  \/ /\ UNCHANGED evq /\ unsaved' \in {unsaved, <<>>}
     /\ gate' \in {gate, "pending"} \/ (gate = "pending" /\ Head1.t \in PayEvents)
  \/ (\E e : Emit(e) /\ e.t \in PayEvents) /\ UNCHANGED <<gate, unsaved>>
  \/ evq # <<>> /\ gate # "pending" /\ Head1.t \in PayEvents /\ Acknowledge

LEMMA ClientQueue ==
  ASSUME ClientNext
  PROVE  PaysMove
<1>1. CASE \/ Enable \/ Pause \/ PrepareFirstReceive \/ ClearClosedPosition
           \/ Refresh \/ TakeQuote \/ CommitTrade \/ AutoConvert \/ SettleTick
           \/ SendNotReady \/ PersistHistory \/ HistoryFails \/ SendRejected \/ SendKeysend
           \/ InboxApply \/ InboxRemove \/ OrdinaryPayment \/ CloseChannel \/ FlushLocal
  <2>1. UNCHANGED <<evq, gate, unsaved>>
    BY <1>1 DEF Enable, Pause, PrepareFirstReceive, ClearClosedPosition, SettingsChange,
       Refresh, TakeQuote, CommitTrade, AutoConvert, SettleTick, SavePending,
       SendNotReady, PersistHistory, HistoryFails, SendRejected, SendKeysend, Withdraw,
       InboxApply, InboxRemove, OrdinaryPayment, CloseChannel, FlushLocal, frame, envFrame,
       queueVars
  <2> QED
    BY <2>1 DEF PaysMove
<1>2. CASE StoreManager
  BY <1>2 DEF StoreManager, PaysMove
<1>3. CASE EventJob
  <2>1. gate = "pending" /\ Head1.t \in PayEvents
    BY <1>3 DEF EventJob, PayEvents
  <2>2. UNCHANGED <<evq, unsaved>>
    BY <1>3 DEF EventJob, OnReceived, OnOutcome, GateSettles
  <2> QED
    BY <2>1, <2>2 DEF PaysMove
<1>4. CASE DeliverPayment
  <2>1. evq # <<>> /\ Head1.t \in PayEvents
    BY <1>4 DEF DeliverPayment, PayEvents
  <2>2. \/ gate' = "pending" /\ UNCHANGED <<evq, unsaved>>
        \/ gate \in {"done", "none"} /\ Acknowledge
    BY <1>4 DEF DeliverPayment
  <2> QED
    BY <2>1, <2>2 DEF PaysMove
<1>5. CASE PaymentEnds
  <2>1. UNCHANGED <<gate, unsaved>>
    BY <1>5 DEF PaymentEnds, envFrame
  <2>2. \E id : Emit([t |-> "sent", id |-> id]) \/ Emit([t |-> "failed", id |-> id])
    BY <1>5 DEF PaymentEnds
  <2>3. \E e : Emit(e) /\ e.t \in PayEvents
    <3>1. \A id : [t |-> "sent", id |-> id].t = "sent" /\ [t |-> "failed", id |-> id].t = "failed"
      OBVIOUS
    <3> QED
      BY <2>2, <3>1 DEF PayEvents
  <2> QED
    BY <2>1, <2>3 DEF PaysMove
<1>6. CASE ProviderAnswers \/ ProviderInitiates \/ FirstReceivePaid
  <2>1. UNCHANGED <<gate, unsaved>>
    BY <1>6 DEF ProviderAnswers, ProviderInitiates, FirstReceivePaid, envFrame
  <2>2. \E m : ProviderPays(m)
    BY <1>6 DEF ProviderAnswers, ProviderInitiates, FirstReceivePaid
  <2>3. PICK m : Emit([t |-> "recv", m |-> m])
    BY <2>2 DEF ProviderPays
  <2>4. [t |-> "recv", m |-> m].t \in PayEvents
    BY DEF PayEvents
  <2> QED
    BY <2>1, <2>3, <2>4 DEF PaysMove
<1> QED
  BY <1>1, <1>2, <1>3, <1>4, <1>5, <1>6 DEF ClientNext

LEMMA ClientSaves ==
  ASSUME ClientNext
  PROVE  /\ UNCHANGED sess
         /\ \/ UNCHANGED <<mem, rem, behind, disk>>
            \/ UNCHANGED <<mem, rem, behind>> /\ \E x : disk' = [disk EXCEPT !["stable"] = x]
            \/ \E next, out : Save("stable", next, out)
<1>1. CASE \/ Refresh \/ TakeQuote \/ PersistHistory \/ HistoryFails \/ SendKeysend
           \/ DeliverPayment \/ StoreManager \/ PaymentEnds
           \/ ProviderAnswers \/ ProviderInitiates \/ FirstReceivePaid
           \/ OrdinaryPayment \/ CloseChannel \/ FlushLocal
  BY <1>1 DEF Refresh, TakeQuote, PersistHistory, HistoryFails, SendKeysend,
     DeliverPayment, StoreManager, PaymentEnds, ProviderAnswers, ProviderInitiates,
     FirstReceivePaid, OrdinaryPayment, CloseChannel, FlushLocal, Flush, storeVars, frame,
     envFrame
<1>2. CASE \/ Enable \/ Pause \/ PrepareFirstReceive \/ ClearClosedPosition
           \/ SendNotReady \/ SendRejected \/ InboxRemove
  BY <1>2 DEF Enable, Pause, PrepareFirstReceive, ClearClosedPosition, SettingsChange,
     SendNotReady, SendRejected, Withdraw, InboxRemove, Put, frame
<1>3. CASE CommitTrade \/ AutoConvert \/ SettleTick
  BY <1>3 DEF CommitTrade, AutoConvert, SettleTick, SavePending, Put
<1>4. CASE EventJob \/ InboxApply
  BY <1>4 DEF EventJob, OnReceived, OnOutcome, InboxApply, Put, eventFrame, storeVars
<1> QED
  BY <1>1, <1>2, <1>3, <1>4 DEF ClientNext

LEMMA ClientSign ==
  ASSUME FlightInv, SpliceOnce, SignInv, ClientNext, UNCHANGED spliceVars
  PROVE  SignInv'
<1>1. UNCHANGED <<ls, sjob, reserved, coin>>
  BY DEF spliceVars
<1>2. /\ \A t \in PayEvents : t \notin SpliceEvents /\ t # "sfail"
      /\ "sign" \notin PayEvents
  BY DEF PayEvents, SpliceEvents
<1>3. QueueMoves /\ Patient
  BY <1>2, ClientQueue DEF PaysMove, QueueMoves, Patient, HeadStays
<1>4. sjob = "submit" => HeadStays
  BY <1>2, ClientQueue DEF PaysMove, HeadStays, FlightInv, Heads
<1>5. UNCHANGED sess
  BY ClientSaves
<1>6. UNCHANGED <<mem, rem, behind>> \/ \E next, out : Save("stable", next, out)
  BY ClientSaves
<1>7. \/ UNCHANGED disk
      \/ \E x : disk' = [disk EXCEPT !["stable"] = x]
      \/ \E next, out : Save("stable", next, out)
  BY ClientSaves
<1>8. UNCHANGED P /\ UNCHANGED R
  BY <1>6, SpliceApart DEF SpliceOnce
<1>9. Working'
  BY <1>1, <1>4, <1>8, WorkingStays DEF SignInv
<1> QED
  BY <1>1, <1>3, <1>5, <1>6, <1>7, <1>9, SignQuiet

\* What a signature means for the state in memory.
LEMMA SignedKnown ==
  ASSUME SignInv, P = R, SignatureOut
  PROVE  Signed(P) /\ P.tx = ls.tx /\ SplicePending(P)
BY DEF SignInv, SignedIsSaved, Asked, Live, Signed, R

\* The saves of commit and cancelUnsigned.
LEMMA CommitSign ==
  ASSUME FlightInv, SpliceOnce, SignInv, FinishCommit \/ FinishCancel
  PROVE  SignInv'
<1>1. /\ UNCHANGED <<ls, sess, coin>> /\ sjob' = SIdle
      /\ UNCHANGED <<evq, gate>> /\ unsaved' \in {unsaved, <<>>}
  BY DEF FinishCommit, FinishCancel, EndCommit, nonStore, queueVars
<1>2. SplicePending(P) /\ ~Signed(P)
  BY DEF FinishCommit, FinishCancel, SignInv, Working, SpliceOnce, Path
<1>3. QueueMoves /\ Patient
  BY <1>1 DEF QueueMoves, Patient, HeadStays
<1>4. Asked'
  BY <1>1, <1>3, AskedStays DEF SignInv
<1>5. Working'
  BY <1>1 DEF Working, SIdle
<1>6. \E next, out : PutSplice(next, out)
  BY DEF FinishCommit, FinishCancel
<1> QED
  BY <1>1, <1>2, <1>3, <1>4, <1>5, <1>6, SignedKnown, SignSave

\* handle(event) up to its save.
LEMMA HandleSignSave ==
  ASSUME FlightInv, SpliceOnce, SignInv, HandleSign
  PROVE  SignInv'
<1>1. /\ UNCHANGED <<ls, sess, coin, evq, unsaved>> /\ sjob = SIdle
      /\ SplicePending(P) /\ ~Signed(P) /\ Head1.t = "sign"
  BY DEF HandleSign, HandleStart, handleFrame, queueVars, GateSettles
<1>2. PICK out : /\ PutSplice([P EXCEPT !.status = "signed", !.tx = Head1.tx], out)
                 /\ IF out = "ok" THEN sjob' = "submit" /\ UNCHANGED gate
                    ELSE gate' = "none" /\ sjob' = sjob
  BY DEF HandleSign, GateSettles, queueVars
<1>3. PICK next : next = [P EXCEPT !.status = "signed", !.tx = Head1.tx]
  OBVIOUS
<1>4. next.tx = Head1.tx /\ SplicePending(next)
  BY <1>3 DEF SpliceOnce, SpliceStores, SpliceFields, SplicePending
<1>5. QueueMoves
  BY <1>1 DEF QueueMoves
<1>6. Asked'
  BY <1>1, <1>5, AskedStays DEF SignInv
<1>7. Working'
  <2>1. CASE out = "ok"
    <3>1. P' = next /\ R' = next
      BY <1>2, <1>3, <2>1, SpliceSaved DEF PutSplice, SpliceOnce, SignInv
    <3>2. Head1' = Head1 /\ sjob' = "submit"
      BY <1>1, <1>2, <2>1 DEF Head1
    <3> QED
      BY <1>1, <1>4, <3>1, <3>2 DEF Working
  <2>2. CASE out # "ok"
    BY <1>1, <1>2, <2>2 DEF Working, SIdle
  <2> QED
    BY <2>1, <2>2
<1>8. Patient
  BY <1>1, <1>2 DEF Patient, HeadStays
<1> QED
  BY <1>1, <1>2, <1>3, <1>6, <1>7, <1>8, SignedKnown, SignSave

LEMMA HandlePendingSave ==
  ASSUME FlightInv, SpliceOnce, SignInv, HandlePending
  PROVE  SignInv'
<1>1. /\ UNCHANGED <<ls, sess, coin, evq, unsaved, sjob>> /\ sjob = SIdle /\ SplicePending(P)
      /\ Head1.t = "spending"
  BY DEF HandlePending, HandleStart, handleFrame, GateSettles
<1>2. PICK out : PutSplice([P EXCEPT !.status = "pending", !.new = TRUE], out)
  BY DEF HandlePending
<1>3. PICK next : next = [P EXCEPT !.status = "pending", !.new = TRUE]
  OBVIOUS
<1>4. next.tx = P.tx /\ SplicePending(next)
  BY <1>3 DEF SpliceOnce, SpliceStores, SpliceFields, SplicePending
<1>5. QueueMoves /\ Patient
  BY <1>1 DEF QueueMoves, Patient, HeadStays
<1>6. Asked'
  BY <1>1, <1>5, AskedStays DEF SignInv
<1>7. Working'
  BY <1>1 DEF Working, SIdle
<1> QED
  BY <1>1, <1>2, <1>3, <1>4, <1>5, <1>6, <1>7, SignedKnown, SignSave

LEMMA HandleFailedSave ==
  ASSUME FlightInv, SpliceOnce, SignInv, HandleFailed
  PROVE  SignInv'
<1>1. /\ UNCHANGED <<ls, sess, coin, evq, unsaved, sjob>> /\ sjob = SIdle /\ SplicePending(P)
      /\ evq # <<>> /\ Head1.t = "sfail"
  BY DEF HandleFailed, HandleStart, handleFrame, GateSettles
<1>2. PICK out : /\ PutSplice([P EXCEPT !.status = "failed"], out)
                 /\ gate' = IF out = "ok" THEN "done" ELSE "none"
  BY DEF HandleFailed, GateSettles
<1>3. ~SignatureOut
  <2>1. IsSeq(evq)
    BY DEF FlightInv, Queues
  <2>2. Head1 \in Elements(evq)
    BY <1>1, <2>1, Tailed DEF Head1
  <2> QED
    BY <1>1, <2>2 DEF Fails, SignInv, Asked
<1>4. QueueMoves /\ HeadStays
  BY <1>1 DEF QueueMoves, HeadStays
<1>5. Asked'
  BY <1>1, <1>4, AskedStays DEF SignInv
<1>6. Working'
  BY <1>1 DEF Working, SIdle
<1>7. out # "ok" => Patient /\ Stuck'
  <2>1. Head1' = Head1
    BY <1>1 DEF Head1
  <2> QED
    BY <1>1, <1>2, <1>4, <2>1 DEF Patient, Stuck
<1> QED
  BY <1>1, <1>2, <1>3, <1>5, <1>6, <1>7, SignSave

\* After the confirmation nothing is left to lose.
LEMMA LockedSave ==
  ASSUME FlightInv, SpliceOnce, SignInv, SaveComplete \/ AllocAttempted \/ AllocDone
  PROVE  SignInv'
<1>1. /\ UNCHANGED <<ls, sess, coin, evq, unsaved>>
      /\ sjob' \in {SIdle, "alloc"}
  BY DEF SaveComplete, AllocAttempted, AllocDone, handleFrame, nonStore, queueVars, GateSettles
<1>2. ls.st = "locked"
  BY DEF SaveComplete, AllocAttempted, AllocDone, SpliceOnce, Path, Finished
<1>3. ~Live /\ ~SignatureOut
  BY <1>2 DEF Live, SignatureOut
<1>4. QueueMoves
  BY <1>1 DEF QueueMoves
<1>5. Asked'
  BY <1>1, <1>4, AskedStays DEF SignInv
<1>6. Working'
  BY <1>1 DEF Working, SIdle
<1>7. CASE \E next, out : PutSplice(next, out)
  BY <1>1, <1>2, <1>3, <1>5, <1>6, <1>7, SignSave
<1>8. CASE UNCHANGED <<mem, rem, behind, disk, reserved>>
  BY <1>1, <1>2, <1>3, <1>4, <1>6, <1>8, SignQuiet
<1> QED
  BY <1>7, <1>8 DEF SaveComplete, AllocAttempted, AllocDone, storeVars

\* The controller's steps that save nothing.
LEMMA QuoteSign ==
  ASSUME FlightInv, SpliceOnce, SignInv,
         \/ QuoteSplice \/ CommitSplice \/ VerifyFails \/ SpliceTick \/ AllocateAll
         \/ BeginSend \/ FinishSend \/ BumpFee \/ CreateChannel \/ FundChannel \/ SubsidizeSweep
  PROVE  SignInv'
<1>1. /\ UNCHANGED <<mem, rem, behind, disk>> /\ UNCHANGED <<ls, sess, reserved>>
      /\ UNCHANGED <<evq, gate, unsaved>>
  BY DEF QuoteSplice, CommitSplice, VerifyFails, SpliceTick, AllocateAll, BeginSend, FinishSend,
     BumpFee, CreateChannel, FundChannel, SubsidizeSweep, nonStore, handleFrame, spendFrame,
     storeVars, queueVars
<1>2. \/ UNCHANGED sjob
      \/ sjob' \in {SIdle, "tickrebind", "alloc"}
      \/ sjob' = "verify" /\ ~SplicePending(P)
  BY DEF QuoteSplice, CommitSplice, VerifyFails, EndCommit, SpliceTick, AllocateAll, BeginSend,
     FinishSend, BumpFee, CreateChannel, FundChannel, SubsidizeSweep, spendFrame
<1>3. UNCHANGED P /\ UNCHANGED R
  BY <1>1, SpliceApart DEF SpliceOnce
<1>4. QueueMoves /\ Patient /\ HeadStays
  BY <1>1 DEF QueueMoves, Patient, HeadStays
<1>5. Working'
  <2>1. CASE UNCHANGED sjob
    BY <1>1, <1>3, <1>4, <2>1, WorkingStays DEF SignInv
  <2>2. CASE ~UNCHANGED sjob
    BY <1>2, <1>3, <2>2 DEF Working, SIdle
  <2> QED
    BY <2>1, <2>2
<1>6. Live /\ SplicePending(R) => coin' = coin \/ coin' \notin {"send", "bump"}
  <2>1. SUFFICES ASSUME Live, SplicePending(R), coin' # coin
                 PROVE  coin' \notin {"send", "bump"}
    OBVIOUS
  <2>2. SplicePending(disk["splice"]) /\ (sess # "off" => reserved)
    BY <2>1 DEF SignInv, Ours, Disk
  <2>3. FundChannel \/ SubsidizeSweep
    BY <2>1, <2>2 DEF QuoteSplice, CommitSplice, VerifyFails, SpliceTick, AllocateAll,
       BeginSend, FinishSend, BumpFee, CreateChannel, nonStore, handleFrame
  <2> QED
    BY <2>1, <2>3 DEF FundChannel, SubsidizeSweep
<1> QED
  BY <1>1, <1>4, <1>5, <1>6, SignQuiet

\* handle(event) without a save.
LEMMA HandleSigned ==
  ASSUME FlightInv, SpliceOnce, SignInv,
         HandleIdle \/ HandleSignRefused \/ HandleSignAgain \/ HandleReady
  PROVE  SignInv'
<1>1. /\ UNCHANGED <<mem, rem, behind, disk>> /\ UNCHANGED <<ls, sess, reserved, coin>>
      /\ UNCHANGED <<evq, unsaved>> /\ sess = "up" /\ gate = "pending" /\ sjob = SIdle
  BY DEF HandleIdle, HandleSignRefused, HandleSignAgain, HandleReady, HandleStart, handleFrame,
     storeVars, queueVars, GateSettles
<1>2. UNCHANGED P /\ UNCHANGED R
  BY <1>1, SpliceApart DEF SpliceOnce
<1>3. \/ HandleIdle /\ ~SplicePending(P) /\ sjob' = SIdle
      \/ HandleSignAgain /\ sjob' = "submit" /\ UNCHANGED gate
      \/ Head1.t \in {"sign", "ready"} /\ sjob' \in {SIdle, "rebind"}
  BY <1>1 DEF HandleIdle, HandleSignRefused, HandleSignAgain, HandleReady, HandleStart, queueVars
<1>4. Patient \/ ~SplicePending(P)
  BY <1>1, <1>3 DEF Patient, HeadStays
<1>5. QueueMoves
  BY <1>1 DEF QueueMoves
<1>6. Working'
  <2>1. CASE sjob' \in {SIdle, "rebind"}
    BY <2>1 DEF Working, SIdle
  <2>2. CASE HandleSignAgain /\ sjob' = "submit"
    <3>1. Head1.t = "sign" /\ SplicePending(P) /\ P.tx = Head1.tx /\ evq # <<>> /\ Head1' = Head1
      BY <1>1, <2>2 DEF HandleSignAgain, HandleStart, Head1
    <3>2. ASSUME ls.st # "locked"
          PROVE  SplicePending(R) /\ R.tx = P.tx
      <4>1. Head1 \in Queued
        BY <3>1, Tailed DEF FlightInv, Queues, Queued, Head1
      <4>2. Signed(P)
        BY <3>1, <4>1 DEF SignInv, Asked, Signed
      <4>3. ~Stuck
        BY <3>1 DEF Stuck
      <4> QED
        BY <1>1, <3>1, <3>2, <4>2, <4>3 DEF SignInv, Followed
    <3> QED
      BY <1>1, <1>2, <2>2, <3>1, <3>2 DEF Working
  <2> QED
    BY <1>3, <2>1, <2>2
<1> QED
  BY <1>1, <1>4, <1>5, <1>6, SignQuiet

\* LDK delivers, the client's queue rebinds and trades.
LEMMA DeliverSign ==
  ASSUME FlightInv, SpliceOnce, SignInv, DeliverSplice
  PROVE  SignInv'
<1>1. /\ UNCHANGED <<mem, rem, behind, disk>> /\ UNCHANGED <<ls, sess, reserved, coin, sjob>>
      /\ evq # <<>>
      /\ \/ gate' = "pending" /\ UNCHANGED <<evq, unsaved>>
         \/ /\ gate # "pending" /\ Acknowledge
            /\ gate = "done" \/ Head1.t = "ready"
  BY DEF DeliverSplice, storeVars, spliceVars
<1>2. UNCHANGED P /\ UNCHANGED R
  BY <1>1, SpliceApart DEF SpliceOnce
<1>3. QueueMoves /\ Patient
  BY <1>1 DEF QueueMoves, Patient, HeadStays, Acknowledge
<1>4. sjob = "submit" => HeadStays
  BY <1>1 DEF FlightInv, Heads, HeadStays
<1>5. Working'
  BY <1>1, <1>2, <1>4, WorkingStays DEF SignInv
<1> QED
  BY <1>1, <1>3, <1>5, SignQuiet

LEMMA RebindSign ==
  ASSUME FlightInv, SpliceOnce, SignInv, Rebind \/ AllocTrade
  PROVE  SignInv'
<1>1. /\ UNCHANGED <<ls, sess, reserved, coin>> /\ UNCHANGED <<evq, unsaved>>
      /\ sjob' \in {SIdle, "complete", "tickcomplete", "alloc"}
      /\ gate' \in {gate, "none"}
  BY DEF Rebind, AllocTrade, JobThrows, GateSettles, queueVars, SavePending, frame
<1>2. \/ UNCHANGED <<mem, rem, behind, disk>>
      \/ \E next, out : Save("stable", next, out)
  BY DEF Rebind, AllocTrade, SavePending, Put, storeVars
<1>3. QueueMoves /\ Patient
  BY <1>1 DEF QueueMoves, Patient, HeadStays
<1>4. Working'
  BY <1>1 DEF Working, SIdle
<1> QED
  BY <1>1, <1>2, <1>3, <1>4, SignQuiet

\* LDK gets the signature of the transaction the stored state names.
LEMMA SubmitSign ==
  ASSUME FlightInv, SpliceOnce, SignInv, SubmitSigned
  PROVE  SignInv'
<1>1. /\ UNCHANGED <<mem, rem, behind, disk>> /\ UNCHANGED <<sess, reserved, coin>>
      /\ UNCHANGED evq /\ unsaved' \in {unsaved, <<>>} /\ sjob = "submit" /\ sjob' = SIdle
      /\ \/ UNCHANGED ls
         \/ ls.st = "signing" /\ ls.tx = P.tx /\ ls' = [ls EXCEPT !.st = "signed"]
  BY DEF SubmitSigned, handleFrame, storeVars, GateSettles
<1>2. UNCHANGED P /\ UNCHANGED R
  BY <1>1, SpliceApart DEF SpliceOnce
<1>3. /\ Head1.t = "sign" /\ P.tx = Head1.tx /\ SplicePending(P) /\ evq # <<>>
      /\ ls.st # "locked" => SplicePending(R) /\ R.tx = P.tx
  BY <1>1 DEF SignInv, Working, FlightInv, Heads
<1>4. QueueMoves /\ Patient
  BY <1>1, <1>3 DEF QueueMoves, Patient, HeadStays
<1>5. Working'
  BY <1>1 DEF Working, SIdle
<1>6. CASE UNCHANGED ls
  BY <1>1, <1>4, <1>5, <1>6, SignQuiet
<1>7. CASE ls.st = "signing" /\ ls.tx = P.tx /\ ls' = [ls EXCEPT !.st = "signed"]
  <2>1. ls'.st = "signed" /\ ls'.tx = ls.tx /\ Live /\ Live'
    BY <1>7 DEF SpliceOnce, Path, Live, SignatureOut
  <2>2. /\ \A e \in Queued' : e.t \in {"sign", "sfail"} => e \in Queued
        /\ Ordered(unsaved \o evq, ls.tx) => Ordered(unsaved' \o evq', ls.tx)
    BY <1>4, QueueStaysInOrder
  <2>3. Ordered(unsaved \o evq, ls.tx)
    BY <2>1 DEF SignInv, Asked
  <2>4. ~Fails(evq')
    <3>1. IsSeq(unsaved) /\ IsSeq(evq)
      BY DEF FlightInv, Queues
    <3>2. Ordered(evq, ls.tx)
      BY <2>3, <3>1, OrderedSuffix
    <3>3. ~Fails(evq)
      BY <1>3, <1>7, <3>1, <3>2, OrderedHead DEF Head1
    <3> QED
      BY <1>1, <3>3 DEF Fails
  <2>5. Asked'
    <3>1. Ordered(unsaved \o evq, ls.tx)'
      BY <2>1, <2>2, <2>3 DEF Ordered
    <3>2. ~Fails(evq)'
      BY <2>4 DEF Fails
    <3> QED
      BY <2>1, <2>2, <3>1, <3>2 DEF SignInv, Asked
  <2>6. R.tx = ls.tx /\ SplicePending(R) /\ R.tx = P.tx
    BY <1>3, <1>7
  <2>7. Followed' /\ SignedIsSaved'
    BY <1>2, <2>1, <2>6 DEF Followed, SignedIsSaved, R
  <2>8. Ours'
    BY <1>1, <1>2, <2>1 DEF SignInv, Ours, Disk
  <2> QED
    BY <1>1, <1>5, <2>5, <2>7, <2>8 DEF SignInv
<1> QED
  BY <1>1, <1>6, <1>7

\* LDK gives up a splice it has no signature for.
LEMMA GivenUp ==
  ASSUME FlightInv, SpliceOnce, SignInv, UNCHANGED <<mem, rem, behind, disk>>, UNCHANGED gate,
         ls.st \in {"negotiating", "signing"}, ls' = [ls EXCEPT !.st = "none"],
         Emit([t |-> "sfail"]), unsaved' \in {unsaved, <<>>}, UNCHANGED sess,
         UNCHANGED sjob \/ (sjob' = "cancel" /\ ~Signed(P))
  PROVE  SignInv'
<1>1. UNCHANGED P /\ UNCHANGED R
  BY SpliceApart DEF SpliceOnce
<1>2. ls'.st = "none" /\ ls'.tx = ls.tx /\ ~Live' /\ ~SignatureOut'
  BY DEF SpliceOnce, Path, Live, SignatureOut
<1>3. IsSeq(evq) /\ IsSeq(unsaved)
  BY DEF FlightInv, Queues
<1>4. [t |-> "sfail"].t = "sfail"
  OBVIOUS
<1>5. Elements(evq') = Elements(evq) \cup {[t |-> "sfail"]}
  BY <1>3, Appended DEF Emit
<1>6. \A e \in Queued' : e.t = "sign" => e \in Queued
  BY <1>3, <1>4, <1>5, EmptySeq DEF Queued
<1>7. Asked'
  BY <1>2, <1>6 DEF SignInv, Asked
<1>8. HeadStays
  BY DEF HeadStays
<1>9. Working'
  <2>1. CASE sjob' = "submit"
    <3>1. evq # <<>> /\ sjob = "submit"
      BY <2>1 DEF FlightInv, Heads
    <3>2. Head1' = Head1
      BY <1>8, <3>1, SameHead
    <3> QED
      BY <1>1, <2>1, <3>1, <3>2 DEF SignInv, Working
  <2>2. CASE sjob' # "submit"
    BY <1>1, <1>2, <2>2 DEF SignInv, Working
  <2> QED
    BY <2>1, <2>2
<1>10. Followed'
  <2>1. SUFFICES ASSUME sess = "up", SplicePending(P), Signed(P)
                 PROVE  (SplicePending(R) /\ R.tx = P.tx) \/ Stuck'
    BY <1>1 DEF Followed
  <2>2. (SplicePending(R) /\ R.tx = P.tx) \/ Stuck
    BY <2>1 DEF SignInv, Followed
  <2>3. CASE Stuck
    <3>1. evq' # <<>> /\ Head1' = Head1
      BY <1>8, <2>3, SameHead DEF Stuck
    <3> QED
      BY <2>3, <3>1 DEF Stuck
  <2> QED
    BY <2>2, <2>3
<1>11. SignedIsSaved' /\ Ours'
  BY <1>2 DEF SignedIsSaved, Ours
<1> QED
  BY <1>7, <1>9, <1>10, <1>11 DEF SignInv

LEMMA CancelSign ==
  ASSUME FlightInv, SpliceOnce, SignInv, CancelUnsigned \/ NegotiationFails
  PROVE  SignInv'
<1>1. /\ UNCHANGED <<mem, rem, behind, disk>> /\ UNCHANGED <<sess, reserved, coin, gate>>
      /\ unsaved' \in {unsaved, <<>>}
      /\ UNCHANGED sjob \/ (sjob' = "cancel" /\ ~Signed(P))
  BY DEF CancelUnsigned, NegotiationFails, ldkFrame, storeVars, Cancellable
<1>2. CASE ls.st \in {"negotiating", "signing"}
  <2>1. ls' = [ls EXCEPT !.st = "none"] /\ Emit([t |-> "sfail"])
    BY <1>2 DEF CancelUnsigned, NegotiationFails
  <2> QED
    BY <1>1, <1>2, <2>1, GivenUp
<1>3. CASE ls.st \notin {"negotiating", "signing"}
  <2>1. UNCHANGED <<ls, evq>>
    BY <1>3 DEF CancelUnsigned, NegotiationFails
  <2>2. UNCHANGED P /\ UNCHANGED R
    BY <1>1, SpliceApart DEF SpliceOnce
  <2>3. QueueMoves /\ Patient /\ HeadStays
    BY <1>1, <2>1 DEF QueueMoves, Patient, HeadStays
  <2>4. Working'
    <3>1. CASE UNCHANGED sjob
      BY <2>1, <2>2, <2>3, <3>1, WorkingStays DEF SignInv
    <3>2. CASE sjob' = "cancel" /\ ~Signed(P)
      BY <2>2, <3>2 DEF Working
    <3> QED
      BY <1>1, <3>1, <3>2
  <2> QED
    BY <1>1, <2>1, <2>3, <2>4, SignQuiet
<1> QED
  BY <1>2, <1>3

\* The other steps of LDK's splice.
LEMMA LdkSign ==
  ASSUME FlightInv, SpliceOnce, SignInv, Negotiated \/ SignaturesExchanged \/ SpliceLocks
  PROVE  SignInv'
<1>1. /\ UNCHANGED <<mem, rem, behind, disk>>
      /\ UNCHANGED <<sess, reserved, coin, gate, unsaved, sjob>>
  BY DEF Negotiated, SignaturesExchanged, SpliceLocks, ldkFrame, storeVars
<1>2. UNCHANGED P /\ UNCHANGED R
  BY <1>1, SpliceApart DEF SpliceOnce
<1>3. PICK stage, e :
        /\ ls' = [ls EXCEPT !.st = stage] /\ Emit(e)
        /\ \/ ls.st = "negotiating" /\ stage = "signing" /\ e = [t |-> "sign", tx |-> ls.tx]
           \/ ls.st = "signed" /\ stage = "pending" /\ e = [t |-> "spending"]
           \/ ls.st = "pending" /\ stage = "locked" /\ e = [t |-> "ready"]
  BY DEF Negotiated, SignaturesExchanged, SpliceLocks
<1>4. /\ [t |-> "sign", tx |-> ls.tx].t = "sign" /\ [t |-> "sign", tx |-> ls.tx].tx = ls.tx
      /\ [t |-> "spending"].t = "spending" /\ [t |-> "ready"].t = "ready"
  OBVIOUS
<1>5. e.t # "sfail" /\ (e.t = "sign" => e.tx = ls.tx)
  BY <1>3, <1>4
<1>6. ls'.st = stage /\ ls'.tx = ls.tx
  BY <1>3 DEF SpliceOnce, Path
<1>7. Live /\ (Live' \/ ls'.st = "locked") /\ (SignatureOut' => SignatureOut)
  BY <1>3, <1>6 DEF Live, SignatureOut
<1>8. IsSeq(evq) /\ IsSeq(unsaved)
  BY DEF FlightInv, Queues
<1>9. Elements(evq') = Elements(evq) \cup {e}
  BY <1>3, <1>8, Appended DEF Emit
<1>10. Asked'
  <2>1. ls.tx \in Nat /\ ls.tx # 0 /\ ls.tx \in 1 .. ls.tx
    BY <1>7 DEF SignInv, Asked
  <2>2. \A f \in Queued' : f.t = "sign" => f.tx \in 1 .. ls.tx
    BY <1>1, <1>5, <1>9, <2>1 DEF SignInv, Asked, Queued
  <2>3. Ordered(unsaved' \o evq', ls.tx)
    <3>1. IsSeq(unsaved \o evq) /\ unsaved \o evq' = Append(unsaved \o evq, e)
      BY <1>3, <1>8, Joined, JoinedAppend DEF Emit
    <3>2. Ordered(unsaved \o evq, ls.tx)
      BY <1>7 DEF SignInv, Asked
    <3> QED
      BY <1>1, <1>5, <3>1, <3>2, OrderedAppend
  <2>4. Ordered(unsaved \o evq, ls.tx)'
    BY <1>6, <2>3 DEF Ordered
  <2>5. SignatureOut' => ~Fails(evq)'
    BY <1>5, <1>7, <1>9 DEF SignInv, Asked, Fails
  <2> QED
    BY <1>6, <2>1, <2>2, <2>4, <2>5 DEF Asked
<1>11. HeadStays
  BY <1>3 DEF HeadStays
<1>12. Working'
  <2>1. CASE sjob = "submit"
    <3>1. evq # <<>>
      BY <2>1 DEF FlightInv, Heads
    <3>2. Head1' = Head1
      BY <1>11, <3>1, SameHead
    <3> QED
      BY <1>1, <1>2, <1>3, <2>1, <3>2 DEF SignInv, Working
  <2>2. CASE sjob # "submit"
    BY <1>1, <1>2, <1>3, <2>2 DEF SignInv, Working
  <2> QED
    BY <2>1, <2>2
<1>13. Followed'
  <2>1. SUFFICES ASSUME sess = "up", SplicePending(P), Signed(P)
                 PROVE  (SplicePending(R) /\ R.tx = P.tx) \/ Stuck'
    BY <1>1, <1>2 DEF Followed
  <2>2. (SplicePending(R) /\ R.tx = P.tx) \/ Stuck
    BY <1>3, <2>1 DEF SignInv, Followed
  <2>3. CASE Stuck
    <3>1. evq' # <<>> /\ Head1' = Head1
      BY <1>11, <2>3, SameHead DEF Stuck
    <3> QED
      BY <1>1, <2>3, <3>1 DEF Stuck
  <2> QED
    BY <2>2, <2>3
<1>14. SignedIsSaved'
  BY <1>2, <1>6, <1>7 DEF SignInv, SignedIsSaved, R
<1>15. Ours'
  BY <1>1, <1>2, <1>7 DEF SignInv, Ours, Disk
<1> QED
  BY <1>1, <1>10, <1>12, <1>13, <1>14, <1>15 DEF SignInv

\* A splice starts with its stored state, before LDK hears of it.
LEMMA PrepareSign ==
  ASSUME FlightInv, SpliceOnce, SignInv, PrepareSplice
  PROVE  SignInv'
<1> DEFINE next == [status |-> "prepared", tx |-> 0, new |-> FALSE, conv |-> "waiting"]
<1>1. /\ UNCHANGED <<sess, coin, evq, gate, unsaved>> /\ sjob = "verify" /\ coin = "free"
  BY DEF PrepareSplice, nonStore, queueVars
<1>2. PICK out :
        /\ PutSplice(next, out)
        /\ \/ out = "ok" /\ ls' = [st |-> "negotiating", tx |-> ls.tx + 1] /\ sjob' = "started"
           \/ out = "ok" /\ sjob' = "refused" /\ UNCHANGED ls
           \/ out # "ok" /\ sjob' = SIdle /\ UNCHANGED ls
  BY DEF PrepareSplice, EndCommit
<1>3. SplicePending(next) /\ ~Signed(next)
  BY DEF SplicePending, Signed
<1> HIDE DEF next
<1>4. ~SplicePending(P) /\ ls.st = "none"
  BY <1>1 DEF SignInv, Working, SpliceOnce, Path
<1>5. ~Live /\ ~SignatureOut
  BY <1>4 DEF Live, SignatureOut
<1>6. out = "ok" => P' = next /\ R' = next /\ Disk' = next
  BY <1>2, SpliceSaved DEF PutSplice, SpliceOnce, SignInv
<1>7. QueueMoves /\ Patient
  BY <1>1 DEF QueueMoves, Patient, HeadStays
<1>8. CASE UNCHANGED ls
  <2>1. Asked'
    BY <1>7, <1>8, AskedStays DEF SignInv
  <2>2. Working'
    BY <1>2, <1>3, <1>4, <1>6, <1>8 DEF Working, SIdle
  <2> QED
    BY <1>1, <1>2, <1>4, <1>5, <1>7, <1>8, <2>1, <2>2, SignSave
<1>9. CASE out = "ok" /\ ls' = [st |-> "negotiating", tx |-> ls.tx + 1] /\ sjob' = "started"
  <2>1. ls'.st = "negotiating" /\ ls'.tx = ls.tx + 1 /\ ls.tx \in Nat
    BY <1>9 DEF SignInv, Asked
  <2>2. ~SignatureOut'
    BY <2>1 DEF SignatureOut
  <2>3. \A e \in Queued : e.t = "sign" => e.tx \in 1 .. ls.tx + 1 /\ e.tx # ls.tx + 1
    BY <2>1 DEF SignInv, Asked
  <2>4. Asked'
    <3>1. IsSeq(evq) /\ IsSeq(unsaved)
      BY DEF FlightInv, Queues
    <3>2. Elements(unsaved \o evq) = Queued
      BY <3>1, Joined DEF Queued
    <3>3. Ordered(unsaved \o evq, ls.tx + 1)
      BY <2>3, <3>2, OrderedFresh
    <3>4. Ordered(unsaved \o evq, ls.tx)'
      BY <1>1, <2>1, <3>3 DEF Ordered
    <3>5. Queued' = Queued /\ ls.tx + 1 \in Nat /\ ls.tx + 1 # 0
      BY <1>1, <2>1 DEF Queued
    <3> QED
      BY <2>1, <2>2, <2>3, <3>4, <3>5 DEF Asked
  <2>5. Working'
    BY <1>3, <1>6, <1>9 DEF Working
  <2>6. Followed' /\ SignedIsSaved'
    BY <1>3, <1>6, <1>9, <2>2 DEF Followed, SignedIsSaved
  <2>7. Ours'
    <3>1. reserved'
      BY <1>2, <1>3, <1>9 DEF PutSplice, Reserves
    <3> QED
      BY <1>1, <1>3, <1>6, <1>9, <3>1 DEF Ours
  <2>8. disk' = [o \in Owners |-> disk'[o]]
    BY <1>2, SpliceSaved DEF PutSplice, SpliceOnce, SignInv
  <2> QED
    BY <2>4, <2>5, <2>6, <2>7, <2>8 DEF SignInv
<1> QED
  BY <1>2, <1>8, <1>9

\* A crash: LDK goes back to what it had stored, and asks again.
LEMMA CrashSign ==
  ASSUME FlightInv, SpliceOnce, SignInv, CrashAll
  PROVE  SignInv'
<1>1. /\ UNCHANGED <<mem, rem, behind, disk>> /\ UNCHANGED coin /\ sess' = "off" /\ sjob' = SIdle
      /\ evq' = unsaved \o evq /\ unsaved' = <<>>
  BY DEF CrashAll, Crash, ReplayAll, storeVars
<1>2. UNCHANGED P /\ UNCHANGED R
  BY <1>1, SpliceApart DEF SpliceOnce
<1>3. IsSeq(evq) /\ IsSeq(unsaved) /\ IsSeq(unsaved \o evq)
      /\ Elements(unsaved \o evq) = Queued
  BY Joined DEF FlightInv, Queues, Queued
<1>4. \/ UNCHANGED ls /\ ~(OlderManager /\ SignatureOut)
      \/ ls' = [ls EXCEPT !.st = "none"]
      \/ ls.st = "signed" /\ ls' = [ls EXCEPT !.st = "signing"]
  BY DEF CrashAll
<1>5. /\ ls'.tx = ls.tx /\ (Live' => Live)
      /\ SignatureOut' => SignatureOut /\ ~OlderManager
  BY <1>4 DEF SpliceOnce, Path, Live, SignatureOut
<1>6. Asked'
  <2>1. Queued' = Queued
    BY <1>1, <1>3, EmptySeq DEF Queued
  <2>2. Live' => Ordered(unsaved \o evq, ls.tx)'
    <3>1. <<>> \o (unsaved \o evq) = unsaved \o evq
      BY <1>3, JoinedEmpty
    <3>2. Live => Ordered(unsaved \o evq, ls.tx)
      BY DEF SignInv, Asked
    <3> QED
      BY <1>1, <1>5, <3>1, <3>2 DEF Ordered
  <2>3. SignatureOut' => ~Fails(evq)'
    <3>1. SUFFICES ASSUME SignatureOut, ~OlderManager
                   PROVE  ~Fails(evq)'
      BY <1>5
    <3>2. DOMAIN unsaved = 1 .. Len(unsaved)
      BY <1>3 DEF IsSeq
    <3>3. \A e \in Elements(unsaved) : e.t # "sfail"
      BY <3>1, <3>2 DEF OlderManager, Elements
    <3>4. \A e \in Elements(evq) : e.t # "sfail"
      BY <3>1 DEF SignInv, Asked, Fails
    <3> QED
      BY <1>1, <1>3, <3>3, <3>4 DEF Fails, Queued
  <2> QED
    BY <1>5, <2>1, <2>2, <2>3 DEF SignInv, Asked
<1>7. Working' /\ Followed'
  BY <1>1 DEF Working, Followed, SIdle
<1>8. SignedIsSaved'
  BY <1>2, <1>5 DEF SignInv, SignedIsSaved, R
<1>9. Ours'
  BY <1>1, <1>2, <1>5 DEF SignInv, Ours, Disk
<1> QED
  BY <1>1, <1>6, <1>7, <1>8, <1>9 DEF SignInv

\* The next session reserves the inputs before it loads, and loads from VSS.
LEMMA OpenSign ==
  ASSUME FlightInv, SpliceOnce, SignInv, OpenAll \/ StartAll
  PROVE  SignInv'
<1>1. UNCHANGED <<rem, ls, sjob, coin, evq, gate, unsaved>> /\ sess # "up"
  BY DEF OpenAll, Open, StartAll, StartRuntime, Load, storeVars, queueVars
<1>2. sjob = SIdle
  BY <1>1 DEF FlightInv, Jobs
<1>3. Working'
  BY <1>1, <1>2 DEF Working, SIdle
<1>4. Asked'
  BY <1>1 DEF SignInv, Asked, Live, SignatureOut, Queued, Fails, Ordered
<1>5. UNCHANGED R /\ Live' = Live
  BY <1>1 DEF R, Live, SignatureOut
<1>6. SignedIsSaved'
  BY <1>1 DEF SignInv, SignedIsSaved, SignatureOut
<1>7. CASE OpenAll
  <2>1. UNCHANGED <<mem, disk>> /\ sess' = "recovering" /\ reserved' = SplicePending(Disk)
    BY <1>7 DEF OpenAll, Open, storeVars, Disk
  <2>2. Followed' /\ Ours'
    BY <1>1, <1>5, <2>1 DEF SignInv, Followed, Ours, Disk
  <2> QED
    BY <1>3, <1>4, <1>6, <2>1, <2>2 DEF SignInv
<1>8. CASE StartAll
  <2>1. mem' = rem /\ disk' = rem /\ reserved' = SplicePending(R)
    BY <1>8 DEF StartAll, StartRuntime, Load, R
  <2>2. P' = R /\ Disk' = R
    BY <2>1 DEF P, R, Disk
  <2>3. Followed' /\ Ours'
    BY <1>1, <1>5, <2>1, <2>2 DEF SignInv, Followed, Ours
  <2>4. disk' = [o \in Owners |-> disk'[o]]
    BY <2>1 DEF FlightInv, Stores
  <2> QED
    BY <1>3, <1>4, <1>6, <2>3, <2>4 DEF SignInv
<1> QED
  BY <1>7, <1>8

LEMMA SignInit ==
  ASSUME SystemInit
  PROVE  SignInv
<1>1. disk = [o \in Owners |-> disk[o]]
  BY DEF SystemInit, StoreInit
<1>2. ls.st = "none" /\ ls.tx = 0 /\ sjob = "idle" /\ sess = "recovering"
      /\ evq = <<>> /\ unsaved = <<>>
  BY DEF SystemInit, StoreInit, SpliceInit, NoLdkSplice, SIdle
<1>3. ~Live /\ ~SignatureOut
  BY <1>2 DEF Live, SignatureOut
<1>4. Asked
  BY <1>2, <1>3, EmptySeq DEF Asked, Queued
<1>5. Working /\ Followed
  BY <1>2 DEF Working, Followed
<1> QED
  BY <1>1, <1>3, <1>4, <1>5 DEF SignInv, SignedIsSaved, Ours

LEMMA SignStep ==
  ASSUME FlightInv, SpliceOnce, SignInv, [SystemNext]_allVars
  PROVE  SignInv'
<1>1. CASE ClientNext /\ UNCHANGED spliceVars
  BY <1>1, ClientSign
<1>2. CASE SpliceNext
  BY <1>2, PrepareSign, CommitSign, HandleSignSave, HandlePendingSave, HandleFailedSave,
     LockedSave, QuoteSign, HandleSigned, DeliverSign, RebindSign, SubmitSign, CancelSign, LdkSign
  DEF SpliceNext
<1>3. CASE CrashAll \/ OpenAll \/ StartAll
  BY <1>3, CrashSign, OpenSign
<1>4. CASE UNCHANGED allVars
  <2>1. UNCHANGED <<mem, rem, behind, disk, ls, sess, reserved, sjob, coin, evq, gate, unsaved>>
    BY <1>4 DEF allVars, storeVars, queueVars, spliceVars
  <2>2. UNCHANGED P /\ UNCHANGED R
    BY <2>1, SpliceApart DEF SpliceOnce
  <2>3. QueueMoves /\ Patient /\ HeadStays
    BY <2>1 DEF QueueMoves, Patient, HeadStays
  <2>4. Working'
    BY <2>1, <2>2, <2>3, WorkingStays DEF SignInv
  <2> QED
    BY <2>1, <2>3, <2>4, SignQuiet
<1> QED
  BY <1>1, <1>2, <1>3, <1>4 DEF SystemNext

LEMMA SplicesFollowed == System => [](FlightInv /\ SpliceOnce /\ SignInv)
<1>1. SystemInit => FlightInv /\ SpliceOnce /\ SignInv
  BY FlightInit, SpliceOnceInit, SignInit
<1>2. FlightInv /\ SpliceOnce /\ SignInv /\ [SystemNext]_allVars
        => (FlightInv /\ SpliceOnce /\ SignInv)'
  BY FlightStep, SpliceOnceStep, SignStep
<1> QED
  BY <1>1, <1>2, PTL DEF System

(***************************************************************************)
(* Once LDK has the wallet's signature on a splice, VSS has that           *)
(* transaction under a pending splice, for any number of splices, faults   *)
(* and jobs: handle(event) saves before it hands the signature over, no    *)
(* failure LDK still reports can belong to a splice signed after it, and a *)
(* lost answer keeps the event at LDK until the wallet loads again.        *)
(***************************************************************************)
THEOREM SplicesAreSaved == System => []SignedIsSaved
<1>1. SignInv => SignedIsSaved
  BY DEF SignInv
<1> QED
  BY <1>1, SplicesFollowed, PTL

(***************************************************************************)
(* The spenders that ask never take the coin of a signed splice: the       *)
(* on-chain send reads the splice from IndexedDB under the lock, the fee   *)
(* bump the reservations in memory, and both name a splice that may be     *)
(* signed, from its first save to its confirmation and through the time    *)
(* before the runtime has loaded.                                          *)
(***************************************************************************)
THEOREM SplicedCoinSpared == System => []SpareSplicedCoin
<1>1. SignInv => SpareSplicedCoin
  BY DEF SignInv, SignedIsSaved, Ours, Live, SpareSplicedCoin, R
<1> QED
  BY <1>1, SplicesFollowed, PTL
=============================================================================
