------------------------ MODULE MediaPipeline_proofs ------------------------
(***************************************************************************)
(* Proofs about MediaPipeline, for any articles, pages of any size, any    *)
(* threshold and any datasets.                                             *)
(*                                                                         *)
(* Four invariants, each inductive on top of the ones before it: BaseInv   *)
(* (types and shapes), LedgerInv (what is left unfinished), EvidenceInv    *)
(* (where contents come from), OrderedInv (which content is older).        *)
(*                                                                         *)
(* What a run may forget is settled by the order of the listing: no article*)
(* is in Core or on the to-do list with an older one behind it that is     *)
(* neither, unless a run has reported that. How many known articles a run  *)
(* needs to see before it stops plays no role.                             *)
(***************************************************************************)
EXTENDS MediaPipeline, Induction_proofs, SequenceTheorems

(***************************************************************************)
(* Passes over a sequence                                                  *)
(***************************************************************************)
LEMMA AppendSet ==
  ASSUME NEW S, NEW s \in Seq(S), NEW x \in S
  PROVE  ToSet(Append(s, x)) = ToSet(s) \cup {x}
<1>1. /\ DOMAIN s = 1..Len(s) /\ DOMAIN Append(s, x) = 1..(Len(s) + 1) /\ Len(s) \in Nat
      /\ \A i \in 1..Len(s) : Append(s, x)[i] = s[i]
      /\ Append(s, x)[Len(s) + 1] = x
  OBVIOUS
<1>2. \A i \in 1..(Len(s) + 1) : i = Len(s) + 1 \/ i \in 1..Len(s)
  BY <1>1
<1>3. \A i \in 1..Len(s) : i \in 1..(Len(s) + 1)
  BY <1>1
<1>4. Len(s) + 1 \in 1..(Len(s) + 1)
  BY <1>1
<1> QED BY <1>1, <1>2, <1>3, <1>4 DEF ToSet

(***************************************************************************)
(* Discovery                                                               *)
(***************************************************************************)
LEMMA ExaminedType ==
  ASSUME NEW d \in Discovery, NEW a \in Article, NEW known, NEW policy
  PROVE  Examined(d, a, known, policy) \in Discovery
<1> DEFINE streak == IF known THEN d.streak + 1 ELSE 0
           stop == d.stop \/ (d.mayStop /\ streak >= Threshold)
           selected == IF known /\ policy # "full_scan" THEN d.selected ELSE d.selected \cup {a}
           any == d.known \/ known
<1>1. /\ streak \in Nat /\ stop \in BOOLEAN /\ any \in BOOLEAN
      /\ selected \in SUBSET Article /\ d.seen \cup {a} \in SUBSET Article
  BY DiscoveryAssumption DEF Discovery
<1>2. Examined(d, a, known, policy) =
        [d EXCEPT !.seen = d.seen \cup {a}, !.streak = streak, !.known = any,
                  !.stop = stop, !.selected = selected]
  BY DEF Examined
<1> HIDE DEF streak, stop, selected, any
<1> QED BY <1>1, <1>2 DEF Discovery

LEMMA LinkType ==
  ASSUME NEW d \in Discovery, NEW a \in Article, NEW invalid, NEW inCore, NEW policy,
         NEW unnamed, NEW unread
  PROVE  DiscoverDetail(d, a, invalid, inCore, policy, unnamed, unread) \in Discovery
<1>1. Unidentified(d) \in Discovery
  BY DEF Unidentified, Discovery
<1>2. [d EXCEPT !.seen = @ \cup {a}] \in Discovery
  BY DEF Discovery
<1>3. Unidentified([d EXCEPT !.seen = @ \cup {a}]) \in Discovery
  BY <1>2 DEF Unidentified, Discovery
<1>4. Examined(d, a, a \in inCore, policy) \in Discovery
  BY ExaminedType
<1> QED BY <1>1, <1>3, <1>4 DEF DiscoverDetail

\* What one link adds to a discovery that has not stopped.
LEMMA LinkIs ==
  ASSUME NEW d \in Discovery, NEW a \in Article, NEW invalid, NEW inCore, NEW policy,
         NEW unnamed, NEW unread,
         NEW e, e = DiscoverDetail(d, a, invalid, inCore, policy, unnamed, unread)
  PROVE  /\ d.stop => e = d
         /\ d.seen \subseteq e.seen /\ e.seen \subseteq d.seen \cup {a}
         /\ d.selected \subseteq e.selected /\ e.selected \subseteq d.selected \cup {a}
         /\ d.failed => e.failed
         /\ d.stop \/ a \in invalid \/ a \in unnamed \/ a \in e.seen
         /\ a \in d.seen \/ a \notin e.seen \/ (a \in unread /\ e.failed) \/ a \in inCore
              \/ a \in e.selected
         /\ e.stop => d.stop \/ a \in inCore
<1>1. CASE d.stop \/ a \in invalid
  <2>1. e = d
    BY <1>1 DEF DiscoverDetail
  <2> QED BY <1>1, <2>1
<1>2. CASE ~(d.stop \/ a \in invalid) /\ a \in unnamed
  BY <1>2 DEF DiscoverDetail, Unidentified, Discovery
<1>3. CASE ~(d.stop \/ a \in invalid) /\ a \notin unnamed /\ a \in d.seen
  <2>1. e = d
    BY <1>3 DEF DiscoverDetail
  <2> QED BY <1>3, <2>1
<1>4. CASE ~(d.stop \/ a \in invalid) /\ a \notin unnamed /\ a \notin d.seen /\ a \in unread
  BY <1>4 DEF DiscoverDetail, Unidentified, Discovery
<1>5. CASE ~(d.stop \/ a \in invalid) /\ a \notin unnamed /\ a \notin d.seen /\ a \notin unread
  <2>1. e = Examined(d, a, a \in inCore, policy)
    BY <1>5 DEF DiscoverDetail
  <2> QED BY <1>5, <2>1, DiscoveryAssumption DEF Examined, Discovery
<1> QED BY <1>1, <1>2, <1>3, <1>4, <1>5

\* The pass over a page exists.
LEMMA PagePass ==
  ASSUME NEW d \in Discovery, NEW links \in Seq(Article), NEW invalid, NEW inCore,
         NEW policy, NEW unnamed, NEW unread
  PROVE  \E g \in [0..Len(links) -> Discovery] :
           /\ g[0] = d
           /\ \A i \in 1..Len(links) :
                g[i] = DiscoverDetail(g[i - 1], links[i], invalid, inCore, policy,
                                      unnamed, unread)
           /\ DiscoverPage(d, links, invalid, inCore, policy, unnamed, unread) = g[Len(links)]
<1> DEFINE n == Len(links)
           Link(e, i) == DiscoverDetail(e, links[i], invalid, inCore, policy, unnamed, unread)
           step == [i \in 1..n |-> [e \in Discovery |-> Link(e, i)]]
<1>1. n \in Nat /\ \A i \in 1..n : links[i] \in Article
  OBVIOUS
<1>2. \A i \in 1..n : \A e \in Discovery : Link(e, i) \in Discovery
  BY <1>1, LinkType
<1> HIDE DEF n, Link
<1>3. step \in StepMaps(Discovery, n)
  BY <1>2 DEF StepMaps
<1>4. \A i \in 1..n : \A e \in Discovery : step[i][e] = Link(e, i)
  OBVIOUS
<1> HIDE DEF step
<1>5. PICK f : f \in PassMaps(Discovery, n, d, step)
  BY <1>1, <1>3, PassExists
<1>f. /\ f \in [0..n -> Discovery] /\ f[0] = d
      /\ \A i \in 1..n : f[i] = step[i][f[i - 1]]
  BY <1>5 DEF PassMaps
<1>6. \A i \in 1..n : f[i] = Link(f[i - 1], i)
  <2> TAKE i \in 1..n
  <2>1. f[i - 1] \in Discovery
    BY <1>1, <1>f
  <2> QED BY <2>1, <1>4, <1>f
<1>7. f = [i \in 0..n |-> IF i = 0 THEN d ELSE Link(f[i - 1], i)]
  <2>1. \A i \in 0..n : f[i] = IF i = 0 THEN d ELSE Link(f[i - 1], i)
    BY <1>1, <1>f, <1>6
  <2> QED BY <1>f, <2>1
<1> DEFINE IsPass(h) == h = [i \in 0..n |-> IF i = 0 THEN d ELSE Link(h[i - 1], i)]
           h0 == CHOOSE h : IsPass(h)
<1>8. IsPass(h0)
  BY <1>7
<1>9. DiscoverPage(d, links, invalid, inCore, policy, unnamed, unread) = h0[n]
  BY DEF DiscoverPage, Link, n
<1> HIDE DEF h0
<1>10. h0[0] = d /\ \A i \in 1..n : h0[i] = Link(h0[i - 1], i)
  BY <1>1, <1>8
<1>11. \A i \in 0..n : h0[i] \in Discovery
  <2> DEFINE Q == {i \in Nat : h0[i] \in Discovery}
  <2>1. 0 \in Q
    BY <1>10
  <2>2. \A i \in 1..n : i - 1 \in Q => i \in Q
    BY <1>2, <1>10
  <2>3. Q \in SUBSET Nat
    OBVIOUS
  <2> HIDE DEF Q
  <2>4. \A i \in 0..n : i \in Q
    BY <1>1, <2>1, <2>2, <2>3, HoldsUpTo
  <2> QED BY <2>4 DEF Q
<1>12. h0 \in [0..n -> Discovery]
  BY <1>8, <1>11
<1> QED BY <1>9, <1>10, <1>12 DEF n, Link

\* What a page adds to a discovery that has not stopped: every link is seen,
\* left to another list, or behind an article that Core has.
LEMMA PageScan ==
  ASSUME NEW d \in Discovery, NEW links \in Seq(Article), NEW invalid, NEW inCore,
         NEW policy, NEW unnamed, NEW unread, ~d.stop,
         NEW e, e = DiscoverPage(d, links, invalid, inCore, policy, unnamed, unread)
  PROVE  /\ e \in Discovery
         /\ d.seen \subseteq e.seen /\ d.selected \subseteq e.selected /\ (d.failed => e.failed)
         /\ e.selected \subseteq d.selected \cup ToSet(links)
         /\ e.seen \subseteq d.seen \cup ToSet(links)
         /\ \A a \in e.seen : a \in d.seen \/ (a \in unread /\ e.failed) \/ a \in inCore
              \/ a \in e.selected
         /\ \A j \in 1..Len(links) :
              links[j] \in invalid \cup unnamed \cup e.seen
                \/ \E m \in 1..(j - 1) : links[m] \in inCore
         /\ e.stop => \E m \in 1..Len(links) : links[m] \in inCore
<1> DEFINE n == Len(links)
<1>n. n \in Nat /\ \A i \in 1..n : links[i] \in Article /\ links[i] \in ToSet(links)
  BY DEF ToSet
<1>1. PICK g \in [0..n -> Discovery] :
        /\ g[0] = d
        /\ \A i \in 1..n :
             g[i] = DiscoverDetail(g[i - 1], links[i], invalid, inCore, policy, unnamed, unread)
        /\ e = g[n]
  BY PagePass
<1> HIDE DEF n
<1> DEFINE Kept(x) == d.seen \subseteq x.seen /\ d.selected \subseteq x.selected
                        /\ (d.failed => x.failed)
           Within(x) == x.selected \subseteq d.selected \cup ToSet(links)
                          /\ x.seen \subseteq d.seen \cup ToSet(links)
           New(x) == \A a \in x.seen : a \in d.seen \/ (a \in unread /\ x.failed) \/ a \in inCore
                       \/ a \in x.selected
           Past(x, i) == \A j \in 1..i : links[j] \in invalid \cup unnamed \cup x.seen
                           \/ \E m \in 1..(j - 1) : links[m] \in inCore
           Stop(x, i) == x.stop => \E m \in 1..i : links[m] \in inCore
           P == {i \in Nat : Kept(g[i]) /\ Within(g[i]) /\ New(g[i]) /\ Past(g[i], i)
                               /\ Stop(g[i], i)}
<1>2. 0 \in P
  BY <1>1
<1>3. ASSUME NEW i \in 1..n, i - 1 \in P PROVE i \in P
  <2> DEFINE x == g[i - 1]
             y == g[i]
             a == links[i]
  <2>1. /\ i \in Nat /\ i - 1 \in 0..n /\ x \in Discovery /\ a \in Article /\ a \in ToSet(links)
        /\ y = DiscoverDetail(x, a, invalid, inCore, policy, unnamed, unread)
    BY <1>n, <1>1
  <2>2. Kept(x) /\ Within(x) /\ New(x) /\ Past(x, i - 1) /\ Stop(x, i - 1)
    BY <1>3
  <2>4. a = links[i]
    OBVIOUS
  <2> HIDE DEF x, y, a
  <2>3. /\ x.stop => y = x
        /\ x.seen \subseteq y.seen /\ y.seen \subseteq x.seen \cup {a}
        /\ x.selected \subseteq y.selected /\ y.selected \subseteq x.selected \cup {a}
        /\ x.failed => y.failed
        /\ x.stop \/ a \in invalid \/ a \in unnamed \/ a \in y.seen
        /\ a \in x.seen \/ a \notin y.seen \/ (a \in unread /\ y.failed) \/ a \in inCore
             \/ a \in y.selected
        /\ y.stop => x.stop \/ a \in inCore
    BY <2>1, LinkIs
  <2>5. Kept(y) /\ Within(y) /\ New(y)
    BY <2>1, <2>2, <2>3
  <2>6. Past(y, i)
    <3> SUFFICES ASSUME NEW j \in 1..i
                 PROVE  links[j] \in invalid \cup unnamed \cup y.seen
                          \/ \E m \in 1..(j - 1) : links[m] \in inCore
      OBVIOUS
    <3>1. CASE j = i
      BY <3>1, <2>2, <2>3, <2>4
    <3>2. CASE j # i
      <4>1. j \in 1..(i - 1)
        BY <3>2, <2>1
      <4> QED BY <4>1, <2>2, <2>3
    <3> QED BY <3>1, <3>2
  <2>7. Stop(y, i)
    <3> SUFFICES ASSUME y.stop PROVE \E m \in 1..i : links[m] \in inCore
      OBVIOUS
    <3>1. CASE x.stop
      <4>1. PICK m \in 1..(i - 1) : links[m] \in inCore
        BY <3>1, <2>2
      <4> QED BY <4>1
    <3>2. CASE ~x.stop
      <4>1. links[i] \in inCore /\ i \in 1..i
        BY <3>2, <2>3, <2>4
      <4> QED BY <4>1
    <3> QED BY <3>1, <3>2
  <2> QED BY <2>1, <2>5, <2>6, <2>7 DEF y
<1> HIDE DEF P
<1>4. n \in P
  <2>1. P \in SUBSET Nat
    BY DEF P
  <2>2. \A i \in 0..n : i \in P
    BY <1>n, <1>2, <1>3, <2>1, HoldsUpTo
  <2> QED BY <2>2, <1>n
<1>5. e \in Discovery
  BY <1>1, <1>n
<1> QED BY <1>4, <1>5, <1>1 DEF P, n

LEMMA ShardIs ==
  ASSUME NEW d \in Discovery, NEW links, NEW invalid
  PROVE  /\ CheckShard(d, links, invalid) \in Discovery
         /\ CheckShard(d, links, invalid).seen = d.seen
         /\ CheckShard(d, links, invalid).selected = d.selected
         /\ CheckShard(d, links, invalid).stop = d.stop
         /\ d.failed => CheckShard(d, links, invalid).failed
BY DEF CheckShard, Discovery

\* The pass of the API collector's callback exists.
LEMMA CheckPass ==
  ASSUME NEW d \in Discovery, NEW links \in Seq(Article), NEW inCore, NEW policy, NEW unchecked
  PROVE  \E g \in [0..Len(links) -> Discovery] :
           /\ g[0] = d
           /\ \A i \in 1..Len(links) :
                g[i] = IF g[i - 1].stop \/ links[i] \in unchecked THEN g[i - 1]
                       ELSE Examined(g[i - 1], links[i], links[i] \in inCore, policy)
           /\ StopCheck(d, links, inCore, policy, unchecked) = g[Len(links)]
<1> DEFINE n == Len(links)
           Link(e, i) == IF e.stop \/ links[i] \in unchecked THEN e
                         ELSE Examined(e, links[i], links[i] \in inCore, policy)
           step == [i \in 1..n |-> [e \in Discovery |-> Link(e, i)]]
<1>1. n \in Nat /\ \A i \in 1..n : links[i] \in Article
  OBVIOUS
<1>2. \A i \in 1..n : \A e \in Discovery : Link(e, i) \in Discovery
  BY <1>1, ExaminedType
<1> HIDE DEF n, Link
<1>3. step \in StepMaps(Discovery, n)
  BY <1>2 DEF StepMaps
<1>4. \A i \in 1..n : \A e \in Discovery : step[i][e] = Link(e, i)
  OBVIOUS
<1> HIDE DEF step
<1>5. PICK f : f \in PassMaps(Discovery, n, d, step)
  BY <1>1, <1>3, PassExists
<1>f. /\ f \in [0..n -> Discovery] /\ f[0] = d
      /\ \A i \in 1..n : f[i] = step[i][f[i - 1]]
  BY <1>5 DEF PassMaps
<1>6. \A i \in 1..n : f[i] = Link(f[i - 1], i)
  <2> TAKE i \in 1..n
  <2>1. f[i - 1] \in Discovery
    BY <1>1, <1>f
  <2> QED BY <2>1, <1>4, <1>f
<1>7. f = [i \in 0..n |-> IF i = 0 THEN d ELSE Link(f[i - 1], i)]
  <2>1. \A i \in 0..n : f[i] = IF i = 0 THEN d ELSE Link(f[i - 1], i)
    BY <1>1, <1>f, <1>6
  <2> QED BY <1>f, <2>1
<1> DEFINE IsPass(h) == h = [i \in 0..n |-> IF i = 0 THEN d ELSE Link(h[i - 1], i)]
           h0 == CHOOSE h : IsPass(h)
<1>8. IsPass(h0)
  BY <1>7
<1>9. StopCheck(d, links, inCore, policy, unchecked) = h0[n]
  BY DEF StopCheck, Link, n
<1> HIDE DEF h0
<1>10. h0[0] = d /\ \A i \in 1..n : h0[i] = Link(h0[i - 1], i)
  BY <1>1, <1>8
<1>11. \A i \in 0..n : h0[i] \in Discovery
  <2> DEFINE Q == {i \in Nat : h0[i] \in Discovery}
  <2>1. 0 \in Q
    BY <1>10
  <2>2. \A i \in 1..n : i - 1 \in Q => i \in Q
    BY <1>2, <1>10
  <2>3. Q \in SUBSET Nat
    OBVIOUS
  <2> HIDE DEF Q
  <2>4. \A i \in 0..n : i \in Q
    BY <1>1, <2>1, <2>2, <2>3, HoldsUpTo
  <2> QED BY <2>4 DEF Q
<1>12. h0 \in [0..n -> Discovery]
  BY <1>8, <1>11
<1> QED BY <1>9, <1>10, <1>12 DEF n, Link

\* What the callback adds: the links it saw, and a stop only at a known one.
LEMMA CheckScan ==
  ASSUME NEW d \in Discovery, NEW links \in Seq(Article), NEW inCore, NEW policy,
         NEW unchecked, ~d.stop,
         NEW e, e = StopCheck(d, links, inCore, policy, unchecked)
  PROVE  /\ e \in Discovery
         /\ d.seen \subseteq e.seen /\ (d.failed => e.failed)
         /\ e.seen \subseteq d.seen \cup ToSet(links)
         /\ e.stop => \E m \in 1..Len(links) : links[m] \in inCore
<1> DEFINE n == Len(links)
<1>n. n \in Nat /\ \A i \in 1..n : links[i] \in Article /\ links[i] \in ToSet(links)
  BY DEF ToSet
<1>1. PICK g \in [0..n -> Discovery] :
        /\ g[0] = d
        /\ \A i \in 1..n :
             g[i] = IF g[i - 1].stop \/ links[i] \in unchecked THEN g[i - 1]
                    ELSE Examined(g[i - 1], links[i], links[i] \in inCore, policy)
        /\ e = g[n]
  BY CheckPass
<1> HIDE DEF n
<1> DEFINE Kept(x) == d.seen \subseteq x.seen /\ (d.failed => x.failed)
                        /\ x.seen \subseteq d.seen \cup ToSet(links)
           Stop(x, i) == x.stop => \E m \in 1..i : links[m] \in inCore
           P == {i \in Nat : Kept(g[i]) /\ Stop(g[i], i)}
<1>2. 0 \in P
  BY <1>1
<1>3. ASSUME NEW i \in 1..n, i - 1 \in P PROVE i \in P
  <2> DEFINE x == g[i - 1]
             y == g[i]
             a == links[i]
  <2>1. /\ i \in Nat /\ i - 1 \in 0..n /\ x \in Discovery /\ a \in Article /\ a \in ToSet(links)
        /\ y = IF x.stop \/ a \in unchecked THEN x ELSE Examined(x, a, a \in inCore, policy)
    BY <1>n, <1>1
  <2>2. Kept(x) /\ Stop(x, i - 1)
    BY <1>3
  <2>4. a = links[i]
    OBVIOUS
  <2> HIDE DEF x, y, a
  <2>3. CASE x.stop \/ a \in unchecked
    <3>1. y = x /\ Kept(y)
      BY <2>1, <2>2, <2>3
    <3>2. ASSUME y.stop PROVE \E m \in 1..i : links[m] \in inCore
      <4>1. PICK m \in 1..(i - 1) : links[m] \in inCore
        BY <3>1, <3>2, <2>2
      <4> QED BY <4>1
    <3> QED BY <2>1, <3>1, <3>2 DEF y
  <2>5. CASE ~(x.stop \/ a \in unchecked)
    <3>1. /\ y.seen = x.seen \cup {a} /\ y.failed = x.failed
          /\ y.stop => a \in inCore
      BY <2>1, <2>5, DiscoveryAssumption DEF Examined, Discovery
    <3>2. i \in 1..i
      OBVIOUS
    <3> QED BY <2>1, <2>2, <2>4, <3>1, <3>2 DEF y
  <2> QED BY <2>3, <2>5
<1> HIDE DEF P
<1>4. n \in P
  <2>1. P \in SUBSET Nat
    BY DEF P
  <2>2. \A i \in 0..n : i \in P
    BY <1>n, <1>2, <1>3, <2>1, HoldsUpTo
  <2> QED BY <2>2, <1>n
<1>5. e \in Discovery
  BY <1>1, <1>n
<1> QED BY <1>4, <1>5, <1>1 DEF P, n

\* The links without a record are all the links but those that have one.
LEMMA UnproducedIs ==
  ASSUME NEW links \in Seq(Article), NEW produced
  PROVE  /\ Unproduced(links, produced) \in Seq(Article)
         /\ ToSet(Unproduced(links, produced)) = ToSet(links) \ produced
<1> DEFINE n == Len(links)
           Link(e, i) == IF links[i] \in produced THEN e ELSE Append(e, links[i])
           step == [i \in 1..n |-> [e \in Seq(Article) |-> Link(e, i)]]
<1>1. n \in Nat /\ \A i \in 1..n : links[i] \in Article
  OBVIOUS
<1>2. \A i \in 1..n : \A e \in Seq(Article) : Link(e, i) \in Seq(Article)
  BY <1>1
<1>t. ToSet(links) = {links[i] : i \in 1..n}
  BY DEF ToSet
<1> HIDE DEF n, Link
<1>3. step \in StepMaps(Seq(Article), n)
  BY <1>2 DEF StepMaps
<1>4. \A i \in 1..n : \A e \in Seq(Article) : step[i][e] = Link(e, i)
  OBVIOUS
<1>e. <<>> \in Seq(Article)
  OBVIOUS
<1> HIDE DEF step
<1>5. PICK f : f \in PassMaps(Seq(Article), n, <<>>, step)
  BY <1>1, <1>3, <1>e, PassExists
<1>f. /\ f \in [0..n -> Seq(Article)] /\ f[0] = <<>>
      /\ \A i \in 1..n : f[i] = step[i][f[i - 1]]
  BY <1>5 DEF PassMaps
<1>6. \A i \in 1..n : f[i] = Link(f[i - 1], i)
  <2> TAKE i \in 1..n
  <2>1. f[i - 1] \in Seq(Article)
    BY <1>1, <1>f
  <2> QED BY <2>1, <1>4, <1>f
<1>7. f = [i \in 0..n |-> IF i = 0 THEN <<>> ELSE Link(f[i - 1], i)]
  <2>1. \A i \in 0..n : f[i] = IF i = 0 THEN <<>> ELSE Link(f[i - 1], i)
    BY <1>1, <1>f, <1>6
  <2> QED BY <1>f, <2>1
<1> DEFINE IsPass(h) == h = [i \in 0..n |-> IF i = 0 THEN <<>> ELSE Link(h[i - 1], i)]
           h0 == CHOOSE h : IsPass(h)
<1>8. IsPass(h0)
  BY <1>7
<1>9. Unproduced(links, produced) = h0[n]
  BY DEF Unproduced, Link, n
<1> HIDE DEF h0
<1>10. h0[0] = <<>> /\ \A i \in 1..n : h0[i] = Link(h0[i - 1], i)
  BY <1>1, <1>8
<1> DEFINE Before(i) == {links[j] : j \in 1..i}
           Q == {i \in Nat : h0[i] \in Seq(Article) /\ ToSet(h0[i]) = Before(i) \ produced}
<1>11. 0 \in Q
  <2>1. ToSet(<<>>) = {} /\ Before(0) = {}
    BY DEF ToSet
  <2> HIDE DEF Before
  <2> QED BY <2>1, <1>10, <1>e
<1>12. ASSUME NEW i \in 1..n, i - 1 \in Q PROVE i \in Q
  <2> DEFINE x == h0[i - 1]
             a == links[i]
  <2>1. x \in Seq(Article) /\ ToSet(x) = Before(i - 1) \ produced
    BY <1>12
  <2>2. h0[i] = IF a \in produced THEN x ELSE Append(x, a)
    BY <1>10 DEF Link
  <2>3. Before(i) = Before(i - 1) \cup {a}
    <3>1. \A j \in 1..i : j = i \/ j \in 1..(i - 1)
      OBVIOUS
    <3> QED BY <3>1
  <2>4. a \in Article /\ ToSet(Append(x, a)) = ToSet(x) \cup {a}
    BY <1>1, <2>1, AppendSet
  <2>i. i \in Nat
    OBVIOUS
  <2> HIDE DEF x, a, Before
  <2>5. CASE a \in produced
    BY <2>i, <2>1, <2>2, <2>3, <2>5
  <2>6. CASE a \notin produced
    <3>1. h0[i] \in Seq(Article)
      BY <2>1, <2>2, <2>4, <2>6
    <3> QED BY <2>i, <3>1, <2>1, <2>2, <2>3, <2>4, <2>6
  <2> QED BY <2>5, <2>6
<1> HIDE DEF Q
<1>13. n \in Q
  <2>1. Q \in SUBSET Nat
    BY DEF Q
  <2>2. \A i \in 0..n : i \in Q
    BY <1>1, <1>11, <1>12, <2>1, HoldsUpTo
  <2> QED BY <2>2, <1>1
<1> QED BY <1>13, <1>9, <1>t DEF Q, Before

\* The links of page p stand at the places after off; a place behind them all is
\* on a later page, and this page is neither empty nor the last.
PageFits(strategy, listing, p, links, off) ==
  /\ links \in Seq(Article) /\ off \in Nat /\ ToSet(links) \subseteq ToSet(listing)
  /\ \A m \in 1..Len(links) : off + m \in 1..Len(listing) /\ links[m] = listing[off + m]
  /\ \A j \in 1..Len(listing) : j > off =>
       \/ j - off \in 1..Len(links)
       \/ j > ((p + 1) - 1) * PageSize /\ ~LastPage(strategy, listing, p) /\ links # <<>>

LEMMA PageIs ==
  ASSUME NEW strategy, NEW listing \in Seq(Article), NEW p \in Nat \ {0},
         OnePage(strategy) => p = 1
  PROVE  PageFits(strategy, listing, p, Page(strategy, listing, p), (p - 1) * PageSize)
<1> DEFINE links == Page(strategy, listing, p)
           off == (p - 1) * PageSize
           len == Len(listing)
<1>1. /\ off \in Nat /\ len \in Nat /\ PageSize \in Nat \ {0}
      /\ p * PageSize = off + PageSize /\ (p + 1) - 1 = p /\ p * PageSize \in Nat
  BY DiscoveryAssumption
<1> DEFINE top == IF p * PageSize < len THEN p * PageSize ELSE len
<1>2. CASE OnePage(strategy)
  <2>1. p = 1 /\ links = listing /\ off = 0
    BY <1>1, <1>2 DEF Page
  <2> QED BY <2>1, <1>1 DEF ToSet, PageFits
<1>3. CASE ~OnePage(strategy)
  <2>1. links = SubSeq(listing, off + 1, top)
    BY <1>3 DEF Page
  <2>2. /\ top \in Nat /\ top <= len
        /\ (top = p * PageSize /\ p * PageSize < len) \/ (top = len /\ p * PageSize >= len)
    <3> DEFINE q == p * PageSize
    <3>1. q \in Nat /\ len \in Nat /\ top = IF q < len THEN q ELSE len
      BY <1>1
    <3> HIDE DEF q, len, top
    <3>2. CASE q < len
      BY <3>1, <3>2 DEF q
    <3>3. CASE ~(q < len)
      BY <3>1, <3>3 DEF q
    <3> QED BY <3>2, <3>3
  <2>4. LastPage(strategy, listing, p) <=> p * PageSize >= len
    BY <1>3 DEF LastPage
  <2> HIDE DEF links, off, top, len
  <2>3. /\ links \in Seq(Article)
        /\ Len(links) = IF off + 1 <= top THEN top - off ELSE 0
        /\ \A m \in 1..Len(links) : off + m \in 1..Len(listing) /\ links[m] = listing[off + m]
    <3>1. CASE off + 1 <= top
      BY <3>1, <2>1, <2>2, <1>1 DEF len
    <3>2. CASE ~(off + 1 <= top)
      <4>1. links = <<>>
        BY <3>2, <2>1, <2>2, <1>1
      <4> QED BY <4>1, <3>2
    <3> QED BY <3>1, <3>2
  <2>5. ToSet(links) \subseteq ToSet(listing)
    BY <2>3 DEF ToSet
  <2>6. ASSUME NEW j \in 1..Len(listing), j > off
        PROVE  \/ j - off \in 1..Len(links)
               \/ j > ((p + 1) - 1) * PageSize /\ ~LastPage(strategy, listing, p) /\ links # <<>>
    <3>1. CASE j <= top
      BY <3>1, <2>6, <2>2, <2>3, <1>1
    <3>2. CASE j > top
      <4>1. top = p * PageSize /\ p * PageSize < len
        BY <3>2, <2>2 DEF len
      <4>2. Len(links) = PageSize
        BY <4>1, <2>3, <1>1
      <4> QED BY <4>1, <4>2, <3>2, <2>4, <1>1
    <3> QED BY <3>1, <3>2, <2>2
  <2> QED BY <2>3, <2>5, <2>6, <1>1 DEF off, links, PageFits
<1> QED BY <1>2, <1>3

\* SetToSeq lists every member of a finite set once.
LEMMA SetToSeqIs ==
  ASSUME NEW S, IsFiniteSet(S)
  PROVE  LET s == SetToSeq(S)
         IN  /\ s \in Seq(S) /\ Len(s) = Cardinality(S) /\ ToSet(s) = S
             /\ \A i, j \in 1..Len(s) : s[i] = s[j] => i = j
<1> DEFINE n == Cardinality(S)
           s == SetToSeq(S)
<1>1. n \in Nat /\ ExistsBijection(1..n, S)
  BY FS_CardinalityType
<1>2. PICK f : f \in Bijection(1..n, S)
  BY <1>1 DEF ExistsBijection
<1>3. f \in [1..n -> S] /\ IsInjective(f)
  BY <1>2 DEF Bijection, Injection
<1>4. s \in [1..n -> S] /\ IsInjective(s)
  BY <1>3 DEF SetToSeq
<1>5. IsFiniteSet(1..n) /\ Cardinality(1..n) = n
  BY <1>1, FS_Interval
<1>6. s \in Injection(1..n, S)
  BY <1>4 DEF Injection
<1>7. s \in Surjection(1..n, S)
  <2> HIDE DEF s
  <2> QED BY <1>5, <1>6, FS_Injection
<1> HIDE DEF s
<1>8. s \in Seq(S) /\ Len(s) = n /\ DOMAIN s = 1..n
  BY <1>1, <1>4
<1>9. \A i, j \in 1..n : s[i] = s[j] => i = j
  BY <1>4, <1>8 DEF IsInjective
<1>10. \A x \in S : \E i \in 1..n : s[i] = x
  BY <1>7 DEF Surjection
<1>11. ToSet(s) = S
  BY <1>4, <1>8, <1>10 DEF ToSet
<1> QED BY <1>8, <1>9, <1>11 DEF s

(***************************************************************************)
(* Items and their keys                                                    *)
(***************************************************************************)
ItemMaps == {f \in UNION {[K -> Item] : K \in SUBSET Key} : IsFiniteSet(DOMAIN f)}

LEMMA ItemMapsAre ==
  /\ \A f \in ItemMaps : /\ DOMAIN f \in SUBSET Key /\ IsFiniteSet(DOMAIN f)
                         /\ f = [k \in DOMAIN f |-> f[k]]
                         /\ \A k \in DOMAIN f : f[k] \in Item
  /\ \A K \in SUBSET Key : \A f \in [K -> Item] : IsFiniteSet(K) => f \in ItemMaps
<1>1. ASSUME NEW f \in ItemMaps
      PROVE  /\ DOMAIN f \in SUBSET Key /\ IsFiniteSet(DOMAIN f)
             /\ f = [k \in DOMAIN f |-> f[k]] /\ \A k \in DOMAIN f : f[k] \in Item
  <2>1. PICK K \in SUBSET Key : f \in [K -> Item]
    BY DEF ItemMaps
  <2>2. DOMAIN f = K
    BY <2>1
  <2>3. IsFiniteSet(DOMAIN f)
    BY DEF ItemMaps
  <2> QED BY <2>1, <2>2, <2>3
<1>2. ASSUME NEW K \in SUBSET Key, NEW f \in [K -> Item], IsFiniteSet(K) PROVE f \in ItemMaps
  <2>1. f \in UNION {[J -> Item] : J \in SUBSET Key} /\ DOMAIN f = K
    OBVIOUS
  <2> QED BY <2>1, <1>2 DEF ItemMaps
<1> QED BY <1>1, <1>2

\* The keys that a record answers to, and the first of them.
KeySet(rec) ==
  (IF rec.keyed THEN {<<"record", rec.art>>} ELSE {})
    \cup (IF rec.path # None THEN {<<"path", rec.art, rec.path>>} ELSE {})
    \cup (IF rec.entry THEN {<<"entry", rec.art>>} ELSE {})

FirstKey(rec) ==
  IF rec.keyed THEN <<"record", rec.art>>
  ELSE IF rec.path # None THEN <<"path", rec.art, rec.path>>
  ELSE <<"entry", rec.art>>

LEMMA AddLast ==
  ASSUME NEW x, NEW y, NEW z
  PROVE  <<x>> \o <<y>> = <<x, y>> /\ <<x, y>> \o <<z>> = <<x, y, z>>
<1> DEFINE S == {x, y, z}
<1>1. /\ <<x>> \in Seq(S) /\ <<y>> \in Seq(S) /\ <<z>> \in Seq(S)
      /\ <<x, y>> \in Seq(S) /\ <<x, y, z>> \in Seq(S)
  OBVIOUS
<1> HIDE DEF S
<1>2. /\ <<x>> \o <<y>> \in Seq(S) /\ Len(<<x>> \o <<y>>) = 2
      /\ (<<x>> \o <<y>>)[1] = x /\ (<<x>> \o <<y>>)[2] = y
  <2>1. Len(<<x>>) = 1 /\ Len(<<y>>) = 1
    OBVIOUS
  <2>2. /\ <<x>> \o <<y>> \in Seq(S) /\ Len(<<x>> \o <<y>>) = 1 + 1
        /\ \A i \in 1..(1 + 1) : (<<x>> \o <<y>>)[i] = IF i <= 1 THEN <<x>>[i] ELSE <<y>>[i - 1]
    BY <1>1, <2>1, ConcatProperties
  <2> QED BY <2>2
<1>3. \A i \in 1..2 : (<<x>> \o <<y>>)[i] = <<x, y>>[i]
  <2>1. \A i \in 1..2 : i = 1 \/ i = 2
    OBVIOUS
  <2> QED BY <2>1, <1>2
<1>4. <<x>> \o <<y>> = <<x, y>>
  <2>1. Len(<<x, y>>) = 2
    OBVIOUS
  <2> QED BY <1>1, <1>2, <1>3, <2>1, SeqEqual
<1>5. /\ <<x, y>> \o <<z>> \in Seq(S) /\ Len(<<x, y>> \o <<z>>) = 3
      /\ (<<x, y>> \o <<z>>)[1] = x /\ (<<x, y>> \o <<z>>)[2] = y
      /\ (<<x, y>> \o <<z>>)[3] = z
  <2>1. Len(<<x, y>>) = 2 /\ Len(<<z>>) = 1
    OBVIOUS
  <2>2. /\ <<x, y>> \o <<z>> \in Seq(S) /\ Len(<<x, y>> \o <<z>>) = 2 + 1
        /\ \A i \in 1..(2 + 1) : (<<x, y>> \o <<z>>)[i] = IF i <= 2 THEN <<x, y>>[i] ELSE <<z>>[i - 2]
    BY <1>1, <2>1, ConcatProperties
  <2> QED BY <2>2
<1>6. \A i \in 1..3 : (<<x, y>> \o <<z>>)[i] = <<x, y, z>>[i]
  <2>1. \A i \in 1..3 : i = 1 \/ i = 2 \/ i = 3
    OBVIOUS
  <2> QED BY <2>1, <1>5
<1>7. <<x, y>> \o <<z>> = <<x, y, z>>
  <2>1. Len(<<x, y, z>>) = 3
    OBVIOUS
  <2> QED BY <1>1, <1>5, <1>6, <2>1, SeqEqual
<1> QED BY <1>4, <1>7

LEMMA Lists ==
  ASSUME NEW x, NEW y, NEW z
  PROVE  /\ (<<>> \o <<>>) \o <<>> = <<>>
         /\ (<<x>> \o <<>>) \o <<>> = <<x>>
         /\ (<<>> \o <<y>>) \o <<>> = <<y>>
         /\ (<<>> \o <<>>) \o <<z>> = <<z>>
         /\ (<<x>> \o <<y>>) \o <<>> = <<x, y>>
         /\ (<<x>> \o <<>>) \o <<z>> = <<x, z>>
         /\ (<<>> \o <<y>>) \o <<z>> = <<y, z>>
         /\ (<<x>> \o <<y>>) \o <<z>> = <<x, y, z>>
<1>1. (<<>> \o <<>>) \o <<>> = <<>>
  OBVIOUS
<1>2. (<<x>> \o <<>>) \o <<>> = <<x>>
  OBVIOUS
<1>3. (<<>> \o <<y>>) \o <<>> = <<y>>
  OBVIOUS
<1>4. (<<>> \o <<>>) \o <<z>> = <<z>>
  OBVIOUS
<1>5. <<x>> \o <<y>> = <<x, y>> /\ <<x>> \o <<z>> = <<x, z>> /\ <<y>> \o <<z>> = <<y, z>>
  BY AddLast
<1>6. (<<x>> \o <<y>>) \o <<>> = <<x, y>>
  BY <1>5
<1>7. (<<x>> \o <<>>) \o <<z>> = <<x, z>>
  BY <1>5
<1>8. (<<>> \o <<y>>) \o <<z>> = <<y, z>>
  BY <1>5
<1>9. <<x, y>> \o <<z>> = <<x, y, z>>
  BY AddLast
<1> QED BY <1>1, <1>2, <1>3, <1>4, <1>5, <1>6, <1>7, <1>8, <1>9

LEMMA KeysAre ==
  ASSUME NEW rec \in Record
  PROVE  /\ CandidateKeys(rec) = <<>> \/ Len(CandidateKeys(rec)) \in Nat \ {0}
         /\ DOMAIN CandidateKeys(rec) = 1..Len(CandidateKeys(rec))
         /\ ToSet(CandidateKeys(rec)) = KeySet(rec)
         /\ KeySet(rec) \in SUBSET Key /\ \A k \in KeySet(rec) : k[2] = rec.art
         /\ rec.keyed \/ rec.path # None \/ rec.entry =>
              /\ CandidateKeys(rec) # <<>> /\ CandidateKeys(rec)[1] = FirstKey(rec)
              /\ FirstKey(rec) \in KeySet(rec)
<1> DEFINE x == <<"record", rec.art>>
           y == <<"path", rec.art, rec.path>>
           z == <<"entry", rec.art>>
           s == CandidateKeys(rec)
<1>1. /\ rec.art \in Article /\ rec.keyed \in BOOLEAN /\ rec.entry \in BOOLEAN
      /\ rec.path \in Day \cup {None}
  BY DEF Record
<1>2. x \in Key /\ z \in Key /\ (rec.path # None => y \in Key) /\ x[2] = rec.art
        /\ z[2] = rec.art /\ y[2] = rec.art
  BY <1>1 DEF Key
<1>3. s = ((IF rec.keyed THEN <<x>> ELSE <<>>) \o (IF rec.path # None THEN <<y>> ELSE <<>>))
            \o (IF rec.entry THEN <<z>> ELSE <<>>)
  BY DEF CandidateKeys
<1>4. KeySet(rec) = (IF rec.keyed THEN {x} ELSE {}) \cup (IF rec.path # None THEN {y} ELSE {})
                      \cup (IF rec.entry THEN {z} ELSE {})
  BY DEF KeySet
<1>5. FirstKey(rec) = IF rec.keyed THEN x ELSE IF rec.path # None THEN y ELSE z
  BY DEF FirstKey
<1>6. KeySet(rec) \in SUBSET Key /\ \A k \in KeySet(rec) : k[2] = rec.art
  BY <1>2, <1>4
<1> HIDE DEF x, y, z, s
<1>7. CASE rec.keyed /\ rec.path # None /\ rec.entry
  <2>1. s = (<<x>> \o <<y>>) \o <<z>>
    BY <1>3, <1>7
  <2>2. s = <<x, y, z>>
    BY <2>1, AddLast
  <2> QED BY <2>2, <1>4, <1>5, <1>6, <1>7 DEF ToSet, s
<1>8. CASE rec.keyed /\ rec.path # None /\ ~rec.entry
  <2>1. s = (<<x>> \o <<y>>) \o <<>>
    BY <1>3, <1>8
  <2>2. s = <<x, y>>
    BY <2>1, Lists
  <2> QED BY <2>2, <1>4, <1>5, <1>6, <1>8 DEF ToSet, s
<1>9. CASE rec.keyed /\ rec.path = None /\ rec.entry
  <2>1. s = (<<x>> \o <<>>) \o <<z>>
    BY <1>3, <1>9
  <2>2. s = <<x, z>>
    BY <2>1, Lists
  <2> QED BY <2>2, <1>4, <1>5, <1>6, <1>9 DEF ToSet, s
<1>10. CASE rec.keyed /\ rec.path = None /\ ~rec.entry
  <2>1. s = (<<x>> \o <<>>) \o <<>>
    BY <1>3, <1>10
  <2>2. s = <<x>>
    BY <2>1, Lists
  <2> QED BY <2>2, <1>4, <1>5, <1>6, <1>10 DEF ToSet, s
<1>11. CASE ~rec.keyed /\ rec.path # None /\ rec.entry
  <2>1. s = (<<>> \o <<y>>) \o <<z>>
    BY <1>3, <1>11
  <2>2. s = <<y, z>>
    BY <2>1, Lists
  <2> QED BY <2>2, <1>4, <1>5, <1>6, <1>11 DEF ToSet, s
<1>12. CASE ~rec.keyed /\ rec.path # None /\ ~rec.entry
  <2>1. s = (<<>> \o <<y>>) \o <<>>
    BY <1>3, <1>12
  <2>2. s = <<y>>
    BY <2>1, Lists
  <2> QED BY <2>2, <1>4, <1>5, <1>6, <1>12 DEF ToSet, s
<1>13. CASE ~rec.keyed /\ rec.path = None /\ rec.entry
  <2>1. s = (<<>> \o <<>>) \o <<z>>
    BY <1>3, <1>13
  <2>2. s = <<z>>
    BY <2>1, Lists
  <2> QED BY <2>2, <1>4, <1>5, <1>6, <1>13 DEF ToSet, s
<1>14. CASE ~rec.keyed /\ rec.path = None /\ ~rec.entry
  <2>1. s = (<<>> \o <<>>) \o <<>>
    BY <1>3, <1>14
  <2>2. s = <<>>
    BY <2>1, Lists
  <2> QED BY <2>2, <1>4, <1>5, <1>6, <1>14 DEF ToSet, s
<1> QED BY <1>1, <1>7, <1>8, <1>9, <1>10, <1>11, <1>12, <1>13, <1>14

\* A record whose failure leaves an item of its own.
Retriable(rec) ==
  IF rec.state = "entry_failed" THEN rec.entry ELSE rec.keyed \/ rec.path # None

LEMMA RetryItemIs ==
  ASSUME NEW rec \in Record, Retriable(rec)
  PROVE  /\ RetryItem(rec) \in Item /\ RetryItem(rec) # NoItem
         /\ RetryItem(rec).kind = IF rec.state = "entry_failed" THEN "json_manifest_entry"
                                  ELSE IF rec.path # None THEN "process" ELSE "fetch"
         /\ RetryItem(rec).art = rec.art /\ RetryItem(rec).content = rec.content
         /\ RetryItem(rec).path = rec.path
<1> DEFINE kind == IF rec.state = "entry_failed" THEN "json_manifest_entry"
                   ELSE IF rec.path # None THEN "process" ELSE "fetch"
           item == [kind |-> kind, art |-> rec.art, content |-> rec.content,
                    path |-> rec.path, document |-> rec.document]
<1>1. RetryItem(rec) = item
  BY DEF RetryItem, Retriable
<1>2. item \in Item
  BY DEF Item, Record
<1>3. item # NoItem
  <2>1. DOMAIN item = {"kind", "art", "content", "path", "document"} /\ DOMAIN NoItem = {}
    BY DEF NoItem
  <2>2. "kind" \in DOMAIN item /\ "kind" \notin DOMAIN NoItem
    BY <2>1
  <2> HIDE DEF item
  <2> QED BY <2>2
<1> QED BY <1>1, <1>2, <1>3

\* One record on the items: done removes all its keys; otherwise its item
\* stands under its first key, and at most one other of its keys is removed.
LEMMA SettleIs ==
  ASSUME NEW items \in ItemMaps, NEW rec \in Record, rec.state = "done" \/ Retriable(rec)
  PROVE  /\ Settle(items, rec) \in ItemMaps
         /\ rec.state = "done" => Settle(items, rec) = Without(items, KeySet(rec))
         /\ rec.state # "done" =>
              /\ FirstKey(rec) \in KeySet(rec)
              /\ \E gone \in SUBSET KeySet(rec) :
                   Settle(items, rec) = With(Without(items, gone), FirstKey(rec), RetryItem(rec))
<1> DEFINE keys == CandidateKeys(rec)
           hits == {i \in DOMAIN keys : keys[i] \in DOMAIN items}
           known == {keys[i] : i \in {h \in hits : \A j \in hits : h <= j}}
           rest == Without(items, known)
<1>1. /\ DOMAIN items \in SUBSET Key /\ IsFiniteSet(DOMAIN items)
      /\ \A k \in DOMAIN items : items[k] \in Item
  BY ItemMapsAre
<1>2. ToSet(keys) = KeySet(rec) /\ KeySet(rec) \in SUBSET Key
  BY KeysAre
<1>3. ASSUME NEW gone PROVE Without(items, gone) \in ItemMaps
  <2>1. /\ DOMAIN Without(items, gone) = DOMAIN items \ gone
        /\ Without(items, gone) \in [DOMAIN items \ gone -> Item]
    BY <1>1 DEF Without
  <2>2. IsFiniteSet(DOMAIN items \ gone)
    BY <1>1, FS_Subset
  <2> QED BY <1>1, <2>1, <2>2, ItemMapsAre
<1>4. CASE rec.state = "done"
  <2>1. Settle(items, rec) = Without(items, ToSet(keys))
    BY <1>4 DEF Settle
  <2> QED BY <1>2, <1>3, <1>4, <2>1
<1>5. CASE rec.state # "done"
  <2>1. Retriable(rec)
    BY <1>5
  <2>2. RetryItem(rec) \in Item /\ RetryItem(rec) # NoItem
    BY <2>1, RetryItemIs
  <2>3. keys # <<>> /\ keys[1] = FirstKey(rec) /\ FirstKey(rec) \in KeySet(rec)
    BY <2>1, KeysAre DEF Retriable
  <2>4. Settle(items, rec) = With(rest, keys[1], RetryItem(rec))
    BY <1>5, <2>2, <2>3 DEF Settle
  <2>5. known \subseteq KeySet(rec)
    BY <1>2 DEF ToSet
  <2> HIDE DEF known, keys
  <2>6. rest \in ItemMaps
    BY <1>3
  <2>7. DOMAIN rest \in SUBSET Key /\ IsFiniteSet(DOMAIN rest)
        /\ \A k \in DOMAIN rest : rest[k] \in Item
    BY <2>6, ItemMapsAre
  <2> HIDE DEF rest
  <2>8. With(rest, FirstKey(rec), RetryItem(rec)) \in [DOMAIN rest \cup {FirstKey(rec)} -> Item]
    BY <2>2, <2>7 DEF With
  <2>9. IsFiniteSet(DOMAIN rest \cup {FirstKey(rec)})
    BY <2>7, FS_AddElement
  <2>10. DOMAIN rest \cup {FirstKey(rec)} \in SUBSET Key
    BY <1>2, <2>3, <2>7
  <2>11. Settle(items, rec) \in ItemMaps
    BY <2>3, <2>4, <2>8, <2>9, <2>10, ItemMapsAre
  <2> QED BY <1>5, <2>3, <2>4, <2>5, <2>11 DEF rest
<1> QED BY <1>4, <1>5

\* Records that settle: done, or with an item of their own.
Settles(records) ==
  \A i \in 1..Len(records) : records[i].state = "done" \/ Retriable(records[i])

\* The pass over the records exists.
LEMMA SettledPass ==
  ASSUME NEW items \in ItemMaps, NEW records \in Seq(Record), Settles(records)
  PROVE  \E g \in [0..Len(records) -> ItemMaps] :
           /\ g[0] = items
           /\ \A i \in 1..Len(records) : g[i] = Settle(g[i - 1], records[i])
           /\ Settled(items, records) = g[Len(records)]
<1> DEFINE n == Len(records)
           Link(e, i) == Settle(e, records[i])
           step == [i \in 1..n |-> [e \in ItemMaps |-> Link(e, i)]]
<1>1. n \in Nat /\ \A i \in 1..n : records[i] \in Record
  OBVIOUS
<1>2. \A i \in 1..n : \A e \in ItemMaps : Link(e, i) \in ItemMaps
  BY <1>1, SettleIs DEF Settles
<1> HIDE DEF n, Link
<1>3. step \in StepMaps(ItemMaps, n)
  BY <1>2 DEF StepMaps
<1>4. \A i \in 1..n : \A e \in ItemMaps : step[i][e] = Link(e, i)
  OBVIOUS
<1> HIDE DEF step
<1>5. PICK f : f \in PassMaps(ItemMaps, n, items, step)
  BY <1>1, <1>3, PassExists
<1>f. /\ f \in [0..n -> ItemMaps] /\ f[0] = items
      /\ \A i \in 1..n : f[i] = step[i][f[i - 1]]
  BY <1>5 DEF PassMaps
<1>6. \A i \in 1..n : f[i] = Link(f[i - 1], i)
  <2> TAKE i \in 1..n
  <2>1. f[i - 1] \in ItemMaps
    BY <1>1, <1>f
  <2> QED BY <2>1, <1>4, <1>f
<1>7. f = [i \in 0..n |-> IF i = 0 THEN items ELSE Link(f[i - 1], i)]
  <2>1. \A i \in 0..n : f[i] = IF i = 0 THEN items ELSE Link(f[i - 1], i)
    BY <1>1, <1>f, <1>6
  <2> QED BY <1>f, <2>1
<1> DEFINE IsPass(h) == h = [i \in 0..n |-> IF i = 0 THEN items ELSE Link(h[i - 1], i)]
           h0 == CHOOSE h : IsPass(h)
<1>8. IsPass(h0)
  BY <1>7
<1>9. Settled(items, records) = h0[n]
  BY DEF Settled, Link, n
<1> HIDE DEF h0
<1>10. h0[0] = items /\ \A i \in 1..n : h0[i] = Link(h0[i - 1], i)
  BY <1>1, <1>8
<1>11. \A i \in 0..n : h0[i] \in ItemMaps
  <2> DEFINE Q == {i \in Nat : h0[i] \in ItemMaps}
  <2>1. 0 \in Q
    BY <1>10
  <2>2. \A i \in 1..n : i - 1 \in Q => i \in Q
    BY <1>2, <1>10
  <2>3. Q \in SUBSET Nat
    OBVIOUS
  <2> HIDE DEF Q
  <2>4. \A i \in 0..n : i \in Q
    BY <1>1, <2>1, <2>2, <2>3, HoldsUpTo
  <2> QED BY <2>4 DEF Q
<1>12. h0 \in [0..n -> ItemMaps]
  BY <1>8, <1>11
<1> QED BY <1>9, <1>10, <1>12 DEF n, Link

\* A record touches a key when it decides what stands under it afterwards.
Touches(rec, k) == IF rec.state = "done" THEN k \in KeySet(rec) ELSE k = FirstKey(rec)

\* What stands under a key afterwards stood there before and no record touched
\* it, or it is the item of the last record that touched it.
SettlesTo(items, records, after) ==
  /\ after \in ItemMaps
  /\ \A k \in DOMAIN after :
       \/ /\ k \in DOMAIN items /\ after[k] = items[k]
          /\ \A i \in 1..Len(records) : ~Touches(records[i], k)
       \/ \E i \in 1..Len(records) :
            /\ records[i].state # "done" /\ k = FirstKey(records[i])
            /\ after[k] = RetryItem(records[i])
            /\ \A j \in (i + 1)..Len(records) : ~Touches(records[j], k)
  /\ \A a : (\E k \in DOMAIN items : k[2] = a)
              \/ (\E i \in 1..Len(records) : records[i].art = a) =>
       \/ \E k \in DOMAIN after : k[2] = a
       \/ \E i \in 1..Len(records) : records[i].art = a /\ records[i].state = "done"

LEMMA SettledIs ==
  ASSUME NEW items \in ItemMaps, NEW records \in Seq(Record), Settles(records)
  PROVE  SettlesTo(items, records, Settled(items, records))
<1> DEFINE after == Settled(items, records)
<1> DEFINE n == Len(records)
<1>n. n \in Nat /\ \A i \in 1..n : records[i] \in Record /\ (records[i].state = "done" \/ Retriable(records[i]))
  BY DEF Settles
<1>1. PICK g \in [0..n -> ItemMaps] :
        /\ g[0] = items
        /\ \A i \in 1..n : g[i] = Settle(g[i - 1], records[i])
        /\ after = g[n]
  BY SettledPass
<1> HIDE DEF n, after
<1> DEFINE Origin(f, i) == \A k \in DOMAIN f :
              \/ /\ k \in DOMAIN items /\ f[k] = items[k]
                 /\ \A h \in 1..i : ~Touches(records[h], k)
              \/ \E h \in 1..i :
                   /\ records[h].state # "done" /\ k = FirstKey(records[h])
                   /\ f[k] = RetryItem(records[h])
                   /\ \A j \in (h + 1)..i : ~Touches(records[j], k)
           Held(f, i) == \A a : (\E k \in DOMAIN items : k[2] = a)
                                  \/ (\E h \in 1..i : records[h].art = a) =>
              \/ \E k \in DOMAIN f : k[2] = a
              \/ \E h \in 1..i : records[h].art = a /\ records[h].state = "done"
           P == {i \in Nat : Origin(g[i], i) /\ Held(g[i], i)}
<1>2. 0 \in P
  BY <1>1
<1>3. ASSUME NEW i \in 1..n, i - 1 \in P PROVE i \in P
  <2> DEFINE x == g[i - 1]
             y == g[i]
             rec == records[i]
  <2>1. i \in Nat /\ i - 1 \in 0..n /\ x \in ItemMaps /\ rec \in Record /\ y = Settle(x, rec)
    BY <1>n, <1>1
  <2>2. Origin(x, i - 1) /\ Held(x, i - 1)
    BY <1>3
  <2>3. rec.state = "done" \/ Retriable(rec)
    BY <1>n
  <2>4. rec = records[i] /\ rec.art = records[i].art
    OBVIOUS
  <2>5. \A h \in 1..i : h = i \/ h \in 1..(i - 1)
    OBVIOUS
  <2>6. \A h \in 1..(i - 1) : h \in 1..i
    OBVIOUS
  <2>k. \A k \in KeySet(rec) : k[2] = rec.art
    BY <2>1, KeysAre
  <2> HIDE DEF x, y, rec
  <2>7. CASE rec.state = "done"
    <3>1. y = Without(x, KeySet(rec))
      BY <2>1, <2>3, <2>7, SettleIs
    <3>2. DOMAIN y = DOMAIN x \ KeySet(rec) /\ \A k \in DOMAIN y : y[k] = x[k] /\ ~Touches(rec, k)
      BY <3>1, <2>7 DEF Without, Touches
    <3>3. Origin(y, i)
      <4> SUFFICES ASSUME NEW k \in DOMAIN y
                   PROVE  \/ /\ k \in DOMAIN items /\ y[k] = items[k]
                             /\ \A h \in 1..i : ~Touches(records[h], k)
                          \/ \E h \in 1..i :
                               /\ records[h].state # "done" /\ k = FirstKey(records[h])
                               /\ y[k] = RetryItem(records[h])
                               /\ \A j \in (h + 1)..i : ~Touches(records[j], k)
        OBVIOUS
      <4>1. k \in DOMAIN x /\ y[k] = x[k] /\ ~Touches(records[i], k)
        BY <3>2, <2>4
      <4>2. CASE /\ k \in DOMAIN items /\ x[k] = items[k]
                 /\ \A h \in 1..(i - 1) : ~Touches(records[h], k)
        BY <4>1, <4>2, <2>5
      <4>3. CASE \E h \in 1..(i - 1) :
                   /\ records[h].state # "done" /\ k = FirstKey(records[h])
                   /\ x[k] = RetryItem(records[h])
                   /\ \A j \in (h + 1)..(i - 1) : ~Touches(records[j], k)
        <5>1. PICK h \in 1..(i - 1) :
                   /\ records[h].state # "done" /\ k = FirstKey(records[h])
                   /\ x[k] = RetryItem(records[h])
                   /\ \A j \in (h + 1)..(i - 1) : ~Touches(records[j], k)
          BY <4>3
        <5>2. \A j \in (h + 1)..i : j = i \/ j \in (h + 1)..(i - 1)
          OBVIOUS
        <5>3. \A j \in (h + 1)..i : ~Touches(records[j], k)
          BY <4>1, <5>1, <5>2
        <5> QED BY <4>1, <5>1, <5>3, <2>6
      <4> QED BY <4>1, <4>2, <4>3, <2>2
    <3>4. Held(y, i)
      <4> SUFFICES ASSUME NEW a,
                          (\E k \in DOMAIN items : k[2] = a) \/ (\E h \in 1..i : records[h].art = a),
                          ~\E h \in 1..i : records[h].art = a /\ records[h].state = "done"
                   PROVE  \E k \in DOMAIN y : k[2] = a
        OBVIOUS
      <4>1. rec.art # a
        BY <2>4, <2>7
      <4>2. PICK k \in DOMAIN x : k[2] = a
        BY <4>1, <2>2, <2>4, <2>5, <2>6
      <4>3. k \notin KeySet(rec)
        BY <4>1, <4>2, <2>k
      <4> QED BY <4>2, <4>3, <3>2
    <3> QED BY <3>3, <3>4, <2>1 DEF y
  <2>8. CASE rec.state # "done"
    <3>1. PICK gone \in SUBSET KeySet(rec) :
            y = With(Without(x, gone), FirstKey(rec), RetryItem(rec))
      BY <2>1, <2>3, <2>8, SettleIs
    <3>f. FirstKey(rec) \in KeySet(rec)
      BY <2>1, <2>3, <2>8, SettleIs
    <3>2. /\ DOMAIN y = (DOMAIN x \ gone) \cup {FirstKey(rec)}
          /\ y[FirstKey(rec)] = RetryItem(rec)
          /\ \A k \in DOMAIN y : k # FirstKey(rec) =>
               k \in DOMAIN x /\ y[k] = x[k] /\ ~Touches(rec, k)
      BY <3>1, <2>8 DEF With, Without, Touches
    <3>3. Origin(y, i)
      <4> SUFFICES ASSUME NEW k \in DOMAIN y
                   PROVE  \/ /\ k \in DOMAIN items /\ y[k] = items[k]
                             /\ \A h \in 1..i : ~Touches(records[h], k)
                          \/ \E h \in 1..i :
                               /\ records[h].state # "done" /\ k = FirstKey(records[h])
                               /\ y[k] = RetryItem(records[h])
                               /\ \A j \in (h + 1)..i : ~Touches(records[j], k)
        OBVIOUS
      <4>0. CASE k = FirstKey(rec)
        <5>1. i \in 1..i /\ (i + 1)..i = {}
          OBVIOUS
        <5> QED BY <4>0, <5>1, <3>2, <2>4, <2>8
      <4>n. CASE k # FirstKey(rec)
        <5>1. k \in DOMAIN x /\ y[k] = x[k] /\ ~Touches(records[i], k)
          BY <3>2, <2>4, <4>n
        <5>2. CASE /\ k \in DOMAIN items /\ x[k] = items[k]
                   /\ \A h \in 1..(i - 1) : ~Touches(records[h], k)
          BY <5>1, <5>2, <2>5
        <5>3. CASE \E h \in 1..(i - 1) :
                     /\ records[h].state # "done" /\ k = FirstKey(records[h])
                     /\ x[k] = RetryItem(records[h])
                     /\ \A j \in (h + 1)..(i - 1) : ~Touches(records[j], k)
          <6>1. PICK h \in 1..(i - 1) :
                     /\ records[h].state # "done" /\ k = FirstKey(records[h])
                     /\ x[k] = RetryItem(records[h])
                     /\ \A j \in (h + 1)..(i - 1) : ~Touches(records[j], k)
            BY <5>3
          <6>2. \A j \in (h + 1)..i : j = i \/ j \in (h + 1)..(i - 1)
            OBVIOUS
          <6>3. \A j \in (h + 1)..i : ~Touches(records[j], k)
            BY <5>1, <6>1, <6>2
          <6> QED BY <5>1, <6>1, <6>3, <2>6
        <5> QED BY <5>1, <5>2, <5>3, <2>2
      <4> QED BY <4>0, <4>n
    <3>4. Held(y, i)
      <4> SUFFICES ASSUME NEW a,
                          (\E k \in DOMAIN items : k[2] = a) \/ (\E h \in 1..i : records[h].art = a),
                          ~\E h \in 1..i : records[h].art = a /\ records[h].state = "done"
                   PROVE  \E k \in DOMAIN y : k[2] = a
        OBVIOUS
      <4>1. CASE rec.art = a
        BY <4>1, <3>f, <3>2, <2>k
      <4>2. CASE rec.art # a
        <5>1. PICK k \in DOMAIN x : k[2] = a
          BY <4>2, <2>2, <2>4, <2>5, <2>6
        <5>2. k \notin KeySet(rec)
          BY <4>2, <5>1, <2>k
        <5> QED BY <5>1, <5>2, <3>2
      <4> QED BY <4>1, <4>2
    <3> QED BY <3>3, <3>4, <2>1 DEF y
  <2> QED BY <2>7, <2>8
<1> HIDE DEF P
<1>4. n \in P
  <2>1. P \in SUBSET Nat
    BY DEF P
  <2>2. \A i \in 0..n : i \in P
    BY <1>n, <1>2, <1>3, <2>1, HoldsUpTo
  <2> QED BY <2>2, <1>n
<1>5. after \in ItemMaps
  BY <1>1, <1>n
<1>6. /\ Origin(after, n)
      /\ Held(after, n)
  BY <1>4, <1>1 DEF P
<1> QED BY <1>5, <1>6 DEF SettlesTo, after, n

(***************************************************************************)
(* The inductive invariant: types and shapes                               *)
(***************************************************************************)
Version == [content : Edit, release : 1..MaxRelease, file : File]

Run ==
  [pc : {"discover", "persist", "process", "todo"}, mode : Mode, d : Discovery, page : Nat,
   requests : SUBSET Article, entries : SUBSET Article, records : Seq(Record),
   items : SUBSET Key, produced : SUBSET Article, next : Nat \ {0}]

TypeInv ==
  /\ source \in Sources
  /\ site \in [listing : Seq(Article), invalid : SUBSET Article, content : [Article -> Edit]]
  /\ disk \in [Day -> [Article -> Edit \cup {None}]]
  /\ raw \in SUBSET File
  /\ core \in [Article -> Seq(Version)]
  /\ \A a \in Article : \A v \in 1..Len(core[a]) : core[a][v].file \in raw
  /\ todo \in ItemMaps
  /\ \A k \in DOMAIN todo : todo[k].art = k[2]
  /\ run \in Run \cup {Idle}
  /\ day \in Day /\ release \in 1..MaxRelease
  /\ forgiven \in SUBSET Article

\* What is listed, what Core and the disk hold of it.
SiteInv ==
  /\ Strategy # "json_manifest" => site.invalid = {}
  /\ InCore \subseteq Listed
  /\ \A i, j \in 1..Len(site.listing) : site.listing[i] = site.listing[j] => i = j
  /\ \A d \in Day, a \in Article : disk[d][a] <= site.content[a]

\* An item of the to-do list: its kind, its key and its file belong together.
ItemFits(strategy, k, item, listed, saved) ==
  /\ item.kind = "process" <=> item.path # None
  /\ item.kind = "json_manifest_entry" <=> k[1] = "entry"
  /\ k[1] = "path" => item.path = k[3]
  /\ strategy = "api" => item.kind = "process"
  /\ strategy # "api" => k[1] # "path" /\ (item.kind = "process" => item.content # None)
  /\ strategy # "json_manifest" => k[1] # "entry"
  /\ k[2] \in listed
  /\ item.path # None => saved[item.path][k[2]] # None

ItemInv == \A k \in DOMAIN todo : ItemFits(Strategy, k, todo[k], Listed, disk)

\* A record: what its state says of its file, of Core and of its keys.
RecordFits(strategy, r, mode, listed, inCore, files, saved) ==
  /\ r.art \in listed
  /\ r.path # None => saved[r.path][r.art] # None
  /\ r.state = "fetched" => r.path # None
  /\ r.state \in {"stored", "duplicate"} => r.file \in files /\ (r.path # None \/ r.content # None)
  /\ r.state = "done" => r.art \in inCore /\ r.keyed
  /\ mode = "REPROCESS" =>
       r.art \in inCore /\ r.path = None /\ r.state \in {"failed", "duplicate", "done"} /\ ~r.entry
  /\ mode # "REPROCESS" =>
       /\ r.state = "entry_failed" => r.entry /\ r.path = None /\ ~r.keyed
       /\ r.state # "entry_failed" =>
            IF strategy = "api" THEN r.path # None
            ELSE r.keyed /\ (r.path # None => r.content # None)
       /\ r.entry => strategy = "json_manifest"

RecordInv ==
  run.pc # "idle" =>
    \A i \in 1..Len(run.records) :
      RecordFits(Strategy, run.records[i], run.mode, Listed, InCore, raw, disk)

\* How far the records have come.
StateFits(s, i, pc, next) ==
  /\ pc = "discover" => s \in {"fetched", "failed", "entry_failed"}
  /\ pc = "persist" => s # "done" /\ (i < next => s # "fetched")
  /\ pc = "process" => /\ s # "fetched"
                       /\ i < next => s \in {"done", "failed", "entry_failed"}
                       /\ i >= next => s # "done"
  /\ pc = "todo" => s \in {"done", "failed", "entry_failed"}

StageInv ==
  run.pc # "idle" =>
    \A i \in 1..Len(run.records) : StateFits(run.records[i].state, i, run.pc, run.next)

\* What a run has in hand, by its mode and by how far it has come.
RunFits(strategy, r) ==
  /\ r.mode = "REPROCESS" =>
       /\ r.pc = "process" /\ r.requests = {} /\ r.entries = {} /\ r.items = {}
       /\ r.d.seen = {}
       /\ \A i, j \in 1..Len(r.records) : r.records[i].art = r.records[j].art => i = j
  /\ r.mode = "RETRY" => r.page = None /\ r.d.seen = {} /\ r.d.selected = {}
  /\ r.mode \in {"INITIAL", "INCREMENTAL"} => r.items = {}
  /\ r.d.stop => r.page = None
  /\ r.pc # "discover" => r.page = None /\ r.requests = {} /\ (r.mode = "RETRY" => r.entries = {})
  /\ r.pc = "discover" => r.next = 1
  /\ OnePage(strategy) => r.page <= 1
  /\ strategy = "api" => r.requests = {}
  /\ strategy # "json_manifest" => r.entries = {}

RunInv ==
  run.pc # "idle" =>
    /\ RunFits(Strategy, run)
    /\ run.requests \cup run.entries \subseteq Listed
    /\ run.mode = "RETRY" /\ run.pc # "todo" =>
         /\ run.items = DOMAIN todo
         /\ \A a \in run.requests \cup run.entries : Pending(a)

BaseInv == TypeInv /\ SiteInv /\ ItemInv /\ RecordInv /\ StageInv /\ RunInv

LEMMA RunIs ==
  ASSUME TypeInv
  PROVE  /\ run.pc = "idle" <=> run = Idle
         /\ run.pc # "idle" =>
              /\ run \in Run
              /\ run.pc \in {"discover", "persist", "process", "todo"} /\ run.mode \in Mode
              /\ run.d \in Discovery /\ run.page \in Nat /\ run.requests \in SUBSET Article
              /\ run.entries \in SUBSET Article /\ run.records \in Seq(Record)
              /\ run.items \in SUBSET Key /\ run.produced \in SUBSET Article
              /\ run.next \in Nat \ {0}
              /\ Len(run.records) \in Nat
              /\ \A i \in 1..Len(run.records) : run.records[i] \in Record
<1>1. CASE run = Idle
  BY <1>1 DEF Idle
<1>2. CASE run \in Run
  BY <1>2 DEF Run, Idle
<1> QED BY <1>1, <1>2 DEF TypeInv

LEMMA ListedIs ==
  ASSUME TypeInv
  PROVE  /\ Listed \in SUBSET Article /\ IsFiniteSet(Listed)
         /\ Len(site.listing) \in Nat
         /\ \A a : a \in Listed <=> \E i \in 1..Len(site.listing) : site.listing[i] = a
<1> DEFINE n == Len(site.listing)
<1>1. site.listing \in Seq(Article) /\ n \in Nat
  BY DEF TypeInv
<1>2. Listed = {site.listing[i] : i \in 1..n}
  BY <1>1 DEF Listed, ToSet
<1>3. IsFiniteSet(1..n)
  BY <1>1, FS_Interval
<1>4. [i \in 1..n |-> site.listing[i]] \in Surjection(1..n, Listed)
  BY <1>2 DEF Surjection
<1>5. IsFiniteSet(Listed)
  BY <1>3, <1>4, FS_Surjection
<1> QED BY <1>1, <1>2, <1>5

LEMMA CoreIs ==
  ASSUME TypeInv
  PROVE  /\ InCore \in SUBSET Article
         /\ \A a \in InCore : /\ Current(a) \in Version /\ Current(a).file \in raw
                              /\ Current(a).content \in Edit /\ Current(a).file \in File
                              /\ Current(a).file.content \in Edit
<1>1. InCore \in SUBSET Article
  BY DEF InCore
<1>2. ASSUME NEW a \in InCore
      PROVE  Current(a) \in Version /\ Current(a).file \in raw
  <2>1. a \in Article /\ core[a] \in Seq(Version) /\ core[a] # <<>>
    BY DEF InCore, TypeInv
  <2>2. Len(core[a]) \in 1..Len(core[a])
    BY <2>1
  <2> QED BY <2>1, <2>2 DEF Current, TypeInv
<1> QED BY <1>1, <1>2 DEF Version, File

\* More is listed, in Core, registered and saved than before.
Grown ==
  /\ Strategy' = Strategy
  /\ Listed \subseteq Listed' /\ InCore \subseteq InCore' /\ raw \subseteq raw'
  /\ \A p \in Day, a \in Article : disk[p][a] # None => disk'[p][a] # None

\* The items and the records of the run then fit as before.
LEMMA FitsStay ==
  ASSUME BaseInv, Grown
  PROVE  /\ \A k \in DOMAIN todo : ItemFits(Strategy', k, todo[k], Listed', disk')
         /\ run.pc # "idle" => \A i \in 1..Len(run.records) :
              RecordFits(Strategy', run.records[i], run.mode, Listed', InCore', raw', disk')
<1> USE DEF BaseInv
<1>1. ASSUME NEW k \in DOMAIN todo PROVE ItemFits(Strategy', k, todo[k], Listed', disk')
  <2>1. k \in Key /\ todo[k] \in Item
    BY ItemMapsAre DEF TypeInv
  <2>2. k[2] \in Article /\ todo[k].path \in Day \cup {None}
    BY <2>1 DEF Key, Item
  <2>3. ItemFits(Strategy, k, todo[k], Listed, disk)
    BY DEF ItemInv
  <2> QED BY <2>2, <2>3 DEF ItemFits, Grown
<1>2. ASSUME run.pc # "idle", NEW i \in 1..Len(run.records)
      PROVE  RecordFits(Strategy', run.records[i], run.mode, Listed', InCore', raw', disk')
  <2>1. /\ run.records[i] \in Record
        /\ RecordFits(Strategy, run.records[i], run.mode, Listed, InCore, raw, disk)
    BY <1>2, RunIs DEF RecordInv
  <2>2. run.records[i].art \in Article /\ run.records[i].path \in Day \cup {None}
    BY <2>1 DEF Record
  <2> QED BY <2>1, <2>2 DEF RecordFits, Grown
<1> QED BY <1>1, <1>2

LEMMA PublishIs ==
  ASSUME TypeInv, NEW a \in Article, Publish(a)
  PROVE  /\ Len(site'.listing) = Len(site.listing) + 1 /\ site'.listing[1] = a
         /\ \A i \in 1..Len(site.listing) : site'.listing[i + 1] = site.listing[i]
         /\ \A i \in 1..Len(site'.listing) :
              i = 1 \/ (i - 1 \in 1..Len(site.listing) /\ site'.listing[i] = site.listing[i - 1])
         /\ a \notin Listed /\ Listed' = Listed \cup {a}
         /\ site' \in [listing : Seq(Article), invalid : SUBSET Article, content : [Article -> Edit]]
         /\ site'.content = site.content /\ site'.invalid = site.invalid
<1>1. /\ site.listing \in Seq(Article) /\ a \notin Listed
      /\ site \in [listing : Seq(Article), invalid : SUBSET Article, content : [Article -> Edit]]
      /\ site' = [site EXCEPT !.listing = <<a>> \o site.listing]
  BY DEF TypeInv, Publish
<1> DEFINE new == <<a>> \o site.listing
<1>2. /\ new \in Seq(Article) /\ Len(new) = 1 + Len(site.listing)
      /\ \A i \in 1..(1 + Len(site.listing)) :
           new[i] = IF i <= 1 THEN <<a>>[i] ELSE site.listing[i - 1]
  <2>1. <<a>> \in Seq(Article) /\ Len(<<a>>) = 1
    OBVIOUS
  <2> QED BY <1>1, <2>1, ConcatProperties
<1> HIDE DEF new
<1>3. /\ site'.listing = new /\ site'.content = site.content /\ site'.invalid = site.invalid
      /\ site' \in [listing : Seq(Article), invalid : SUBSET Article, content : [Article -> Edit]]
  BY <1>1, <1>2 DEF new
<1>4. /\ Len(new) = Len(site.listing) + 1 /\ new[1] = a
      /\ \A i \in 1..Len(site.listing) : new[i + 1] = site.listing[i]
      /\ \A i \in 1..Len(new) :
           i = 1 \/ (i - 1 \in 1..Len(site.listing) /\ new[i] = site.listing[i - 1])
  <2> DEFINE n == Len(site.listing)
  <2>1. n \in Nat
    BY <1>1
  <2>2. Len(new) = 1 + n /\ \A i \in 1..(1 + n) : new[i] = IF i <= 1 THEN <<a>>[i] ELSE site.listing[i - 1]
    BY <1>2
  <2> HIDE DEF n
  <2>3. new[1] = a
    BY <2>1, <2>2
  <2>4. ASSUME NEW i \in 1..n PROVE new[i + 1] = site.listing[i]
    <3>1. i + 1 \in 1..(1 + n) /\ ~(i + 1 <= 1) /\ (i + 1) - 1 = i
      BY <2>1
    <3>2. new[i + 1] = site.listing[(i + 1) - 1]
      BY <3>1, <2>2
    <3> QED BY <3>1, <3>2
  <2>5. ASSUME NEW i \in 1..Len(new), i # 1
        PROVE  i - 1 \in 1..n /\ new[i] = site.listing[i - 1]
    BY <2>1, <2>2, <2>5
  <2> QED BY <2>1, <2>2, <2>3, <2>4, <2>5 DEF n
<1>5. ToSet(new) = ToSet(site.listing) \cup {a}
  <2>1. /\ ToSet(new) = {new[i] : i \in 1..Len(new)}
        /\ ToSet(site.listing) = {site.listing[i] : i \in 1..Len(site.listing)}
        /\ Len(site.listing) \in Nat
    <3>1. \A t \in Seq(Article) : ToSet(t) = {t[i] : i \in 1..Len(t)} /\ Len(t) \in Nat
      BY DEF ToSet
    <3> QED BY <1>1, <1>2, <3>1
  <2>2. \A i \in 1..Len(site.listing) : i + 1 \in 1..Len(new)
    BY <1>2, <2>1
  <2>3. 1 \in 1..Len(new)
    BY <1>2, <2>1
  <2>4. ASSUME NEW x \in ToSet(new) PROVE x \in ToSet(site.listing) \cup {a}
    BY <1>4, <2>1
  <2>5. ASSUME NEW x \in ToSet(site.listing) \cup {a} PROVE x \in ToSet(new)
    BY <1>4, <2>1, <2>2, <2>3
  <2> QED BY <2>4, <2>5
<1> QED BY <1>1, <1>3, <1>4, <1>5 DEF Listed

\* What the publisher and the calendar do.
LEMMA EnvironmentBase ==
  ASSUME BaseInv, Environment
  PROVE  BaseInv'
<1> USE DEF BaseInv
<1>t. /\ site \in [listing : Seq(Article), invalid : SUBSET Article, content : [Article -> Edit]]
  BY DEF TypeInv
<1>1. ASSUME /\ UNCHANGED <<source, disk, raw, core, todo, run, forgiven>>
             /\ day' \in Day /\ release' \in 1..MaxRelease
             /\ site' \in [listing : Seq(Article), invalid : SUBSET Article, content : [Article -> Edit]]
             /\ Listed \subseteq Listed' /\ SiteInv'
      PROVE  BaseInv'
  <2>1. Strategy' = Strategy /\ InCore' = InCore
    BY <1>1 DEF Strategy, InCore
  <2>2. TypeInv'
    BY <1>1 DEF TypeInv
  <2>3. Grown
    BY <1>1, <2>1 DEF Grown
  <2>4. ItemInv' /\ RecordInv'
    BY <2>1, <2>3, <1>1, FitsStay DEF ItemInv, RecordInv
  <2>5. StageInv'
    BY <1>1 DEF StageInv
  <2>6. RunInv'
    BY <1>1, <2>1 DEF RunInv, Pending
  <2> QED BY <1>1, <2>2, <2>3, <2>4, <2>5, <2>6
<1>2. ASSUME NEW a \in Article, Publish(a) PROVE BaseInv'
  <2>1. UNCHANGED <<source, disk, raw, core, todo, run, day, release, forgiven>>
    BY <1>2 DEF Publish
  <2>2. SiteInv'
    <3>1. Strategy' = Strategy /\ InCore' = InCore
      BY <2>1 DEF Strategy, InCore
    <3>2. ASSUME NEW i \in 1..Len(site'.listing), NEW j \in 1..Len(site'.listing),
                 site'.listing[i] = site'.listing[j]
          PROVE  i = j
      <4>1. \A m \in 1..Len(site.listing) : site.listing[m] # a
        BY <1>2, PublishIs, ListedIs
      <4>2. CASE i = 1 \/ j = 1
        BY <1>2, <3>2, <4>1, <4>2, PublishIs
      <4>3. CASE i # 1 /\ j # 1
        <5>1. /\ i - 1 \in 1..Len(site.listing) /\ j - 1 \in 1..Len(site.listing)
              /\ site.listing[i - 1] = site.listing[j - 1]
          BY <1>2, <3>2, <4>3, PublishIs
        <5>2. i - 1 = j - 1
          BY <5>1 DEF SiteInv
        <5> QED BY <5>2
      <4> QED BY <4>2, <4>3
    <3> QED BY <1>2, <2>1, <3>1, <3>2, PublishIs DEF SiteInv
  <2> QED BY <1>1, <1>2, <2>1, <2>2, PublishIs DEF TypeInv
<1>3. ASSUME NEW a \in Article, EditPage(a) PROVE BaseInv'
  <2>1. /\ UNCHANGED <<source, disk, raw, core, todo, run, day, release, forgiven>>
        /\ site' = [site EXCEPT !.content[a] = site.content[a] + 1]
        /\ site.content[a] < Bound.edits
    BY <1>3 DEF EditPage
  <2>2. /\ source \in Sources /\ Bound \in Scope /\ site.content[a] \in Edit
        /\ Bound.edits \in 1..MaxEdit /\ MaxEdit \in Nat
    BY SourceAssumption, BoundAssumption, <1>t DEF TypeInv, Bound, Scope
  <2>3. site.content[a] + 1 \in Edit
    BY <2>1, <2>2 DEF Edit
  <2>4. /\ site'.listing = site.listing /\ site'.invalid = site.invalid
        /\ site'.content = [site.content EXCEPT ![a] = site.content[a] + 1]
        /\ site' \in [listing : Seq(Article), invalid : SUBSET Article, content : [Article -> Edit]]
    BY <2>1, <2>3, <1>t
  <2>5. Listed' = Listed /\ InCore' = InCore /\ Strategy' = Strategy
    BY <2>1, <2>4 DEF Listed, InCore, Strategy
  <2>6. \A d \in Day, b \in Article : disk'[d][b] <= site'.content[b]
    <3> TAKE d \in Day, b \in Article
    <3>1. site.content[b] \in Edit /\ site'.content[b] \in Edit /\ site.content[b] <= site'.content[b]
      BY <2>2, <2>4, <1>t DEF Edit
    <3>2. disk[d][b] <= site.content[b] /\ disk[d][b] \in Edit \cup {None}
      BY DEF SiteInv, TypeInv
    <3> QED BY <3>1, <3>2, <2>1 DEF Edit, None
  <2>7. SiteInv'
    BY <2>1, <2>4, <2>5, <2>6 DEF SiteInv
  <2> QED BY <1>1, <2>1, <2>4, <2>5, <2>7 DEF TypeInv
<1>4. ASSUME NEW a \in Article, SpoilEntry(a) PROVE BaseInv'
  <2>1. /\ UNCHANGED <<source, disk, raw, core, todo, run, day, release, forgiven>>
        /\ site' = [site EXCEPT !.invalid = IF a \in site.invalid THEN site.invalid \ {a}
                                            ELSE site.invalid \cup {a}]
        /\ Strategy = "json_manifest"
    BY <1>4 DEF SpoilEntry
  <2>2. /\ site'.listing = site.listing /\ site'.content = site.content
        /\ site' \in [listing : Seq(Article), invalid : SUBSET Article, content : [Article -> Edit]]
    BY <2>1, <1>t
  <2>3. Listed' = Listed /\ InCore' = InCore /\ Strategy' = Strategy
    BY <2>1, <2>2 DEF Listed, InCore, Strategy
  <2>4. SiteInv'
    BY <2>1, <2>2, <2>3 DEF SiteInv
  <2> QED BY <1>1, <2>1, <2>2, <2>3, <2>4 DEF TypeInv
<1>5. ASSUME NextDay \/ NewRelease PROVE BaseInv'
  <2>1. /\ UNCHANGED <<source, site, disk, raw, core, todo, run, forgiven>>
        /\ (day' = day + 1 /\ day < Bound.days /\ release' = release)
             \/ (release' = release + 1 /\ release < Bound.releases /\ day' = day)
    BY <1>5 DEF NextDay, NewRelease
  <2>2. /\ Bound \in Scope /\ Bound.days \in 1..MaxDay /\ Bound.releases \in 1..MaxRelease
        /\ MaxDay \in Nat /\ MaxRelease \in Nat /\ day \in Day /\ release \in 1..MaxRelease
    BY SourceAssumption, BoundAssumption DEF TypeInv, Bound, Scope
  <2>3. day' \in Day /\ release' \in 1..MaxRelease
    BY <2>1, <2>2 DEF Day
  <2>4. SiteInv' /\ Listed' = Listed
    BY <2>1 DEF SiteInv, Listed, InCore, Strategy
  <2> QED BY <1>1, <2>1, <2>3, <2>4, <1>t
<1> QED BY <1>2, <1>3, <1>4, <1>5 DEF Environment

LEMMA RecordsAre ==
  ASSUME NEW a \in Article, NEW content \in Edit \cup {None}, NEW path \in Day \cup {None},
         NEW document \in BOOLEAN
  PROVE  /\ NewRecord(a, content, path, document) \in Record
         /\ NewRecord(a, content, path, document).art = a
         /\ NewRecord(a, content, path, document).content = content
         /\ NewRecord(a, content, path, document).path = path
         /\ NewRecord(a, content, path, document).keyed = (Strategy # "api")
         /\ NewRecord(a, content, path, document).entry = FALSE
         /\ NewRecord(a, content, path, document).file = <<>>
         /\ NewRecord(a, content, path, document).state = "fetched"
         /\ FailedRecord(a) \in Record /\ FailedRecord(a).art = a
         /\ FailedRecord(a).content = None /\ FailedRecord(a).path = None
         /\ FailedRecord(a).keyed = (Strategy # "api") /\ FailedRecord(a).entry = FALSE
         /\ FailedRecord(a).file = <<>> /\ FailedRecord(a).state = "failed"
<1>1. NewRecord(a, content, path, document) \in Record
  BY DEF NewRecord, Record
<1>2. NewRecord(a, None, None, FALSE) \in Record
  BY DEF NewRecord, Record
<1>3. FailedRecord(a) \in Record
  BY <1>2 DEF FailedRecord, Record
<1> QED BY <1>1, <1>2, <1>3 DEF NewRecord, FailedRecord, Record

LEMMA NewDiscoveryIs ==
  ASSUME NEW mode, NEW policy
  PROVE  /\ NewDiscovery(mode, policy) \in Discovery
         /\ NewDiscovery(mode, policy).seen = {} /\ NewDiscovery(mode, policy).selected = {}
         /\ ~NewDiscovery(mode, policy).stop
BY DEF NewDiscovery, Discovery

LEMMA StartIs ==
  ASSUME BaseInv, NEW mode \in Mode, Start(mode)
  PROVE  /\ run.pc = "idle"
         /\ UNCHANGED <<source, site, disk, raw, core, todo, day, release, forgiven>>
         /\ mode \in {"INITIAL", "INCREMENTAL"}
         /\ run' \in Run /\ run'.pc = "discover" /\ run'.mode = mode
         /\ run'.d = NewDiscovery(mode, Policy) /\ run'.page = 1
         /\ run'.requests = {} /\ run'.entries = {} /\ run'.records = <<>> /\ run'.items = {}
         /\ run'.produced = {} /\ run'.next = 1
<1>1. NewDiscovery(mode, Policy) \in Discovery
  BY NewDiscoveryIs
<1>2. run' = [pc |-> "discover", mode |-> mode, d |-> NewDiscovery(mode, Policy), page |-> 1,
              requests |-> {}, entries |-> {}, records |-> <<>>, items |-> {}, produced |-> {},
              next |-> 1]
  BY DEF Start, Begin
<1>3. run' \in Run
  BY <1>1, <1>2 DEF Run, Start
<1> QED BY <1>2, <1>3 DEF Start

LEMMA RetryIs ==
  ASSUME BaseInv, StartRetry
  PROVE  LET saved == SetToSeq(ItemsOf("process"))
         IN  /\ run.pc = "idle"
             /\ UNCHANGED <<source, site, disk, raw, core, todo, day, release, forgiven>>
             /\ saved \in Seq(ItemsOf("process")) /\ Len(saved) = Cardinality(ItemsOf("process"))
             /\ ToSet(saved) = ItemsOf("process")
             /\ \A i, j \in 1..Len(saved) : saved[i] = saved[j] => i = j
             /\ run' \in Run /\ run'.pc = "discover" /\ run'.mode = "RETRY"
             /\ run'.d.seen = {} /\ run'.d.selected = {} /\ ~run'.d.stop /\ run'.page = None
             /\ run'.requests = {k[2] : k \in ItemsOf("fetch")}
             /\ run'.entries = {k[2] : k \in ItemsOf("json_manifest_entry")}
             /\ run'.items = DOMAIN todo /\ run'.produced = {} /\ run'.next = 1
             /\ Len(run'.records) = Len(saved)
             /\ \A i \in 1..Len(saved) :
                  LET k == saved[i]
                      r == run'.records[i]
                  IN  /\ k \in DOMAIN todo /\ todo[k].kind = "process"
                      /\ r \in Record /\ r.art = k[2] /\ r.content = todo[k].content
                      /\ r.path = todo[k].path /\ r.keyed = (k[1] = "record" /\ Strategy # "api")
                      /\ ~r.entry /\ r.file = <<>> /\ r.state = "fetched"
<1> USE DEF BaseInv
<1> DEFINE saved == SetToSeq(ItemsOf("process"))
           Saved(k) == [NewRecord(todo[k].art, todo[k].content, todo[k].path, todo[k].document)
                          EXCEPT !.keyed = k[1] = "record" /\ Strategy # "api"]
           d == [NewDiscovery("RETRY", Policy) EXCEPT !.end = TRUE]
           requests == {todo[k].art : k \in ItemsOf("fetch")}
           entries == {todo[k].art : k \in ItemsOf("json_manifest_entry")}
           records == [i \in 1..Len(saved) |-> Saved(saved[i])]
<1>1. /\ DOMAIN todo \in SUBSET Key /\ IsFiniteSet(DOMAIN todo)
      /\ \A k \in DOMAIN todo : todo[k] \in Item /\ todo[k].art = k[2] /\ k[2] \in Article
  <2>1. \A k \in Key : k[2] \in Article
    BY DEF Key
  <2> QED BY <2>1, ItemMapsAre DEF TypeInv
<1>2. /\ saved \in Seq(ItemsOf("process")) /\ Len(saved) = Cardinality(ItemsOf("process"))
      /\ ToSet(saved) = ItemsOf("process")
      /\ \A i, j \in 1..Len(saved) : saved[i] = saved[j] => i = j
  <2>1. IsFiniteSet(ItemsOf("process"))
    BY <1>1, FS_Subset DEF ItemsOf
  <2> QED BY <2>1, SetToSeqIs
<1>3. /\ run.pc = "idle"
      /\ UNCHANGED <<source, site, disk, raw, core, todo, day, release, forgiven>>
      /\ run' = [pc |-> "discover", mode |-> "RETRY", d |-> d, page |-> None,
                 requests |-> requests, entries |-> entries, records |-> records,
                 items |-> DOMAIN todo, produced |-> {}, next |-> 1]
  BY DEF StartRetry
<1>4. d \in Discovery /\ d.seen = {} /\ d.selected = {} /\ ~d.stop
  BY NewDiscoveryIs DEF Discovery
<1>5. ASSUME NEW k \in DOMAIN todo
      PROVE  /\ Saved(k) \in Record /\ Saved(k).art = k[2] /\ Saved(k).content = todo[k].content
             /\ Saved(k).path = todo[k].path
             /\ Saved(k).keyed = (k[1] = "record" /\ Strategy # "api")
             /\ ~Saved(k).entry /\ Saved(k).file = <<>> /\ Saved(k).state = "fetched"
  <2>1. /\ todo[k].art \in Article /\ todo[k].content \in Edit \cup {None} /\ todo[k].art = k[2]
        /\ todo[k].path \in Day \cup {None} /\ todo[k].document \in BOOLEAN
    BY <1>1 DEF Item
  <2> DEFINE r == NewRecord(todo[k].art, todo[k].content, todo[k].path, todo[k].document)
  <2>2. /\ r \in Record /\ r.art = k[2] /\ r.content = todo[k].content
        /\ r.path = todo[k].path /\ r.entry = FALSE /\ r.file = <<>> /\ r.state = "fetched"
    BY <2>1 DEF NewRecord, Record
  <2>3. Saved(k) = [r EXCEPT !.keyed = k[1] = "record" /\ Strategy # "api"]
    OBVIOUS
  <2>4. (k[1] = "record" /\ Strategy # "api") \in BOOLEAN
    OBVIOUS
  <2> HIDE DEF Saved, r
  <2> QED BY <2>2, <2>3, <2>4 DEF Record
<1>6. \A kind : ItemsOf(kind) \subseteq DOMAIN todo /\ \A k \in ItemsOf(kind) : todo[k].kind = kind
  BY DEF ItemsOf
<1>7. /\ requests = {k[2] : k \in ItemsOf("fetch")} /\ requests \in SUBSET Article
      /\ entries = {k[2] : k \in ItemsOf("json_manifest_entry")} /\ entries \in SUBSET Article
  BY <1>1, <1>6
<1> HIDE DEF saved, Saved, d, requests, entries
<1>8. /\ Len(records) = Len(saved) /\ records \in Seq(Record)
      /\ \A i \in 1..Len(saved) : /\ saved[i] \in DOMAIN todo /\ todo[saved[i]].kind = "process"
                                  /\ records[i] = Saved(saved[i])
  <2>1. Len(saved) \in Nat /\ \A i \in 1..Len(saved) : saved[i] \in ItemsOf("process")
    BY <1>2
  <2>2. \A i \in 1..Len(saved) : Saved(saved[i]) \in Record
    BY <2>1, <1>5, <1>6
  <2> QED BY <2>1, <2>2, <1>6
<1> HIDE DEF records
<1>9. run' \in Run
  BY <1>1, <1>3, <1>4, <1>7, <1>8 DEF Run, Mode, None
<1>10. /\ run'.pc = "discover" /\ run'.mode = "RETRY"
       /\ run'.d.seen = {} /\ run'.d.selected = {} /\ ~run'.d.stop /\ run'.page = None
       /\ run'.requests = requests /\ run'.entries = entries /\ run'.records = records
       /\ run'.items = DOMAIN todo /\ run'.produced = {} /\ run'.next = 1
  BY <1>3, <1>4
<1>11. \A i \in 1..Len(saved) :
         LET k == saved[i]
             r == run'.records[i]
         IN  /\ k \in DOMAIN todo /\ todo[k].kind = "process"
             /\ r \in Record /\ r.art = k[2] /\ r.content = todo[k].content
             /\ r.path = todo[k].path /\ r.keyed = (k[1] = "record" /\ Strategy # "api")
             /\ ~r.entry /\ r.file = <<>> /\ r.state = "fetched"
  BY <1>5, <1>8, <1>10
<1> QED BY <1>2, <1>3, <1>7, <1>8, <1>9, <1>10, <1>11 DEF saved

LEMMA ReprocessIs ==
  ASSUME BaseInv, NEW unread, StartReprocess(unread)
  PROVE  LET arts == SetToSeq(InCore)
         IN  /\ run.pc = "idle"
             /\ UNCHANGED <<source, site, disk, raw, core, todo, day, release, forgiven>>
             /\ arts \in Seq(InCore) /\ ToSet(arts) = InCore
             /\ \A i, j \in 1..Len(arts) : arts[i] = arts[j] => i = j
             /\ run' \in Run /\ run'.pc = "process" /\ run'.mode = "REPROCESS"
             /\ run'.d.seen = {} /\ run'.d.selected = {} /\ ~run'.d.stop /\ run'.page = None
             /\ run'.requests = {} /\ run'.entries = {} /\ run'.items = {} /\ run'.produced = {}
             /\ run'.next = 1
             /\ Len(run'.records) = Len(arts)
             /\ \A i \in 1..Len(arts) :
                  LET a == arts[i]
                      r == run'.records[i]
                  IN  /\ a \in InCore /\ r \in Record /\ r.art = a /\ r.path = None /\ ~r.entry
                      /\ r.file = Current(a).file
                      /\ r.state = "failed"
                           \/ (r.state = "duplicate" /\ r.content = Current(a).file.content)
<1> USE DEF BaseInv
<1> DEFINE arts == SetToSeq(InCore)
           Reread(a) == IF a \in unread
                        THEN [FailedRecord(a) EXCEPT !.file = Current(a).file]
                        ELSE [NewRecord(a, Current(a).file.content, None, FALSE)
                                EXCEPT !.file = Current(a).file, !.state = "duplicate"]
           d == [NewDiscovery("REPROCESS", Policy)
                   EXCEPT !.end = TRUE, !.failed = unread # {}, !.known = InCore # {}]
           records == [i \in 1..Len(arts) |-> Reread(arts[i])]
<1>1. /\ arts \in Seq(InCore) /\ ToSet(arts) = InCore
      /\ \A i, j \in 1..Len(arts) : arts[i] = arts[j] => i = j
  <2>1. IsFiniteSet(InCore)
    BY ListedIs, FS_Subset DEF SiteInv
  <2> QED BY <2>1, SetToSeqIs
<1>2. /\ run.pc = "idle"
      /\ UNCHANGED <<source, site, disk, raw, core, todo, day, release, forgiven>>
      /\ run' = [pc |-> "process", mode |-> "REPROCESS", d |-> d, page |-> None, requests |-> {},
                 entries |-> {}, records |-> records, items |-> {}, produced |-> {}, next |-> 1]
  <2>1. run.pc = "idle"
    BY Zenon DEF StartReprocess
  <2>2. UNCHANGED <<source, site, disk, raw, core, todo, day, release, forgiven>>
    BY Zenon DEF StartReprocess
  <2>3. Begin("REPROCESS", "process", d, None, {}, records, {})
    BY Zenon DEF StartReprocess
  <2> HIDE DEF d, records
  <2> QED BY <2>1, <2>2, <2>3 DEF Begin
<1>3. d \in Discovery /\ d.seen = {} /\ d.selected = {} /\ ~d.stop
  <2>1. (unread # {}) \in BOOLEAN /\ (InCore # {}) \in BOOLEAN
    OBVIOUS
  <2> DEFINE failed == unread # {}
             known == InCore # {}
             d0 == NewDiscovery("REPROCESS", Policy)
  <2>2. failed \in BOOLEAN /\ known \in BOOLEAN
    BY <2>1
  <2>3. d0 \in Discovery /\ d0.seen = {} /\ d0.selected = {} /\ ~d0.stop
    BY NewDiscoveryIs
  <2>4. d = [d0 EXCEPT !.end = TRUE, !.failed = failed, !.known = known]
    OBVIOUS
  <2> HIDE DEF d, d0, failed, known
  <2> QED BY <2>2, <2>3, <2>4 DEF Discovery
<1>4. ASSUME NEW a \in InCore
      PROVE  /\ Reread(a) \in Record /\ Reread(a).art = a /\ Reread(a).path = None /\ ~Reread(a).entry
             /\ Reread(a).file = Current(a).file
             /\ Reread(a).state = "failed"
                  \/ (Reread(a).state = "duplicate" /\ Reread(a).content = Current(a).file.content)
  <2>1. a \in Article /\ Current(a).file \in File /\ Current(a).file.content \in Edit
    BY CoreIs
  <2>2. CASE a \in unread
    <3>1. FailedRecord(a) \in Record
      BY <2>1, RecordsAre DEF None
    <3>2. /\ FailedRecord(a).art = a /\ FailedRecord(a).path = None /\ ~FailedRecord(a).entry
          /\ FailedRecord(a).state = "failed"
      BY <2>1, RecordsAre DEF None
    <3>3. Reread(a) = [FailedRecord(a) EXCEPT !.file = Current(a).file]
      BY <2>2
    <3> HIDE DEF Reread
    <3> QED BY <2>1, <3>1, <3>2, <3>3 DEF Record
  <2>3. CASE a \notin unread
    <3> DEFINE r == NewRecord(a, Current(a).file.content, None, FALSE)
    <3>1. /\ r \in Record /\ r.art = a /\ r.path = None /\ ~r.entry
          /\ r.content = Current(a).file.content
      BY <2>1 DEF NewRecord, Record, None
    <3>3. Reread(a) = [r EXCEPT !.file = Current(a).file, !.state = "duplicate"]
      BY <2>3
    <3> HIDE DEF Reread, r
    <3> QED BY <2>1, <3>1, <3>3 DEF Record
  <2> QED BY <2>2, <2>3
<1> HIDE DEF arts, Reread, d
<1>5. /\ Len(records) = Len(arts) /\ records \in Seq(Record)
      /\ \A i \in 1..Len(arts) : arts[i] \in InCore /\ records[i] = Reread(arts[i])
  BY <1>1, <1>4
<1> HIDE DEF records
<1>6. run' \in Run
  BY <1>2, <1>3, <1>5 DEF Run, Mode, None
<1>7. /\ run'.pc = "process" /\ run'.mode = "REPROCESS"
      /\ run'.d.seen = {} /\ run'.d.selected = {} /\ ~run'.d.stop /\ run'.page = None
      /\ run'.requests = {} /\ run'.entries = {} /\ run'.items = {} /\ run'.produced = {}
      /\ run'.next = 1 /\ run'.records = records
  BY <1>2, <1>3
<1> QED BY <1>1, <1>2, <1>4, <1>5, <1>6, <1>7 DEF arts

LEMMA StartBase ==
  ASSUME BaseInv, NEW mode \in Mode, Start(mode)
  PROVE  BaseInv'
<1> USE DEF BaseInv
<1>1. /\ UNCHANGED <<source, site, disk, raw, core, todo, day, release, forgiven>>
      /\ Strategy' = Strategy /\ InCore' = InCore /\ Listed' = Listed
  BY StartIs DEF Strategy, InCore, Listed
<1>2. Grown
  BY <1>1 DEF Grown
<1>3. TypeInv'
  BY <1>1, StartIs DEF TypeInv
<1>4. SiteInv' /\ ItemInv'
  BY <1>1, <1>2, FitsStay DEF SiteInv, ItemInv
<1>5. run'.records = <<>> /\ Len(run'.records) = 0
  BY StartIs
<1>6. RecordInv' /\ StageInv'
  BY <1>5 DEF RecordInv, StageInv
<1>7. RunInv'
  BY StartIs, NewDiscoveryIs DEF RunInv, RunFits
<1> QED BY <1>3, <1>4, <1>6, <1>7

LEMMA RetryBase ==
  ASSUME BaseInv, StartRetry
  PROVE  BaseInv'
<1> USE DEF BaseInv
<1> DEFINE saved == SetToSeq(ItemsOf("process"))
<1>1. /\ UNCHANGED <<source, site, disk, raw, core, todo, day, release, forgiven>>
      /\ Strategy' = Strategy /\ InCore' = InCore /\ Listed' = Listed
  BY RetryIs DEF Strategy, InCore, Listed
<1>2. Grown
  BY <1>1 DEF Grown
<1>3. TypeInv'
  <2>1. run' \in Run
    BY RetryIs
  <2> QED BY <1>1, <2>1 DEF TypeInv
<1>4. SiteInv' /\ ItemInv'
  BY <1>1, <1>2, FitsStay DEF SiteInv, ItemInv
<1>5. ASSUME NEW i \in 1..Len(run'.records)
      PROVE  /\ RecordFits(Strategy', run'.records[i], run'.mode, Listed', InCore', raw', disk')
             /\ StateFits(run'.records[i].state, i, run'.pc, run'.next)
  <2> DEFINE k == saved[i]
             r == run'.records[i]
  <2>1. /\ run'.pc = "discover" /\ run'.mode = "RETRY"
        /\ k \in DOMAIN todo /\ todo[k].kind = "process"
        /\ r \in Record /\ r.art = k[2] /\ r.content = todo[k].content
        /\ r.path = todo[k].path /\ r.keyed = (k[1] = "record" /\ Strategy # "api")
        /\ ~r.entry /\ r.file = <<>> /\ r.state = "fetched"
    BY RetryIs
  <2>2. ItemFits(Strategy, k, todo[k], Listed, disk) /\ k \in Key
    BY <2>1, ItemMapsAre DEF ItemInv, TypeInv
  <2>3. k[1] \in {"record", "path", "entry"}
    BY <2>2 DEF Key
  <2> HIDE DEF k, r
  <2>4. RecordFits(Strategy, r, "RETRY", Listed, InCore, raw, disk)
    BY <2>1, <2>2, <2>3 DEF RecordFits, ItemFits
  <2>5. StateFits(r.state, i, "discover", run'.next)
    BY <2>1 DEF StateFits
  <2> QED BY <1>1, <2>1, <2>4, <2>5 DEF r
<1>6. RecordInv' /\ StageInv'
  BY <1>5 DEF RecordInv, StageInv
<1>7. \A kind : \A k \in ItemsOf(kind) : /\ k \in DOMAIN todo /\ k[2] \in Listed
                                        /\ todo[k].kind = kind
                                        /\ ItemFits(Strategy, k, todo[k], Listed, disk)
  BY DEF ItemsOf, ItemInv, ItemFits
<1>8. /\ run'.requests \cup run'.entries \subseteq Listed
      /\ \A a \in run'.requests \cup run'.entries : Pending(a)
  <2>1. /\ run'.requests = {k[2] : k \in ItemsOf("fetch")}
        /\ run'.entries = {k[2] : k \in ItemsOf("json_manifest_entry")}
    BY RetryIs
  <2> QED BY <1>7, <2>1 DEF Pending
<1>9. /\ Strategy = "api" => run'.requests = {}
      /\ Strategy # "json_manifest" => run'.entries = {}
  <2>1. /\ run'.requests = {k[2] : k \in ItemsOf("fetch")}
        /\ run'.entries = {k[2] : k \in ItemsOf("json_manifest_entry")}
    BY RetryIs
  <2>2. ASSUME Strategy = "api", NEW k \in ItemsOf("fetch") PROVE FALSE
    BY <1>7, <2>2 DEF ItemFits
  <2>3. ASSUME Strategy # "json_manifest", NEW k \in ItemsOf("json_manifest_entry") PROVE FALSE
    BY <1>7, <2>3 DEF ItemFits
  <2> QED BY <2>1, <2>2, <2>3
<1>10. /\ run'.mode = "RETRY" /\ run'.pc = "discover" /\ run'.d.seen = {} /\ run'.d.selected = {}
       /\ ~run'.d.stop /\ run'.page = 0 /\ run'.next = 1 /\ run'.items = DOMAIN todo
  BY RetryIs DEF None
<1>11. RunFits(Strategy', run')
  BY <1>1, <1>9, <1>10 DEF RunFits, None
<1>12. RunInv'
  BY <1>1, <1>8, <1>10, <1>11 DEF RunInv, Pending
<1> QED BY <1>3, <1>4, <1>6, <1>12

LEMMA ReprocessBase ==
  ASSUME BaseInv, NEW unread, StartReprocess(unread)
  PROVE  BaseInv'
<1> USE DEF BaseInv
<1> DEFINE arts == SetToSeq(InCore)
<1>1. /\ UNCHANGED <<source, site, disk, raw, core, todo, day, release, forgiven>>
      /\ Strategy' = Strategy /\ InCore' = InCore /\ Listed' = Listed
  BY ReprocessIs DEF Strategy, InCore, Listed
<1>2. Grown
  BY <1>1 DEF Grown
<1>3. TypeInv'
  <2>1. run' \in Run
    BY ReprocessIs
  <2> QED BY <1>1, <2>1 DEF TypeInv
<1>4. SiteInv' /\ ItemInv'
  BY <1>1, <1>2, FitsStay DEF SiteInv, ItemInv
<1>5. ASSUME NEW i \in 1..Len(run'.records)
      PROVE  /\ RecordFits(Strategy', run'.records[i], run'.mode, Listed', InCore', raw', disk')
             /\ StateFits(run'.records[i].state, i, run'.pc, run'.next)
  <2> DEFINE a == arts[i]
             r == run'.records[i]
  <2>1. /\ run'.pc = "process" /\ run'.mode = "REPROCESS" /\ run'.next = 1
        /\ a \in InCore /\ r \in Record /\ r.art = a /\ r.path = None /\ ~r.entry
        /\ r.file = Current(a).file
        /\ r.state = "failed"
             \/ (r.state = "duplicate" /\ r.content = Current(a).file.content)
    BY ReprocessIs
  <2>2. /\ Current(a).file \in raw /\ Current(a).file.content \in Edit /\ a \in Listed
        /\ Current(a).file.content # None
    BY <2>1, CoreIs DEF SiteInv, Edit, None
  <2> HIDE DEF a, r
  <2>4. RecordFits(Strategy, r, "REPROCESS", Listed, InCore, raw, disk)
    BY <2>1, <2>2 DEF RecordFits
  <2>5. StateFits(r.state, i, "process", 1)
    BY <2>1 DEF StateFits
  <2> QED BY <1>1, <2>1, <2>4, <2>5 DEF r
<1>6. RecordInv' /\ StageInv'
  BY <1>5 DEF RecordInv, StageInv
<1>7. \A i, j \in 1..Len(run'.records) : run'.records[i].art = run'.records[j].art => i = j
  <2>1. /\ \A i, j \in 1..Len(arts) : arts[i] = arts[j] => i = j
        /\ Len(run'.records) = Len(arts)
        /\ \A i \in 1..Len(arts) : run'.records[i].art = arts[i]
    BY ReprocessIs
  <2> HIDE DEF arts
  <2> QED BY <2>1
<1>8. /\ run'.mode = "REPROCESS" /\ run'.pc = "process" /\ run'.d.seen = {} /\ run'.d.selected = {}
      /\ ~run'.d.stop /\ run'.page = None /\ run'.requests = {} /\ run'.entries = {}
      /\ run'.items = {}
  BY ReprocessIs
<1>9. RunFits(Strategy', run')
  BY <1>7, <1>8 DEF RunFits, None
<1>10. RunInv'
  BY <1>8, <1>9 DEF RunInv
<1> QED BY <1>3, <1>4, <1>6, <1>10

(***************************************************************************)
(* The steps of discovery                                                  *)
(***************************************************************************)
\* What a page leaves open is behind an article that Core has, or on the
\* pages that follow.
LEMMA ListPageIs ==
  ASSUME BaseInv, NEW unnamed \in SUBSET Article, NEW unread \in SUBSET Article,
         ListPage(unnamed, unread)
  PROVE  LET links == Page(Strategy, site.listing, run.page)
             bad   == IF Strategy = "json_manifest" THEN site.invalid ELSE {}
         IN  /\ run.pc = "discover" /\ run.page # None /\ Strategy # "api"
             /\ run.mode \in {"INITIAL", "INCREMENTAL"} /\ ~run.d.stop
             /\ UNCHANGED <<source, site, disk, raw, core, todo, day, release>>
             /\ run' \in Run /\ run'.pc = "discover" /\ run'.mode = run.mode
             /\ run.d.seen \subseteq run'.d.seen /\ run.d.selected \subseteq run'.d.selected
             /\ run.d.failed => run'.d.failed
             /\ run'.d.stop => run'.page = None
             /\ OnePage(Strategy) => run'.page = None
             /\ links \in Seq(Article) /\ ToSet(links) \subseteq Listed
             /\ run'.requests = run.requests \cup (run'.d.selected \ run.d.selected)
             /\ run'.d.selected \subseteq run.d.selected \cup ToSet(links)
             /\ run'.entries = run.entries \cup (ToSet(links) \cap bad)
             /\ run'.records = run.records /\ run'.items = run.items
             /\ run'.produced = run.produced /\ run'.next = run.next
             /\ unnamed \cup unread \subseteq ToSet(links)
             /\ forgiven' = forgiven \cup ((unnamed \cup unread) \ InCore)
             /\ \A a \in run'.d.seen : a \in run.d.seen \/ (a \in unread /\ run'.d.failed)
                  \/ a \in InCore \/ a \in run'.d.selected
             /\ \A j \in 1..Len(site.listing) : j > (run.page - 1) * PageSize =>
                  \/ site.listing[j] \in run'.d.seen \cup forgiven' \cup run'.entries \cup InCore
                  \/ \E i \in 1..(j - 1) : site.listing[i] \in InCore
                  \/ run'.page # None /\ j > (run'.page - 1) * PageSize
<1> USE DEF BaseInv
<1> DEFINE links == Page(Strategy, site.listing, run.page)
           json == Strategy = "json_manifest"
           bad == IF json THEN site.invalid ELSE {}
           d1 == CheckShard(run.d, links, bad)
           d2 == DiscoverPage(d1, links, bad, InCore, Policy, unnamed, unread)
           empty == links = <<>> /\ run.page = 1
           last == IF json THEN LastPage(Strategy, site.listing, run.page)
                   ELSE links = <<>> \/ OnePage(Strategy)
           d3 == IF empty THEN [d2 EXCEPT !.failed = TRUE]
                 ELSE [d2 EXCEPT !.end = last /\ ~d2.stop]
           page == IF d2.stop \/ last \/ empty THEN None ELSE run.page + 1
           off == (run.page - 1) * PageSize
<1>1. /\ run.pc = "discover" /\ run.page # None /\ Strategy # "api"
      /\ unnamed \cup unread \subseteq ToSet(links)
      /\ UNCHANGED <<source, site, disk, raw, core, todo, day, release>>
      /\ forgiven' = forgiven \cup ((unnamed \cup unread) \ InCore)
      /\ run' = [run EXCEPT !.d = d3, !.page = page,
                   !.requests = run.requests \cup (d2.selected \ run.d.selected),
                   !.entries = run.entries \cup (ToSet(links) \cap bad)]
  BY DEF ListPage
<1>2. /\ run \in Run /\ run.d \in Discovery /\ run.page \in Nat \ {0} /\ run.mode \in Mode
      /\ RunFits(Strategy, run)
      /\ run.requests \in SUBSET Article /\ run.entries \in SUBSET Article
  BY <1>1, RunIs DEF RunInv, None
<1>3. /\ run.mode \in {"INITIAL", "INCREMENTAL"} /\ ~run.d.stop
      /\ OnePage(Strategy) => run.page = 1
  BY <1>1, <1>2 DEF RunFits, Mode, None
<1>4. site.listing \in Seq(Article)
  BY DEF TypeInv
<1>5. /\ links \in Seq(Article) /\ off \in Nat /\ ToSet(links) \subseteq Listed
      /\ \A m \in 1..Len(links) :
           off + m \in 1..Len(site.listing) /\ links[m] = site.listing[off + m]
      /\ \A j \in 1..Len(site.listing) : j > off =>
           \/ j - off \in 1..Len(links)
           \/ j > ((run.page + 1) - 1) * PageSize /\ ~LastPage(Strategy, site.listing, run.page)
                /\ links # <<>>
  <2>1. /\ links \in Seq(Article) /\ off \in Nat /\ ToSet(links) \subseteq ToSet(site.listing)
        /\ \A m \in 1..Len(links) :
             off + m \in 1..Len(site.listing) /\ links[m] = site.listing[off + m]
        /\ \A j \in 1..Len(site.listing) : j > off =>
             \/ j - off \in 1..Len(links)
             \/ j > ((run.page + 1) - 1) * PageSize /\ ~LastPage(Strategy, site.listing, run.page)
                  /\ links # <<>>
    <3>1. run.page \in Nat \ {0} /\ (OnePage(Strategy) => run.page = 1)
      BY <1>2, <1>3
    <3>2. PageFits(Strategy, site.listing, run.page, links, off)
      BY <1>4, <3>1, PageIs
    <3> HIDE DEF links, off
    <3> QED BY <3>2 DEF PageFits
  <2> HIDE DEF links, off
  <2> QED BY <2>1 DEF Listed
<1>l. LastPage(Strategy, site.listing, run.page) \/ ~OnePage(Strategy)
  BY DEF LastPage
<1>o. json => ~OnePage(Strategy)
  BY DEF OnePage
<1>m. last \in BOOLEAN
  BY Zenon DEF LastPage
<1>n. last => (json /\ LastPage(Strategy, site.listing, run.page)) \/ (~json /\ (links = <<>> \/ OnePage(Strategy)))
  OBVIOUS
<1>p. OnePage(Strategy) => last
  BY <1>o
<1> HIDE DEF links, bad, off
<1>6. /\ d1 \in Discovery /\ d1.seen = run.d.seen /\ d1.selected = run.d.selected
      /\ ~d1.stop /\ (run.d.failed => d1.failed)
  BY <1>2, <1>3, ShardIs
<1> HIDE DEF d1
<1>7. /\ d2 \in Discovery
      /\ d1.seen \subseteq d2.seen /\ d1.selected \subseteq d2.selected /\ (d1.failed => d2.failed)
      /\ d2.selected \subseteq d1.selected \cup ToSet(links)
      /\ \A a \in d2.seen : a \in d1.seen \/ (a \in unread /\ d2.failed) \/ a \in InCore
           \/ a \in d2.selected
      /\ \A j \in 1..Len(links) :
           links[j] \in bad \cup unnamed \cup d2.seen
             \/ \E m \in 1..(j - 1) : links[m] \in InCore
      /\ d2.stop => \E m \in 1..Len(links) : links[m] \in InCore
  BY <1>5, <1>6, PageScan
<1> HIDE DEF d2, last, json
<1>8. empty \in BOOLEAN /\ (empty => links = <<>>)
  OBVIOUS
<1> HIDE DEF empty
<1>9. /\ d3 \in Discovery /\ d3.seen = d2.seen /\ d3.selected = d2.selected /\ d3.stop = d2.stop
      /\ d2.failed => d3.failed
  BY <1>7, <1>8, <1>m DEF Discovery
<1>10. /\ page \in Nat /\ (d2.stop => page = None) /\ (OnePage(Strategy) => page = None)
       /\ page # None => page = run.page + 1
       /\ page = None => d2.stop \/ last \/ empty
  BY <1>2, <1>p DEF None
<1> HIDE DEF d3, page
<1>11. /\ run'.d = d3 /\ run'.page = page
       /\ run'.requests = run.requests \cup (d2.selected \ run.d.selected)
       /\ run'.entries = run.entries \cup (ToSet(links) \cap bad)
       /\ run'.pc = run.pc /\ run'.mode = run.mode /\ run'.records = run.records
       /\ run'.items = run.items /\ run'.produced = run.produced /\ run'.next = run.next
  BY <1>1, <1>2 DEF Run
<1>12. run' \in Run
  <2>1. /\ run.requests \cup (d2.selected \ run.d.selected) \in SUBSET Article
        /\ run.entries \cup (ToSet(links) \cap bad) \in SUBSET Article
    BY <1>2, <1>5, <1>7, ListedIs DEF Discovery
  <2> QED BY <1>1, <1>2, <1>9, <1>10, <2>1 DEF Run
<1>13. ASSUME NEW j \in 1..Len(site.listing), j > off
       PROVE  \/ site.listing[j] \in run'.d.seen \cup forgiven' \cup run'.entries \cup InCore
              \/ \E i \in 1..(j - 1) : site.listing[i] \in InCore
              \/ run'.page # None /\ j > (run'.page - 1) * PageSize
  <2>1. \A m \in 1..Len(links) : links[m] = site.listing[off + m] /\ off + m \in Nat /\ off + m >= 1
    BY <1>5
  <2>2. CASE j - off \in 1..Len(links)
    <3> DEFINE h == j - off
    <3>1. h \in 1..Len(links) /\ site.listing[j] = links[h] /\ links[h] \in ToSet(links)
      <4>1. off + h = j
        BY <1>5
      <4>2. DOMAIN links = 1..Len(links)
        BY <1>5
      <4> QED BY <2>1, <2>2, <4>1, <4>2 DEF ToSet
    <3>2. CASE \E m \in 1..(h - 1) : links[m] \in InCore
      <4>1. PICK m \in 1..(h - 1) : links[m] \in InCore
        BY <3>2
      <4>2. m \in 1..Len(links) /\ off + m \in 1..(j - 1)
        BY <1>5, <3>1
      <4> QED BY <2>1, <4>1, <4>2
    <3>3. CASE links[h] \in bad \cup unnamed \cup d2.seen
      BY <1>1, <1>9, <1>11, <3>1, <3>3
    <3> QED BY <1>7, <3>1, <3>2, <3>3
  <2>3. CASE j > ((run.page + 1) - 1) * PageSize /\ ~LastPage(Strategy, site.listing, run.page)
               /\ links # <<>>
    <3>1. ~last /\ ~empty
      BY <1>n, <1>l, <1>8, <2>3
    <3>2. CASE d2.stop
      <4>1. PICK m \in 1..Len(links) : links[m] \in InCore
        BY <1>7, <3>2
      <4>2. off + m \in 1..Len(site.listing)
        BY <1>5
      <4>3. CASE off + m < j
        <5>1. off + m \in 1..(j - 1)
          BY <4>2, <4>3
        <5> QED BY <2>1, <4>1, <5>1
      <4>4. CASE ~(off + m < j)
        <5>1. j - off \in 1..Len(links)
          BY <1>5, <1>13, <4>4
        <5> QED BY <5>1, <2>2
      <4> QED BY <4>3, <4>4
    <3>3. CASE ~d2.stop
      <4>1. page = run.page + 1 /\ page # None
        BY <1>10, <3>1, <3>3
      <4> QED BY <2>3, <1>11, <4>1
    <3> QED BY <3>2, <3>3
  <2> QED BY <1>5, <1>13, <2>2, <2>3
<1> QED BY <1>1, <1>3, <1>5, <1>6, <1>7, <1>9, <1>10, <1>11, <1>12, <1>13 DEF links, bad, json, off

LEMMA PageLostIs ==
  ASSUME BaseInv, PageLost
  PROVE  /\ run.pc = "discover" /\ run.page # None /\ Strategy # "api"
         /\ run.mode \in {"INITIAL", "INCREMENTAL"}
         /\ UNCHANGED <<source, site, disk, raw, core, todo, day, release>>
         /\ run' \in Run /\ run'.pc = "discover" /\ run'.mode = run.mode /\ run'.page = None
         /\ run'.d.seen = run.d.seen /\ run'.d.selected = run.d.selected
         /\ run.d.failed => run'.d.failed
         /\ run'.requests = run.requests /\ run'.entries = run.entries
         /\ run'.records = run.records /\ run'.items = run.items
         /\ run'.produced = run.produced /\ run'.next = run.next
         /\ forgiven' = forgiven \cup (Listed \ (run.d.seen \cup InCore))
<1> USE DEF BaseInv
<1>1. /\ run.pc = "discover" /\ run.page # None /\ Strategy # "api"
      /\ UNCHANGED <<source, site, disk, raw, core, todo, day, release>>
      /\ forgiven' = forgiven \cup (Listed \ (run.d.seen \cup InCore))
      /\ run' = [run EXCEPT !.page = None,
                   !.d.failed = run.d.failed \/ Strategy = "json_manifest"]
  BY DEF PageLost
<1>2. /\ run \in Run /\ run.d \in Discovery /\ run.mode \in Mode /\ RunFits(Strategy, run)
  BY <1>1, RunIs DEF RunInv
<1>3. run.mode \in {"INITIAL", "INCREMENTAL"}
  BY <1>1, <1>2 DEF RunFits, Mode
<1> DEFINE failed == run.d.failed \/ Strategy = "json_manifest"
           d == [run.d EXCEPT !.failed = failed]
<1>4. failed \in BOOLEAN /\ (run.d.failed => failed)
  OBVIOUS
<1>5. run' = [run EXCEPT !.page = None, !.d = d]
  BY <1>1, <1>2 DEF Run
<1> HIDE DEF failed
<1>6. /\ d \in Discovery /\ d.seen = run.d.seen /\ d.selected = run.d.selected
      /\ run.d.failed => d.failed
  BY <1>2, <1>4 DEF Discovery
<1> HIDE DEF d
<1>7. run' \in Run /\ run'.d = d /\ run'.page = None
      /\ run'.pc = run.pc /\ run'.mode = run.mode /\ run'.records = run.records
      /\ run'.requests = run.requests /\ run'.entries = run.entries
      /\ run'.items = run.items /\ run'.produced = run.produced /\ run'.next = run.next
  BY <1>2, <1>5, <1>6 DEF Run, None
<1> QED BY <1>1, <1>3, <1>6, <1>7

\* Likewise the page of an API source, whose new articles become records.
LEMMA CollectPageIs ==
  ASSUME BaseInv, NEW unchecked, CollectPage(unchecked)
  PROVE  LET links == Page(Strategy, site.listing, run.page)
             fresh == ToSet(links) \ run.produced
         IN  /\ run.pc = "discover" /\ run.page # None /\ Strategy = "api"
             /\ run.mode \in {"INITIAL", "INCREMENTAL"} /\ ~run.d.stop
             /\ UNCHANGED <<source, site, raw, core, todo, day, release, forgiven>>
             /\ links \in Seq(Article) /\ ToSet(links) \subseteq Listed
             /\ disk' \in [Day -> [Article -> Edit \cup {None}]]
             /\ \A p \in Day, a \in Article :
                  disk'[p][a] = IF p = day /\ a \in fresh THEN site.content[a] ELSE disk[p][a]
             /\ run' \in Run /\ run'.pc = "discover" /\ run'.mode = run.mode
             /\ run'.d.seen \subseteq run.d.seen \cup ToSet(links) /\ run'.d.selected = {}
             /\ run.d.failed => run'.d.failed
             /\ run'.d.stop => run'.page = None
             /\ run'.requests = run.requests /\ run'.entries = run.entries
             /\ run'.items = run.items /\ run'.next = run.next
             /\ run'.produced = run.produced \cup fresh
             /\ \A i \in 1..Len(run.records) :
                  i \in 1..Len(run'.records) /\ run'.records[i] = run.records[i]
             /\ \A i \in 1..Len(run'.records) :
                  \/ i \in 1..Len(run.records) /\ run'.records[i] = run.records[i]
                  \/ /\ run'.records[i] \in Record /\ run'.records[i].art \in fresh
                     /\ run'.records[i].path = day /\ run'.records[i].content = None
                     /\ ~run'.records[i].keyed /\ ~run'.records[i].entry
                     /\ run'.records[i].file = <<>> /\ run'.records[i].state = "fetched"
             /\ \A a \in fresh : \E i \in 1..Len(run'.records) : run'.records[i].art = a
             /\ \A j \in 1..Len(site.listing) : j > (run.page - 1) * PageSize =>
                  \/ site.listing[j] \in ToSet(links)
                  \/ \E i \in 1..(j - 1) : site.listing[i] \in InCore
                  \/ run'.page # None /\ j > (run'.page - 1) * PageSize
<1> USE DEF BaseInv
<1> DEFINE links == Page(Strategy, site.listing, run.page)
           fresh == ToSet(links) \ run.produced
           order == Unproduced(links, run.produced)
           d == IF run.d.mayStop THEN StopCheck(run.d, links, InCore, "full_scan", unchecked)
                ELSE [run.d EXCEPT !.seen = run.d.seen \cup ToSet(order)]
           last == LastPage(Strategy, site.listing, run.page)
           d1 == [d EXCEPT !.end = last /\ ~d.stop, !.selected = {}]
           page == IF d.stop \/ last THEN None ELSE run.page + 1
           off == (run.page - 1) * PageSize
           new == [i \in 1..Len(order) |-> NewRecord(order[i], None, day, FALSE)]
<1>1. /\ run.pc = "discover" /\ run.page # None /\ Strategy = "api"
      /\ UNCHANGED <<source, site, raw, core, todo, day, release, forgiven>>
      /\ disk' = [disk EXCEPT ![day] = [a \in Article |->
            IF a \in ToSet(order) THEN site.content[a] ELSE disk[day][a]]]
      /\ run' = [run EXCEPT !.d = d1, !.page = page,
                   !.produced = run.produced \cup ToSet(order), !.records = run.records \o new]
  BY DEF CollectPage
<1>2. /\ run \in Run /\ run.d \in Discovery /\ run.page \in Nat \ {0} /\ run.mode \in Mode
      /\ RunFits(Strategy, run) /\ run.produced \in SUBSET Article
      /\ run.records \in Seq(Record) /\ Len(run.records) \in Nat
  BY <1>1, RunIs DEF RunInv, None
<1>3. /\ run.mode \in {"INITIAL", "INCREMENTAL"} /\ ~run.d.stop
      /\ OnePage(Strategy) => run.page = 1
  BY <1>1, <1>2 DEF RunFits, Mode, None
<1>4. /\ site.listing \in Seq(Article) /\ day \in Day
      /\ disk \in [Day -> [Article -> Edit \cup {None}]] /\ site.content \in [Article -> Edit]
  BY DEF TypeInv
<1>5. /\ links \in Seq(Article) /\ off \in Nat /\ ToSet(links) \subseteq ToSet(site.listing)
      /\ \A m \in 1..Len(links) :
           off + m \in 1..Len(site.listing) /\ links[m] = site.listing[off + m]
      /\ \A j \in 1..Len(site.listing) : j > off =>
           \/ j - off \in 1..Len(links)
           \/ j > ((run.page + 1) - 1) * PageSize /\ ~last /\ links # <<>>
  <2>1. PageFits(Strategy, site.listing, run.page, links, off)
    BY <1>2, <1>3, <1>4, PageIs
  <2> HIDE DEF links, off
  <2> QED BY <2>1 DEF PageFits
<1>t. ToSet(links) \subseteq Listed
  BY <1>5 DEF Listed
<1>l. last \in BOOLEAN
  BY Zenon DEF LastPage
<1>6. order \in Seq(Article) /\ ToSet(order) = fresh /\ fresh \subseteq Article
  <2>1. ToSet(links) \subseteq Article
    BY <1>t, ListedIs
  <2> HIDE DEF links
  <2> QED BY <1>5, <2>1, UnproducedIs
<1> HIDE DEF links, off, last, order
<1>7. /\ d \in Discovery /\ (run.d.failed => d.failed)
      /\ d.seen \subseteq run.d.seen \cup ToSet(links)
      /\ d.stop => \E m \in 1..Len(links) : links[m] \in InCore
  <2>1. CASE run.d.mayStop
    <3>1. d = StopCheck(run.d, links, InCore, "full_scan", unchecked)
      BY <2>1
    <3> HIDE DEF d
    <3> QED BY <1>2, <1>3, <1>5, <3>1, CheckScan
  <2>2. CASE ~run.d.mayStop
    <3>1. d = [run.d EXCEPT !.seen = run.d.seen \cup ToSet(order)]
      BY <2>2
    <3> HIDE DEF d
    <3> QED BY <1>2, <1>3, <1>6, <3>1 DEF Discovery
  <2> QED BY <2>1, <2>2
<1> HIDE DEF d
<1>8. /\ d1 \in Discovery /\ d1.seen = d.seen /\ d1.selected = {} /\ d1.stop = d.stop
      /\ d1.failed = d.failed
  BY <1>7, <1>l DEF Discovery
<1>9. /\ page \in Nat /\ (d.stop => page = None)
      /\ page # None => page = run.page + 1
      /\ page = None => d.stop \/ last
  BY <1>2 DEF None
<1> HIDE DEF d1, page
<1>10. /\ new \in Seq(Record) /\ Len(new) = Len(order) /\ Len(order) \in Nat
       /\ \A i \in 1..Len(order) :
            /\ new[i] \in Record /\ new[i].art = order[i] /\ order[i] \in fresh
            /\ new[i].path = day /\ new[i].content = None /\ ~new[i].keyed /\ ~new[i].entry
            /\ new[i].file = <<>> /\ new[i].state = "fetched"
  <2>1. ASSUME NEW i \in 1..Len(order)
        PROVE  LET r == NewRecord(order[i], None, day, FALSE)
               IN  /\ r \in Record /\ r.art = order[i] /\ order[i] \in fresh
                   /\ r.path = day /\ r.content = None /\ ~r.keyed /\ ~r.entry
                   /\ r.file = <<>> /\ r.state = "fetched"
    <3>1. order[i] \in Article /\ order[i] \in ToSet(order)
      BY <1>6 DEF ToSet
    <3> QED BY <3>1, <1>1, <1>4, <1>6 DEF NewRecord, Record, None
  <2> DEFINE R(i) == NewRecord(order[i], None, day, FALSE)
             len == Len(order)
  <2>2. len \in Nat
    BY <1>6
  <2>3. new = [i \in 1..len |-> R(i)]
    OBVIOUS
  <2>4. \A i \in 1..len : R(i) \in Record
    BY <2>1
  <2> HIDE DEF new, R, len
  <2>5. new \in Seq(Record) /\ Len(new) = len /\ \A i \in 1..len : new[i] = R(i)
    BY <2>2, <2>3, <2>4
  <2> QED BY <2>1, <2>2, <2>5 DEF R, len
<1> HIDE DEF new
<1> DEFINE records == run.records \o new
           n == Len(run.records)
           m == Len(new)
<1>11. /\ records \in Seq(Record) /\ Len(records) = n + m /\ n \in Nat /\ m \in Nat
       /\ \A i \in 1..(n + m) : records[i] = IF i <= n THEN run.records[i] ELSE new[i - n]
  <2> DEFINE old == run.records
  <2>1. old \in Seq(Record) /\ Len(old) \in Nat /\ new \in Seq(Record) /\ Len(new) \in Nat
    BY <1>2, <1>10
  <2> HIDE DEF old
  <2>2. /\ old \o new \in Seq(Record) /\ Len(old \o new) = Len(old) + Len(new)
        /\ \A i \in 1..(Len(old) + Len(new)) :
             (old \o new)[i] = IF i <= Len(old) THEN old[i] ELSE new[i - Len(old)]
    BY <2>1, ConcatProperties
  <2> QED BY <2>1, <2>2 DEF old
<1>12. /\ \A i \in 1..n : i \in 1..Len(records) /\ records[i] = run.records[i]
       /\ \A i \in 1..Len(records) :
            (i \in 1..n /\ records[i] = run.records[i])
              \/ (i - n \in 1..m /\ records[i] = new[i - n])
       /\ \A i \in 1..m : n + i \in 1..Len(records) /\ records[n + i] = new[i]
  <2> HIDE DEF n, m, records
  <2>1. ASSUME NEW i \in 1..n PROVE i \in 1..Len(records) /\ records[i] = run.records[i]
    BY <1>11
  <2>2. ASSUME NEW i \in 1..Len(records)
        PROVE  (i \in 1..n /\ records[i] = run.records[i])
                 \/ (i - n \in 1..m /\ records[i] = new[i - n])
    BY <1>11
  <2>3. ASSUME NEW i \in 1..m PROVE n + i \in 1..Len(records) /\ records[n + i] = new[i]
    <3>1. n + i \in 1..(n + m) /\ ~(n + i <= n) /\ (n + i) - n = i
      BY <1>11
    <3> QED BY <3>1, <1>11
  <2> QED BY <2>1, <2>2, <2>3
<1>h. records = run.records \o new
  OBVIOUS
<1> HIDE DEF records
<1>13. /\ run'.d = d1 /\ run'.page = page /\ run'.records = records
       /\ run'.produced = run.produced \cup fresh
       /\ run'.pc = run.pc /\ run'.mode = run.mode /\ run'.requests = run.requests
       /\ run'.entries = run.entries /\ run'.items = run.items /\ run'.next = run.next
  BY <1>1, <1>2, <1>6, <1>h DEF Run
<1>14. run' \in Run
  <2>1. run.produced \cup fresh \in SUBSET Article
    BY <1>2, <1>6
  <2> QED BY <1>1, <1>2, <1>6, <1>8, <1>9, <1>11, <1>h, <2>1 DEF Run
<1>15. /\ disk' \in [Day -> [Article -> Edit \cup {None}]]
       /\ \A p \in Day, a \in Article :
            disk'[p][a] = IF p = day /\ a \in fresh THEN site.content[a] ELSE disk[p][a]
  <2> DEFINE row == [a \in Article |-> IF a \in ToSet(order) THEN site.content[a] ELSE disk[day][a]]
  <2>1. row \in [Article -> Edit \cup {None}]
        /\ \A a \in Article : row[a] = IF a \in fresh THEN site.content[a] ELSE disk[day][a]
    BY <1>4, <1>6
  <2>2. disk' = [disk EXCEPT ![day] = row]
    BY <1>1
  <2> HIDE DEF row
  <2> QED BY <1>4, <2>1, <2>2
<1>16. ASSUME NEW j \in 1..Len(site.listing), j > off
       PROVE  \/ site.listing[j] \in ToSet(links)
              \/ \E i \in 1..(j - 1) : site.listing[i] \in InCore
              \/ run'.page # None /\ j > (run'.page - 1) * PageSize
  <2>2. CASE j - off \in 1..Len(links)
    <3> DEFINE h == j - off
    <3>1. off + h = j
      BY <1>5
    <3>2. DOMAIN links = 1..Len(links)
      BY <1>5
    <3> QED BY <1>5, <2>2, <3>1, <3>2 DEF ToSet
  <2>3. CASE j > ((run.page + 1) - 1) * PageSize /\ ~last /\ links # <<>>
    <3>2. CASE d.stop
      <4>1. PICK k \in 1..Len(links) : links[k] \in InCore
        BY <1>7, <3>2
      <4>2. off + k \in 1..Len(site.listing) /\ links[k] = site.listing[off + k]
        BY <1>5
      <4>3. CASE off + k < j
        <5>1. off + k \in 1..(j - 1)
          BY <4>2, <4>3
        <5> QED BY <4>1, <4>2, <5>1
      <4>4. CASE ~(off + k < j)
        <5>1. j - off \in 1..Len(links)
          BY <1>5, <1>16, <4>4
        <5> QED BY <5>1, <2>2
      <4> QED BY <4>3, <4>4
    <3>3. CASE ~d.stop
      <4>1. page = run.page + 1 /\ page # None
        BY <1>9, <2>3, <3>3
      <4> QED BY <2>3, <1>13, <4>1
    <3> QED BY <3>2, <3>3
  <2> QED BY <1>5, <1>16, <2>2, <2>3
<1>17. \A a \in fresh : \E i \in 1..Len(run'.records) : run'.records[i].art = a
  <2> SUFFICES ASSUME NEW a \in fresh PROVE \E i \in 1..Len(records) : records[i].art = a
    BY <1>13
  <2>1. PICK i \in 1..Len(order) : order[i] = a
    <3>1. DOMAIN order = 1..Len(order)
      BY <1>6
    <3> QED BY <1>6, <3>1 DEF ToSet
  <2> QED BY <2>1, <1>10, <1>12
<1>18. \A i \in 1..Len(run'.records) :
         \/ i \in 1..Len(run.records) /\ run'.records[i] = run.records[i]
         \/ /\ run'.records[i] \in Record /\ run'.records[i].art \in fresh
            /\ run'.records[i].path = day /\ run'.records[i].content = None
            /\ ~run'.records[i].keyed /\ ~run'.records[i].entry
            /\ run'.records[i].file = <<>> /\ run'.records[i].state = "fetched"
  <2> SUFFICES ASSUME NEW i \in 1..Len(records)
               PROVE \/ i \in 1..n /\ records[i] = run.records[i]
                     \/ /\ records[i] \in Record /\ records[i].art \in fresh
                        /\ records[i].path = day /\ records[i].content = None
                        /\ ~records[i].keyed /\ ~records[i].entry
                        /\ records[i].file = <<>> /\ records[i].state = "fetched"
    BY <1>13
  <2> QED BY <1>10, <1>12
<1> QED BY <1>1, <1>3, <1>5, <1>t, <1>7, <1>8, <1>9, <1>12, <1>13, <1>14, <1>15, <1>16, <1>17, <1>18 DEF links, off

\* A request or a manifest item of a is answered: it becomes the record rec.
Answers(a, rec) ==
  /\ run.pc = "discover"
  /\ UNCHANGED <<source, site, raw, core, todo, day, release, forgiven>>
  /\ rec \in Record /\ rec.art = a /\ rec.file = <<>>
  /\ run' \in Run /\ run'.pc = "discover" /\ run'.mode = run.mode /\ run'.d = run.d
  /\ run'.page = run.page /\ run'.items = run.items /\ run'.next = run.next
  /\ run'.produced = run.produced \cup {a}
  /\ \/ /\ a \in run.requests
        /\ run'.requests = run.requests \ {a} /\ run'.entries = run.entries
     \/ /\ a \in run.entries
        /\ run'.requests = run.requests /\ run'.entries = run.entries \ {a}
  /\ Len(run'.records) = Len(run.records) + 1
  /\ run'.records[Len(run.records) + 1] = rec
  /\ \A i \in 1..Len(run.records) : run'.records[i] = run.records[i]

LEMMA AnswersIs ==
  ASSUME BaseInv, run.pc = "discover", NEW a \in Article, NEW rec \in Record,
         rec.art = a, rec.file = <<>>,
         UNCHANGED <<source, site, raw, core, todo, day, release, forgiven>>,
         \/ /\ a \in run.requests
            /\ run' = [run EXCEPT !.requests = run.requests \ {a},
                         !.produced = run.produced \cup {a}, !.records = Append(run.records, rec)]
         \/ /\ a \in run.entries
            /\ run' = [run EXCEPT !.entries = run.entries \ {a},
                         !.produced = run.produced \cup {a}, !.records = Append(run.records, rec)]
  PROVE  Answers(a, rec)
<1> DEFINE records == Append(run.records, rec)
<1>1. /\ run \in Run /\ run.requests \in SUBSET Article /\ run.entries \in SUBSET Article
      /\ run.produced \in SUBSET Article /\ run.records \in Seq(Record)
      /\ Len(run.records) \in Nat
  BY RunIs DEF BaseInv
<1>2. /\ records \in Seq(Record) /\ Len(records) = Len(run.records) + 1
      /\ records[Len(run.records) + 1] = rec
      /\ \A i \in 1..Len(run.records) : records[i] = run.records[i]
  BY <1>1
<1> HIDE DEF records
<1>3. /\ run.requests \ {a} \in SUBSET Article /\ run.entries \ {a} \in SUBSET Article
      /\ run.produced \cup {a} \in SUBSET Article
  BY <1>1
<1>4. \/ /\ a \in run.requests
         /\ run' = [run EXCEPT !.requests = run.requests \ {a},
                      !.produced = run.produced \cup {a}, !.records = records]
      \/ /\ a \in run.entries
         /\ run' = [run EXCEPT !.entries = run.entries \ {a},
                      !.produced = run.produced \cup {a}, !.records = records]
  BY DEF records
<1>5. run' \in Run
  BY <1>1, <1>2, <1>3, <1>4 DEF Run
<1>6. /\ run'.pc = run.pc /\ run'.mode = run.mode /\ run'.d = run.d
      /\ run'.page = run.page /\ run'.items = run.items /\ run'.next = run.next
      /\ run'.produced = run.produced \cup {a} /\ run'.records = records
      /\ \/ /\ a \in run.requests
            /\ run'.requests = run.requests \ {a} /\ run'.entries = run.entries
         \/ /\ a \in run.entries
            /\ run'.requests = run.requests /\ run'.entries = run.entries \ {a}
  BY <1>1, <1>4 DEF Run
<1> QED BY <1>2, <1>5, <1>6 DEF Answers

\* A detail page: its HTML is on the disk now, whatever its record says.
LEMMA FetchIs ==
  ASSUME BaseInv, NEW a \in Article, FetchDetail(a)
  PROVE  /\ a \in run.requests
         /\ disk' \in [Day -> [Article -> Edit \cup {None}]]
         /\ \A p \in Day, b \in Article :
              disk'[p][b] = IF p = day /\ b = a THEN site.content[a] ELSE disk[p][b]
         /\ \E rec : /\ Answers(a, rec)
                     /\ rec.keyed = (Strategy # "api")
                     /\ rec.entry = (<<"entry", a>> \in run.items)
                     /\ \/ /\ rec.path = day /\ rec.content = site.content[a]
                           /\ rec.state \in {"fetched", "failed"}
                        \/ rec.path = None /\ rec.content = None /\ rec.state = "failed"
<1> USE DEF BaseInv
<1>1. /\ site.content[a] \in Edit /\ day \in Day /\ disk \in [Day -> [Article -> Edit \cup {None}]]
  BY DEF TypeInv
<1>2. /\ run.pc = "discover" /\ a \in run.requests
      /\ disk' = [disk EXCEPT ![day][a] = site.content[a]]
      /\ UNCHANGED <<source, site, raw, core, todo, day, release, forgiven>>
  BY DEF FetchDetail
<1> DEFINE page == NewRecord(a, site.content[a], day, Requires(Strategy))
           entry == <<"entry", a>> \in run.items
           Rec(outcome) == CASE outcome = "fetched"    -> page
                             [] outcome = "extraction" -> FailedRecord(a)
                             [] OTHER -> [page EXCEPT !.document = FALSE, !.state = "failed"]
<1>3. PICK outcome \in {"fetched", "extraction"} \cup
                       (IF Requires(Strategy) THEN {"no_document"} ELSE {}) :
        run' = [run EXCEPT !.requests = run.requests \ {a},
                  !.produced = run.produced \cup {a},
                  !.records = Append(run.records, [Rec(outcome) EXCEPT !.entry = entry])]
  BY Zenon DEF FetchDetail
<1>4. /\ page \in Record /\ page.art = a /\ page.file = <<>> /\ page.path = day
      /\ page.content = site.content[a] /\ page.state = "fetched" /\ page.keyed = (Strategy # "api")
  BY <1>1 DEF NewRecord, Record, Requires
<1>5. /\ FailedRecord(a) \in Record /\ FailedRecord(a).art = a /\ FailedRecord(a).file = <<>>
      /\ FailedRecord(a).path = None /\ FailedRecord(a).content = None
      /\ FailedRecord(a).state = "failed" /\ FailedRecord(a).keyed = (Strategy # "api")
  BY RecordsAre DEF None
<1> HIDE DEF page
<1> DEFINE given == Rec(outcome)
<1>6. \/ given = page \/ given = FailedRecord(a)
      \/ given = [page EXCEPT !.document = FALSE, !.state = "failed"]
  OBVIOUS
<1> HIDE DEF Rec
<1>7. /\ given \in Record /\ given.art = a /\ given.file = <<>>
      /\ given.keyed = (Strategy # "api")
      /\ \/ /\ given.path = day /\ given.content = site.content[a]
            /\ given.state \in {"fetched", "failed"}
         \/ given.path = None /\ given.content = None /\ given.state = "failed"
  <2> DEFINE other == [page EXCEPT !.document = FALSE, !.state = "failed"]
  <2>1. /\ other \in Record /\ other.art = a /\ other.file = <<>> /\ other.path = day
        /\ other.content = site.content[a] /\ other.state = "failed"
        /\ other.keyed = (Strategy # "api")
    BY <1>4 DEF Record
  <2> HIDE DEF given, other
  <2> QED BY <1>4, <1>5, <1>6, <2>1 DEF given, other
<1>8. entry \in BOOLEAN
  OBVIOUS
<1> HIDE DEF given, entry
<1> DEFINE rec == [given EXCEPT !.entry = entry]
<1>9. /\ rec \in Record /\ rec.art = a /\ rec.file = <<>> /\ rec.entry = entry
      /\ rec.keyed = given.keyed /\ rec.path = given.path /\ rec.content = given.content
      /\ rec.state = given.state
  BY <1>7, <1>8 DEF Record
<1>10. run' = [run EXCEPT !.requests = run.requests \ {a},
                 !.produced = run.produced \cup {a}, !.records = Append(run.records, rec)]
  BY <1>3 DEF given
<1> HIDE DEF rec
<1>11. Answers(a, rec)
  BY <1>2, <1>9, <1>10, AnswersIs, Zenon
<1>12. /\ disk' \in [Day -> [Article -> Edit \cup {None}]]
       /\ \A p \in Day, b \in Article :
            disk'[p][b] = IF p = day /\ b = a THEN site.content[a] ELSE disk[p][b]
  BY <1>1, <1>2
<1> QED BY <1>2, <1>7, <1>9, <1>11, <1>12 DEF entry

LEMMA FailedIs ==
  ASSUME BaseInv, NEW a \in Article, DetailFailed(a)
  PROVE  /\ a \in run.requests /\ disk' = disk
         /\ \E rec : /\ Answers(a, rec)
                     /\ rec.keyed = (Strategy # "api")
                     /\ rec.entry = (<<"entry", a>> \in run.items)
                     /\ rec.path = None /\ rec.content = None /\ rec.state = "failed"
<1> USE DEF BaseInv
<1> DEFINE entry == <<"entry", a>> \in run.items
           rec == [FailedRecord(a) EXCEPT !.entry = entry]
<1>1. /\ run.pc = "discover" /\ a \in run.requests /\ disk' = disk
      /\ UNCHANGED <<source, site, raw, core, todo, day, release, forgiven>>
      /\ run' = [run EXCEPT !.requests = run.requests \ {a},
                   !.produced = run.produced \cup {a}, !.records = Append(run.records, rec)]
  BY DEF DetailFailed
<1>2. /\ FailedRecord(a) \in Record /\ FailedRecord(a).art = a /\ FailedRecord(a).file = <<>>
      /\ FailedRecord(a).path = None /\ FailedRecord(a).content = None
      /\ FailedRecord(a).state = "failed" /\ FailedRecord(a).keyed = (Strategy # "api")
  BY RecordsAre DEF None
<1>3. entry \in BOOLEAN
  OBVIOUS
<1> HIDE DEF entry
<1>4. /\ rec \in Record /\ rec.art = a /\ rec.file = <<>> /\ rec.entry = entry
      /\ rec.path = None /\ rec.content = None /\ rec.state = "failed"
      /\ rec.keyed = (Strategy # "api")
  BY <1>2, <1>3 DEF Record
<1> HIDE DEF rec
<1>5. Answers(a, rec)
  BY <1>1, <1>4, AnswersIs, Zenon
<1> QED BY <1>1, <1>4, <1>5 DEF entry

LEMMA MissingIs ==
  ASSUME BaseInv, NEW a \in Article, DetailMissing(a)
  PROVE  /\ run.pc = "discover" /\ a \in run.requests
         /\ UNCHANGED <<source, site, disk, raw, core, todo, day, release>>
         /\ forgiven' = forgiven \cup ({a} \ InCore)
         /\ run' \in Run /\ run'.pc = "discover" /\ run'.mode = run.mode /\ run'.d = run.d
         /\ run'.page = run.page /\ run'.items = run.items /\ run'.next = run.next
         /\ run'.produced = run.produced /\ run'.records = run.records
         /\ run'.requests = run.requests \ {a} /\ run'.entries = run.entries
<1>1. /\ run.pc = "discover" /\ a \in run.requests
      /\ UNCHANGED <<source, site, disk, raw, core, todo, day, release>>
      /\ forgiven' = forgiven \cup ({a} \ InCore)
      /\ run' = [run EXCEPT !.requests = run.requests \ {a}]
  BY DEF DetailMissing
<1>2. run \in Run /\ run.requests \in SUBSET Article
  BY <1>1, RunIs DEF BaseInv
<1> QED BY <1>1, <1>2 DEF Run

\* A manifest item that a RETRY run looks up: its article is requested, or it
\* fails again.
LEMMA RetryEntryIs ==
  ASSUME BaseInv, NEW a \in Article, RetryEntry(a)
  PROVE  /\ run.mode = "RETRY" /\ run.pc = "discover" /\ a \in run.entries /\ disk' = disk
         /\ \/ /\ UNCHANGED <<source, site, raw, core, todo, day, release, forgiven>>
               /\ run' \in Run /\ run'.pc = "discover" /\ run'.mode = run.mode /\ run'.d = run.d
               /\ run'.page = run.page /\ run'.items = run.items /\ run'.next = run.next
               /\ run'.produced = run.produced /\ run'.records = run.records
               /\ run'.requests = run.requests \cup {a} /\ run'.entries = run.entries \ {a}
            \/ \E rec : /\ Answers(a, rec) /\ ~rec.keyed /\ rec.entry
                        /\ rec.path = None /\ rec.content = None /\ rec.state = "entry_failed"
<1> USE DEF BaseInv
<1>0. /\ run.mode = "RETRY" /\ run.pc = "discover" /\ a \in run.entries /\ disk' = disk
      /\ UNCHANGED <<source, site, raw, core, todo, day, release, forgiven>>
  BY DEF RetryEntry
<1> DEFINE rec == [FailedRecord(a) EXCEPT !.state = "entry_failed", !.keyed = FALSE, !.entry = TRUE]
<1>1. CASE run' = [run EXCEPT !.entries = run.entries \ {a}, !.requests = run.requests \cup {a}]
  <2>1. /\ run \in Run /\ run.requests \in SUBSET Article /\ run.entries \in SUBSET Article
    BY <1>0, RunIs
  <2> QED BY <1>0, <1>1, <2>1 DEF Run
<1>2. CASE run' = [run EXCEPT !.entries = run.entries \ {a}, !.produced = run.produced \cup {a},
                     !.records = Append(run.records, rec)]
  <2>1. /\ FailedRecord(a) \in Record /\ FailedRecord(a).art = a /\ FailedRecord(a).file = <<>>
        /\ FailedRecord(a).path = None /\ FailedRecord(a).content = None
    BY RecordsAre DEF None
  <2>2. /\ rec \in Record /\ rec.art = a /\ rec.file = <<>> /\ rec.entry /\ ~rec.keyed
        /\ rec.path = None /\ rec.content = None /\ rec.state = "entry_failed"
    BY <2>1 DEF Record
  <2> HIDE DEF rec
  <2>3. Answers(a, rec)
    BY <1>0, <1>2, <2>2, AnswersIs, Zenon
  <2> QED BY <1>0, <2>2, <2>3
<1> QED BY <1>1, <1>2 DEF RetryEntry

\* While a run discovers.
LEMMA DiscoveringIs ==
  ASSUME BaseInv, run.pc = "discover"
  PROVE  /\ run \in Run /\ run.mode \in {"INITIAL", "INCREMENTAL", "RETRY"}
         /\ RunFits(Strategy, run) /\ run.next = 1
         /\ run.requests \cup run.entries \subseteq Listed
         /\ run.mode = "RETRY" => /\ run.items = DOMAIN todo
                                  /\ \A a \in run.requests \cup run.entries : Pending(a)
<1>1. run \in Run /\ run.mode \in Mode
  BY RunIs DEF BaseInv
<1>2. /\ RunFits(Strategy, run)
      /\ run.requests \cup run.entries \subseteq Listed
      /\ run.mode = "RETRY" => /\ run.items = DOMAIN todo
                               /\ \A a \in run.requests \cup run.entries : Pending(a)
  BY DEF BaseInv, RunInv
<1> QED BY <1>1, <1>2 DEF RunFits, Mode

LEMMA ListPageBase ==
  ASSUME BaseInv, NEW unnamed \in SUBSET Article, NEW unread \in SUBSET Article,
         ListPage(unnamed, unread)
  PROVE  BaseInv'
<1> USE DEF BaseInv
<1> DEFINE links == Page(Strategy, site.listing, run.page)
           bad == IF Strategy = "json_manifest" THEN site.invalid ELSE {}
<1>1. /\ UNCHANGED <<source, site, disk, raw, core, todo, day, release>>
      /\ Strategy' = Strategy /\ InCore' = InCore /\ Listed' = Listed /\ Grown
      /\ run.pc = "discover"
  BY ListPageIs DEF Strategy, InCore, Listed, Grown
<1>2. /\ ToSet(links) \subseteq Listed /\ unnamed \cup unread \subseteq ToSet(links)
      /\ forgiven' = forgiven \cup ((unnamed \cup unread) \ InCore) /\ run' \in Run
  BY ListPageIs
<1>3. TypeInv'
  BY <1>1, <1>2 DEF TypeInv
<1>4. SiteInv' /\ ItemInv'
  BY <1>1, FitsStay DEF SiteInv, ItemInv
<1>5. run'.records = run.records /\ run'.mode = run.mode /\ run'.pc = run.pc /\ run'.next = run.next
  BY ListPageIs
<1>6. RecordInv' /\ StageInv'
  BY <1>1, <1>5, FitsStay DEF RecordInv, StageInv
<1>7. /\ run.mode \in {"INITIAL", "INCREMENTAL"} /\ run'.items = run.items
      /\ run'.d.stop => run'.page = None
      /\ OnePage(Strategy) => run'.page = None
      /\ run'.requests = run.requests \cup (run'.d.selected \ run.d.selected)
      /\ run'.d.selected \subseteq run.d.selected \cup ToSet(links)
      /\ run'.entries = run.entries \cup (ToSet(links) \cap bad)
      /\ Strategy # "api"
  BY ListPageIs
<1>8. RunFits(Strategy, run) /\ run.requests \cup run.entries \subseteq Listed
  BY <1>1, DiscoveringIs
<1>9. Strategy # "json_manifest" => bad = {}
  OBVIOUS
<1> HIDE DEF links, bad
<1>10. RunFits(Strategy, run')
  BY <1>1, <1>5, <1>7, <1>8, <1>9 DEF RunFits, None
<1>11. run'.requests \cup run'.entries \subseteq Listed
  BY <1>2, <1>7, <1>8
<1>12. RunInv'
  BY <1>1, <1>5, <1>7, <1>10, <1>11 DEF RunInv
<1> QED BY <1>3, <1>4, <1>6, <1>12

LEMMA PageLostBase ==
  ASSUME BaseInv, PageLost
  PROVE  BaseInv'
<1> USE DEF BaseInv
<1>1. /\ UNCHANGED <<source, site, disk, raw, core, todo, day, release>>
      /\ Strategy' = Strategy /\ InCore' = InCore /\ Listed' = Listed /\ Grown
      /\ run.pc = "discover"
  BY PageLostIs DEF Strategy, InCore, Listed, Grown
<1>2. /\ forgiven' = forgiven \cup (Listed \ (run.d.seen \cup InCore)) /\ run' \in Run
      /\ Listed \in SUBSET Article
  BY PageLostIs, ListedIs
<1>3. TypeInv'
  BY <1>1, <1>2 DEF TypeInv
<1>4. SiteInv' /\ ItemInv'
  BY <1>1, FitsStay DEF SiteInv, ItemInv
<1>5. /\ run'.records = run.records /\ run'.mode = run.mode /\ run'.pc = run.pc
      /\ run'.next = run.next /\ run'.page = None /\ run'.requests = run.requests
      /\ run'.entries = run.entries /\ run'.items = run.items
      /\ run.mode \in {"INITIAL", "INCREMENTAL"}
  BY PageLostIs
<1>6. RecordInv' /\ StageInv'
  BY <1>1, <1>5, FitsStay DEF RecordInv, StageInv
<1>7. RunFits(Strategy, run) /\ run.requests \cup run.entries \subseteq Listed
  BY <1>1, DiscoveringIs
<1>8. RunFits(Strategy, run')
  BY <1>1, <1>5, <1>7 DEF RunFits, None
<1>9. RunInv'
  BY <1>1, <1>5, <1>7, <1>8 DEF RunInv
<1> QED BY <1>3, <1>4, <1>6, <1>9

LEMMA CollectPageBase ==
  ASSUME BaseInv, NEW unchecked, CollectPage(unchecked)
  PROVE  BaseInv'
<1> USE DEF BaseInv
<1> DEFINE links == Page(Strategy, site.listing, run.page)
           fresh == ToSet(links) \ run.produced
<1>1. /\ UNCHANGED <<source, site, raw, core, todo, day, release, forgiven>>
      /\ Strategy' = Strategy /\ InCore' = InCore /\ Listed' = Listed
      /\ run.pc = "discover" /\ Strategy = "api"
  BY CollectPageIs DEF Strategy, InCore, Listed
<1>2. /\ disk' \in [Day -> [Article -> Edit \cup {None}]]
      /\ \A p \in Day, a \in Article :
           disk'[p][a] = IF p = day /\ a \in fresh THEN site.content[a] ELSE disk[p][a]
      /\ fresh \subseteq Listed /\ run' \in Run
  BY CollectPageIs
<1>3. /\ site.content \in [Article -> Edit] /\ day \in Day /\ Listed \in SUBSET Article
      /\ disk \in [Day -> [Article -> Edit \cup {None}]]
  BY ListedIs DEF TypeInv
<1>4. TypeInv'
  BY <1>1, <1>2 DEF TypeInv
<1> HIDE DEF fresh
<1>5. \A p \in Day, a \in Article : disk[p][a] # None => disk'[p][a] # None
  BY <1>2, <1>3 DEF Edit, None
<1>6. Grown
  BY <1>1, <1>5 DEF Grown
<1>7. SiteInv'
  <2>1. ASSUME NEW p \in Day, NEW a \in Article PROVE disk'[p][a] <= site'.content[a]
    <3>1. disk[p][a] <= site.content[a] /\ site.content[a] \in Nat /\ site' = site
      BY <1>1, <1>3 DEF SiteInv, Edit
    <3> QED BY <1>2, <3>1
  <2> QED BY <1>1, <2>1 DEF SiteInv
<1>8. ItemInv'
  BY <1>1, <1>6, FitsStay DEF ItemInv
<1>9. /\ run'.mode = run.mode /\ run'.pc = run.pc /\ run'.next = run.next
      /\ run'.d.selected = {} /\ run'.requests = run.requests
      /\ run'.entries = run.entries /\ run'.items = run.items
      /\ run'.d.stop => run'.page = None
      /\ run.mode \in {"INITIAL", "INCREMENTAL"}
  BY CollectPageIs
<1>10. \A i \in 1..Len(run'.records) :
         \/ i \in 1..Len(run.records) /\ run'.records[i] = run.records[i]
         \/ /\ run'.records[i] \in Record /\ run'.records[i].art \in fresh
            /\ run'.records[i].path = day /\ run'.records[i].content = None
            /\ ~run'.records[i].keyed /\ ~run'.records[i].entry
            /\ run'.records[i].file = <<>> /\ run'.records[i].state = "fetched"
  BY CollectPageIs DEF fresh
<1>11. ASSUME NEW i \in 1..Len(run'.records)
       PROVE  /\ RecordFits(Strategy', run'.records[i], run'.mode, Listed', InCore', raw', disk')
              /\ StateFits(run'.records[i].state, i, run'.pc, run'.next)
  <2>1. CASE i \in 1..Len(run.records) /\ run'.records[i] = run.records[i]
    BY <1>1, <1>6, <1>9, <2>1, FitsStay DEF StageInv
  <2>2. CASE /\ run'.records[i] \in Record /\ run'.records[i].art \in fresh
             /\ run'.records[i].path = day /\ run'.records[i].content = None
             /\ ~run'.records[i].keyed /\ ~run'.records[i].entry
             /\ run'.records[i].file = <<>> /\ run'.records[i].state = "fetched"
    <3> DEFINE r == run'.records[i]
    <3>1. /\ r \in Record /\ r.art \in fresh /\ r.path = day /\ ~r.entry /\ r.state = "fetched"
      BY <2>2
    <3>2. r.art \in Listed /\ disk'[r.path][r.art] # None /\ r.path # None
      BY <1>2, <1>3, <3>1 DEF Edit, Day, None
    <3> HIDE DEF r
    <3>3. RecordFits(Strategy', r, run'.mode, Listed', InCore', raw', disk')
      BY <1>1, <1>9, <3>1, <3>2 DEF RecordFits
    <3>4. StateFits(r.state, i, run'.pc, run'.next)
      BY <1>1, <1>9, <3>1 DEF StateFits
    <3> QED BY <3>3, <3>4 DEF r
  <2> QED BY <1>10, <2>1, <2>2
<1>12. RecordInv' /\ StageInv'
  BY <1>11 DEF RecordInv, StageInv
<1>13. RunFits(Strategy, run) /\ run.requests \cup run.entries \subseteq Listed
  BY <1>1, DiscoveringIs
<1>14. ~OnePage(Strategy)
  BY <1>1 DEF OnePage
<1>15. RunFits(Strategy, run')
  BY <1>1, <1>9, <1>13, <1>14 DEF RunFits, None
<1>16. RunInv'
  BY <1>1, <1>9, <1>13, <1>15 DEF RunInv
<1> QED BY <1>4, <1>7, <1>8, <1>12, <1>16

LEMMA AnswersBase ==
  ASSUME BaseInv, NEW a \in Article, NEW rec, Answers(a, rec),
         disk' \in [Day -> [Article -> Edit \cup {None}]],
         \A p \in Day, b \in Article :
           disk'[p][b] = disk[p][b] \/ (b = a /\ disk'[p][b] = site.content[a]),
         RecordFits(Strategy, rec, run.mode, Listed, InCore, raw, disk'),
         rec.state \in {"fetched", "failed", "entry_failed"}
  PROVE  BaseInv'
<1> USE DEF BaseInv
<1>1. /\ UNCHANGED <<source, site, raw, core, todo, day, release, forgiven>>
      /\ Strategy' = Strategy /\ InCore' = InCore /\ Listed' = Listed
      /\ run.pc = "discover"
  BY DEF Answers, Strategy, InCore, Listed
<1>2. TypeInv'
  BY <1>1 DEF TypeInv, Answers
<1>3. site.content \in [Article -> Edit] /\ disk \in [Day -> [Article -> Edit \cup {None}]]
  BY DEF TypeInv
<1>5. \A p \in Day, b \in Article : disk[p][b] # None => disk'[p][b] # None
  BY <1>3 DEF Edit, None
<1>6. Grown
  BY <1>1, <1>5 DEF Grown
<1>7. SiteInv'
  <2>1. ASSUME NEW p \in Day, NEW b \in Article PROVE disk'[p][b] <= site'.content[b]
    <3>1. disk[p][b] <= site.content[b] /\ site.content[b] \in Nat /\ site' = site
      BY <1>1, <1>3 DEF SiteInv, Edit
    <3> QED BY <3>1
  <2> QED BY <1>1, <2>1 DEF SiteInv
<1>8. ItemInv'
  BY <1>1, <1>6, FitsStay DEF ItemInv
<1>9. /\ run'.mode = run.mode /\ run'.pc = run.pc /\ run'.next = run.next
      /\ run'.d = run.d /\ run'.page = run.page /\ run'.items = run.items
      /\ run'.requests \subseteq run.requests /\ run'.entries \subseteq run.entries
  BY DEF Answers
<1>10. \A i \in 1..Len(run'.records) :
         \/ i \in 1..Len(run.records) /\ run'.records[i] = run.records[i]
         \/ run'.records[i] = rec
  <2>1. Len(run.records) \in Nat
    BY <1>1, RunIs
  <2> QED BY <2>1 DEF Answers
<1>11. ASSUME NEW i \in 1..Len(run'.records)
       PROVE  /\ RecordFits(Strategy', run'.records[i], run'.mode, Listed', InCore', raw', disk')
              /\ StateFits(run'.records[i].state, i, run'.pc, run'.next)
  <2>1. CASE i \in 1..Len(run.records) /\ run'.records[i] = run.records[i]
    BY <1>1, <1>6, <1>9, <2>1, FitsStay DEF StageInv
  <2>2. CASE run'.records[i] = rec
    <3>1. StateFits(rec.state, i, run'.pc, run'.next)
      BY <1>1, <1>9 DEF StateFits
    <3> QED BY <1>1, <1>9, <2>2, <3>1
  <2> QED BY <1>10, <2>1, <2>2
<1>12. RecordInv' /\ StageInv'
  BY <1>11 DEF RecordInv, StageInv
<1>13. /\ RunFits(Strategy, run) /\ run.requests \cup run.entries \subseteq Listed
       /\ run.mode = "RETRY" => /\ run.items = DOMAIN todo
                                /\ \A b \in run.requests \cup run.entries : Pending(b)
       /\ run.mode # "REPROCESS"
  BY <1>1, DiscoveringIs
<1>15. RunFits(Strategy, run')
  BY <1>1, <1>9, <1>13 DEF RunFits
<1>16. RunInv'
  BY <1>1, <1>9, <1>13, <1>15 DEF RunInv, Pending
<1> QED BY <1>2, <1>7, <1>8, <1>12, <1>16

\* A page that is answered, whatever becomes of it.
LEMMA DetailBase ==
  ASSUME BaseInv, NEW a \in Article,
         FetchDetail(a) \/ DetailFailed(a) \/ DetailMissing(a) \/ RetryEntry(a)
  PROVE  BaseInv'
<1> USE DEF BaseInv
<1>0. /\ disk \in [Day -> [Article -> Edit \cup {None}]]
      /\ site.content \in [Article -> Edit] /\ day \in Day
  BY DEF TypeInv
<1>i. ASSUME run.pc = "discover", <<"entry", a>> \in run.items PROVE Strategy = "json_manifest"
  <2>1. <<"entry", a>> \in DOMAIN todo
    BY <1>i, DiscoveringIs DEF RunFits
  <2>2. ItemFits(Strategy, <<"entry", a>>, todo[<<"entry", a>>], Listed, disk)
    BY <2>1 DEF ItemInv
  <2> QED BY <2>2 DEF ItemFits
<1>a. ASSUME run.pc = "discover", a \in run.requests PROVE Strategy # "api" /\ a \in Listed
  BY <1>a, DiscoveringIs DEF RunFits
<1>1. ASSUME FetchDetail(a) PROVE BaseInv'
  <2>1. PICK rec : /\ Answers(a, rec)
                   /\ rec.keyed = (Strategy # "api")
                   /\ rec.entry = (<<"entry", a>> \in run.items)
                   /\ \/ /\ rec.path = day /\ rec.content = site.content[a]
                         /\ rec.state \in {"fetched", "failed"}
                      \/ rec.path = None /\ rec.content = None /\ rec.state = "failed"
    BY <1>1, FetchIs
  <2>2. /\ a \in run.requests /\ run.pc = "discover" /\ rec.art = a /\ rec \in Record
        /\ rec.file = <<>>
    BY <1>1, <2>1, FetchIs DEF Answers
  <2>3. /\ disk' \in [Day -> [Article -> Edit \cup {None}]]
        /\ \A p \in Day, b \in Article :
             disk'[p][b] = IF p = day /\ b = a THEN site.content[a] ELSE disk[p][b]
    BY <1>1, FetchIs
  <2>4. /\ disk'[day][a] # None /\ site.content[a] # None /\ day # None
    BY <2>3, <1>0 DEF Edit, Day, None
  <2>5. RecordFits(Strategy, rec, run.mode, Listed, InCore, raw, disk')
    BY <1>i, <1>a, <2>1, <2>2, <2>4, DiscoveringIs DEF RecordFits
  <2> QED BY <2>1, <2>3, <2>5, AnswersBase
<1>2. ASSUME DetailFailed(a) PROVE BaseInv'
  <2>1. PICK rec : /\ Answers(a, rec)
                   /\ rec.keyed = (Strategy # "api")
                   /\ rec.entry = (<<"entry", a>> \in run.items)
                   /\ rec.path = None /\ rec.content = None /\ rec.state = "failed"
    BY <1>2, FailedIs
  <2>2. /\ a \in run.requests /\ disk' = disk /\ run.pc = "discover" /\ rec.art = a
        /\ rec \in Record /\ rec.file = <<>>
    BY <1>2, <2>1, FailedIs DEF Answers
  <2>5. RecordFits(Strategy, rec, run.mode, Listed, InCore, raw, disk')
    BY <1>i, <1>a, <2>1, <2>2, DiscoveringIs DEF RecordFits
  <2> QED BY <1>0, <2>1, <2>2, <2>5, AnswersBase
<1>3. ASSUME RetryEntry(a), NEW rec, Answers(a, rec), ~rec.keyed, rec.entry, rec.path = None,
             rec.content = None, rec.state = "entry_failed"
      PROVE  BaseInv'
  <2>2. /\ a \in run.entries /\ disk' = disk /\ run.pc = "discover" /\ rec.art = a
        /\ rec \in Record /\ rec.file = <<>> /\ run.mode = "RETRY"
    BY <1>3, RetryEntryIs DEF Answers
  <2>3. a \in Listed /\ Strategy = "json_manifest"
    BY <2>2, DiscoveringIs DEF RunFits
  <2>5. RecordFits(Strategy, rec, run.mode, Listed, InCore, raw, disk')
    BY <1>3, <2>2, <2>3 DEF RecordFits
  <2> QED BY <1>0, <1>3, <2>2, <2>5, AnswersBase
<1>4. ASSUME run.pc = "discover", disk' = disk,
             UNCHANGED <<source, site, raw, core, todo, day, release>>,
             forgiven' \in SUBSET Article,
             run' \in Run, run'.pc = "discover", run'.mode = run.mode, run'.d = run.d,
             run'.page = run.page, run'.items = run.items, run'.next = run.next,
             run'.records = run.records,
             run'.requests \cup run'.entries \subseteq run.requests \cup run.entries,
             Strategy = "api" => run'.requests = {},
             Strategy # "json_manifest" => run'.entries = {}
      PROVE  BaseInv'
  <2>1. Strategy' = Strategy /\ InCore' = InCore /\ Listed' = Listed /\ Grown
    BY <1>4 DEF Strategy, InCore, Listed, Grown
  <2>2. TypeInv'
    BY <1>4 DEF TypeInv
  <2>3. SiteInv' /\ ItemInv'
    BY <1>4, <2>1, FitsStay DEF SiteInv, ItemInv
  <2>4. RecordInv' /\ StageInv'
    BY <1>4, <2>1, FitsStay DEF RecordInv, StageInv
  <2>5. /\ RunFits(Strategy, run) /\ run.requests \cup run.entries \subseteq Listed
        /\ run.mode = "RETRY" => /\ run.items = DOMAIN todo
                                 /\ \A b \in run.requests \cup run.entries : Pending(b)
        /\ run.mode # "REPROCESS"
    BY <1>4, DiscoveringIs
  <2>6. RunFits(Strategy, run')
    BY <1>4, <2>5 DEF RunFits
  <2>7. RunInv'
    BY <1>4, <2>1, <2>5, <2>6 DEF RunInv, Pending
  <2> QED BY <2>2, <2>3, <2>4, <2>7
<1>5. ASSUME DetailMissing(a) PROVE BaseInv'
  <2>1. forgiven' \in SUBSET Article
    BY <1>5, MissingIs DEF TypeInv
  <2>2. RunFits(Strategy, run)
    BY <1>5, MissingIs, DiscoveringIs
  <2>3. /\ Strategy = "api" => run'.requests = {}
        /\ Strategy # "json_manifest" => run'.entries = {}
    BY <1>5, <2>2, MissingIs DEF RunFits
  <2> QED BY <1>4, <1>5, <2>1, <2>3, MissingIs
<1>6. ASSUME RetryEntry(a) PROVE BaseInv'
  <2>1. RunFits(Strategy, run) /\ a \in run.entries /\ run.pc = "discover" /\ disk' = disk
    BY <1>6, RetryEntryIs, DiscoveringIs
  <2>2. Strategy = "json_manifest" /\ forgiven \in SUBSET Article
    BY <2>1 DEF RunFits, TypeInv
  <2>3. CASE /\ UNCHANGED <<source, site, raw, core, todo, day, release, forgiven>>
             /\ run' \in Run /\ run'.pc = "discover" /\ run'.mode = run.mode /\ run'.d = run.d
             /\ run'.page = run.page /\ run'.items = run.items /\ run'.next = run.next
             /\ run'.produced = run.produced /\ run'.records = run.records
             /\ run'.requests = run.requests \cup {a} /\ run'.entries = run.entries \ {a}
    BY <1>4, <2>1, <2>2, <2>3
  <2>4. CASE \E rec : /\ Answers(a, rec) /\ ~rec.keyed /\ rec.entry
                      /\ rec.path = None /\ rec.content = None /\ rec.state = "entry_failed"
    BY <1>3, <1>6, <2>4
  <2> QED BY <1>6, <2>3, <2>4, RetryEntryIs
<1> QED BY <1>1, <1>2, <1>5, <1>6

(***************************************************************************)
(* The steps that work off the records                                     *)
(***************************************************************************)
\* The record whose turn it is becomes rec.
Turns(rec) ==
  /\ run.pc \in {"persist", "process"} /\ run.next \in 1..Len(run.records)
  /\ UNCHANGED <<source, site, disk, todo, day, release, forgiven>>
  /\ rec \in Record /\ rec.art = Here.art /\ rec.content = Here.content
  /\ rec.path = Here.path /\ rec.entry = Here.entry
  /\ run' \in Run /\ run'.pc = run.pc /\ run'.mode = run.mode /\ run'.d = run.d
  /\ run'.page = run.page /\ run'.requests = run.requests /\ run'.entries = run.entries
  /\ run'.items = run.items /\ run'.produced = run.produced /\ run'.next = run.next + 1
  /\ Len(run'.records) = Len(run.records) /\ run'.records[run.next] = rec
  /\ \A i \in 1..Len(run.records) : i # run.next => run'.records[i] = run.records[i]

LEMMA TurnsIs ==
  ASSUME BaseInv, run.pc \in {"persist", "process"}, run.next <= Len(run.records),
         UNCHANGED <<source, site, disk, todo, day, release, forgiven>>,
         NEW rec \in Record, rec.art = Here.art, rec.content = Here.content,
         rec.path = Here.path, rec.entry = Here.entry,
         run' = Stored(run.next, rec) \/ (rec = Here /\ run' = [run EXCEPT !.next = run.next + 1])
  PROVE  Turns(rec)
<1>1. /\ run \in Run /\ run.records \in Seq(Record) /\ Len(run.records) \in Nat
      /\ run.next \in Nat \ {0}
  BY RunIs DEF BaseInv
<1>2. run.next \in 1..Len(run.records)
  BY <1>1
<1> DEFINE records == [run.records EXCEPT ![run.next] = rec]
<1>3. /\ records \in Seq(Record) /\ Len(records) = Len(run.records)
      /\ records[run.next] = rec
      /\ \A i \in 1..Len(run.records) : i # run.next => records[i] = run.records[i]
  BY <1>1, <1>2
<1>4. run' = [run EXCEPT !.records = records, !.next = run.next + 1]
  <2>1. CASE run' = Stored(run.next, rec)
    BY <1>1, <2>1 DEF Stored, Run
  <2>2. CASE rec = Here /\ run' = [run EXCEPT !.next = run.next + 1]
    <3>1. records = run.records
      BY <1>1, <1>2, <2>2 DEF Here
    <3> HIDE DEF records
    <3> QED BY <1>1, <2>2, <3>1 DEF Run
  <2> QED BY <2>1, <2>2
<1> HIDE DEF records
<1>5. /\ run'.pc = run.pc /\ run'.mode = run.mode /\ run'.d = run.d
      /\ run'.page = run.page /\ run'.requests = run.requests /\ run'.entries = run.entries
      /\ run'.items = run.items /\ run'.produced = run.produced /\ run'.next = run.next + 1
      /\ run'.records = records
  BY <1>1, <1>4 DEF Run
<1>6. run' \in Run
  <2>1. run.next + 1 \in Nat \ {0}
    BY <1>1
  <2> DEFINE next == run.next + 1
  <2>2. run' = [run EXCEPT !.records = records, !.next = next] /\ next \in Nat \ {0}
    BY <1>4, <2>1
  <2> HIDE DEF next
  <2> QED BY <1>1, <1>3, <2>2 DEF Run
<1> QED BY <1>2, <1>3, <1>5, <1>6 DEF Turns

LEMMA TurnsBase ==
  ASSUME BaseInv, NEW rec, Turns(rec),
         core' \in [Article -> Seq(Version)], raw' \in SUBSET File, raw \subseteq raw',
         \A a \in Article : \A v \in 1..Len(core'[a]) : core'[a][v].file \in raw',
         InCore \subseteq InCore', InCore' \subseteq Listed,
         RecordFits(Strategy, rec, run.mode, Listed, InCore', raw', disk),
         StateFits(rec.state, run.next, run.pc, run.next + 1)
  PROVE  BaseInv'
<1> USE DEF BaseInv
<1>1. /\ UNCHANGED <<source, site, disk, todo, day, release, forgiven>>
      /\ Strategy' = Strategy /\ Listed' = Listed
  BY DEF Turns, Strategy, Listed
<1>2. Grown
  BY <1>1 DEF Grown
<1>3. TypeInv'
  BY <1>1 DEF TypeInv, Turns
<1>4. SiteInv' /\ ItemInv'
  BY <1>1, <1>2, FitsStay DEF SiteInv, ItemInv
<1>5. /\ run.pc # "idle" /\ Len(run'.records) = Len(run.records)
      /\ run'.pc = run.pc /\ run'.mode = run.mode /\ run'.next = run.next + 1
      /\ run.next \in Nat
  BY RunIs DEF Turns
<1>6. ASSUME NEW i \in 1..Len(run'.records)
      PROVE  /\ RecordFits(Strategy', run'.records[i], run'.mode, Listed', InCore', raw', disk')
             /\ StateFits(run'.records[i].state, i, run'.pc, run'.next)
  <2>1. CASE i = run.next
    <3>1. run'.records[i] = rec
      BY <2>1 DEF Turns
    <3> QED BY <1>1, <1>5, <2>1, <3>1
  <2>2. CASE i # run.next
    <3>1. run'.records[i] = run.records[i] /\ i \in 1..Len(run.records)
      BY <1>5, <2>2 DEF Turns
    <3>2. StateFits(run.records[i].state, i, run.pc, run.next)
      BY <1>5, <3>1 DEF StageInv
    <3>3. StateFits(run.records[i].state, i, run.pc, run.next + 1)
      BY <1>5, <2>2, <3>2 DEF StateFits
    <3> QED BY <1>1, <1>2, <1>5, <3>1, <3>3, FitsStay
  <2> QED BY <2>1, <2>2
<1>7. RecordInv' /\ StageInv'
  BY <1>6 DEF RecordInv, StageInv
<1>8. /\ RunFits(Strategy, run) /\ run.requests \cup run.entries \subseteq Listed
      /\ run.mode = "RETRY" /\ run.pc # "todo" =>
           /\ run.items = DOMAIN todo
           /\ \A a \in run.requests \cup run.entries : Pending(a)
  BY <1>5 DEF RunInv
<1>9. \A i \in 1..Len(run.records) : run'.records[i].art = run.records[i].art
  BY DEF Turns, Here
<1>10. RunFits(Strategy, run')
  <2>1. /\ run'.d = run.d /\ run'.page = run.page /\ run'.requests = run.requests
        /\ run'.entries = run.entries /\ run'.items = run.items /\ run.pc # "discover"
    BY DEF Turns
  <2> QED BY <1>5, <1>8, <1>9, <2>1 DEF RunFits
<1>11. RunInv'
  BY <1>1, <1>5, <1>8, <1>10 DEF RunInv, Turns, Pending
<1> QED BY <1>3, <1>4, <1>7, <1>11

LEMMA HereIs ==
  ASSUME BaseInv, run.pc \in {"persist", "process"}, run.next <= Len(run.records)
  PROVE  /\ run.next \in 1..Len(run.records) /\ Here \in Record
         /\ RecordFits(Strategy, Here, run.mode, Listed, InCore, raw, disk)
         /\ StateFits(Here.state, run.next, run.pc, run.next)
         /\ Here.art \in Article /\ Here.path \in Day \cup {None}
         /\ Here.content \in Edit \cup {None}
         /\ disk[Here.path][Here.art] \in Edit \cup {None} \/ Here.path = None
<1>1. /\ run.next \in 1..Len(run.records) /\ Here \in Record
      /\ RecordFits(Strategy, Here, run.mode, Listed, InCore, raw, disk)
      /\ StateFits(Here.state, run.next, run.pc, run.next)
  BY RunIs DEF BaseInv, RecordInv, StageInv, Here
<1>2. Here.art \in Article /\ Here.path \in Day \cup {None} /\ Here.content \in Edit \cup {None}
  BY <1>1 DEF Record
<1> QED BY <1>1, <1>2 DEF BaseInv, TypeInv

LEMMA PersistIs ==
  ASSUME BaseInv, Persist
  PROVE  /\ run.pc = "persist" /\ run.next <= Len(run.records)
         /\ core' = core /\ raw \subseteq raw' /\ raw' \in SUBSET File
         /\ \E rec : /\ Turns(rec) /\ rec.keyed = Here.keyed
                     /\ \/ Here.state # "fetched" /\ rec = Here
                        \/ Here.state = "fetched" /\ rec.state = "failed"
                        \/ /\ Here.state = "fetched" /\ rec.state \in {"stored", "duplicate"}
                           /\ rec.file \in raw'
                           /\ rec.file.content = disk[Here.path][Here.art]
<1> USE DEF BaseInv
<1>1. /\ run.pc = "persist" /\ run.next <= Len(run.records)
      /\ UNCHANGED <<source, site, disk, core, todo, day, release, forgiven>>
  BY DEF Persist
<1>2. raw \in SUBSET File
  BY DEF TypeInv
<1>3. CASE Here.state # "fetched"
  <2>1. run' = [run EXCEPT !.next = run.next + 1] /\ raw' = raw
    BY <1>3 DEF Persist
  <2>2. Turns(Here)
    BY <1>1, <2>1, HereIs, TurnsIs
  <2> QED BY <1>1, <1>2, <1>3, <2>1, <2>2
<1>4. CASE Here.state = "fetched"
  <2> DEFINE f == [art |-> Here.art, content |-> disk[Here.path][Here.art],
                   document |-> Here.document]
             S(file, state) == [Here EXCEPT !.file = file, !.state = state]
             failed == [Here EXCEPT !.state = "failed"]
  <2>1. f \in File /\ f.content = disk[Here.path][Here.art]
    <3>1. /\ Here.path \in Day /\ disk[Here.path][Here.art] \in Edit /\ Here.art \in Article
          /\ Here.document \in BOOLEAN
      BY <1>1, <1>4, HereIs DEF RecordFits, Record
    <3> QED BY <3>1 DEF File
  <2>2. \A state \in {"stored", "duplicate"} :
          /\ S(f, state) \in Record /\ S(f, state).art = Here.art
          /\ S(f, state).content = Here.content /\ S(f, state).path = Here.path
          /\ S(f, state).entry = Here.entry /\ S(f, state).keyed = Here.keyed
          /\ S(f, state).file = f /\ S(f, state).state = state
    <3> HIDE DEF f
    <3> QED BY <1>1, <2>1, HereIs DEF Record
  <2>3. /\ failed \in Record /\ failed.art = Here.art
        /\ failed.content = Here.content /\ failed.path = Here.path
        /\ failed.entry = Here.entry /\ failed.keyed = Here.keyed /\ failed.state = "failed"
    BY <1>1, HereIs DEF Record
  <2>4. \/ f \in raw /\ run' = Stored(run.next, S(f, "duplicate")) /\ raw' = raw
        \/ raw' = raw \cup {f} /\ run' = Stored(run.next, S(f, "stored"))
        \/ run' = Stored(run.next, failed) /\ raw' = raw
    BY <1>4, Zenon DEF Persist
  <2> HIDE DEF f, failed, S
  <2>5. CASE run' = Stored(run.next, failed) /\ raw' = raw
    <3>1. Turns(failed)
      BY <1>1, <2>3, <2>5, TurnsIs
    <3> QED BY <1>1, <1>2, <1>4, <2>3, <2>5, <3>1
  <2>6. ASSUME NEW state \in {"stored", "duplicate"}, run' = Stored(run.next, S(f, state)),
               f \in raw', raw \subseteq raw', raw' \in SUBSET File
        PROVE  \E rec : /\ Turns(rec) /\ rec.keyed = Here.keyed
                        /\ Here.state = "fetched" /\ rec.state \in {"stored", "duplicate"}
                        /\ rec.file \in raw'
                        /\ rec.file.content = disk[Here.path][Here.art]
    <3> DEFINE rec == S(f, state)
    <3>0. /\ rec \in Record /\ rec.art = Here.art /\ rec.content = Here.content
          /\ rec.path = Here.path /\ rec.entry = Here.entry /\ rec.keyed = Here.keyed
          /\ rec.file = f /\ rec.state = state /\ run' = Stored(run.next, rec)
      BY <2>2, <2>6
    <3> HIDE DEF rec
    <3>1. Turns(rec)
      BY <1>1, <3>0, TurnsIs
    <3> QED BY <1>4, <2>1, <2>6, <3>0, <3>1
  <2>7. CASE f \in raw /\ run' = Stored(run.next, S(f, "duplicate")) /\ raw' = raw
    BY <1>1, <1>2, <2>6, <2>7
  <2>8. CASE raw' = raw \cup {f} /\ run' = Stored(run.next, S(f, "stored"))
    <3>1. raw' \in SUBSET File /\ f \in raw' /\ raw \subseteq raw'
      BY <1>2, <2>1, <2>8
    <3> QED BY <1>1, <2>6, <2>8, <3>1
  <2> QED BY <2>4, <2>5, <2>7, <2>8
<1> QED BY <1>3, <1>4

LEMMA PersistBase ==
  ASSUME BaseInv, Persist
  PROVE  BaseInv'
<1> USE DEF BaseInv
<1>1. /\ run.pc = "persist" /\ run.next <= Len(run.records)
      /\ core' = core /\ raw \subseteq raw' /\ raw' \in SUBSET File
  BY PersistIs
<1>2. PICK rec : /\ Turns(rec) /\ rec.keyed = Here.keyed
                 /\ \/ Here.state # "fetched" /\ rec = Here
                    \/ Here.state = "fetched" /\ rec.state = "failed"
                    \/ /\ Here.state = "fetched" /\ rec.state \in {"stored", "duplicate"}
                       /\ rec.file \in raw'
                       /\ rec.file.content = disk[Here.path][Here.art]
  BY PersistIs
<1>3. InCore' = InCore /\ InCore \subseteq Listed
  BY <1>1 DEF InCore, SiteInv
<1>4. run.mode # "REPROCESS"
  BY <1>1 DEF RunInv, RunFits
<1>5. /\ rec.art = Here.art /\ rec.content = Here.content
      /\ rec.path = Here.path /\ rec.entry = Here.entry
  BY <1>2 DEF Turns
<1>6. /\ RecordFits(Strategy, Here, run.mode, Listed, InCore, raw, disk)
      /\ StateFits(Here.state, run.next, run.pc, run.next) /\ run.next \in Nat
  BY <1>1, HereIs, RunIs
<1>7. RecordFits(Strategy, rec, run.mode, Listed, InCore', raw', disk)
  BY <1>1, <1>2, <1>3, <1>4, <1>5, <1>6 DEF RecordFits
<1>8. StateFits(rec.state, run.next, run.pc, run.next + 1)
  BY <1>1, <1>2, <1>6 DEF StateFits
<1>9. /\ core' \in [Article -> Seq(Version)]
      /\ \A a \in Article : \A v \in 1..Len(core'[a]) : core'[a][v].file \in raw'
  BY <1>1 DEF TypeInv
<1> QED BY <1>1, <1>2, <1>3, <1>7, <1>8, <1>9, TurnsBase

\* One transaction: the record is done, Core has its article in that state.
LEMMA ProcessRecordIs ==
  ASSUME BaseInv, ProcessRecord
  PROVE  /\ run.pc = "process" /\ run.next <= Len(run.records) /\ raw' = raw
         /\ Here.state \in {"stored", "duplicate"} /\ Here.file \in raw
         /\ Parses(Here) /\ ParseAs(Here) \in Edit
         /\ \E rec : Turns(rec) /\ rec.state = "done" /\ rec.keyed /\ rec.file = Here.file
         /\ core' \in [Article -> Seq(Version)]
         /\ \A a \in Article : \A v \in 1..Len(core'[a]) : core'[a][v].file \in raw
         /\ InCore' = InCore \cup {Here.art}
         /\ \A a \in Article : a # Here.art => Current(a)' = Current(a) /\ core'[a] = core[a]
         /\ \A a \in Article : a = Here.art =>
              \/ core' = core /\ a \in InCore /\ Current(a)' = Current(a)
                   /\ Current(a).content = ParseAs(Here)
              \/ /\ Len(core'[a]) = Len(core[a]) + 1
                 /\ Current(a)'.content = ParseAs(Here) /\ Current(a)'.file = Here.file
<1> USE DEF BaseInv
<1>1. /\ run.pc = "process" /\ run.next <= Len(run.records)
      /\ UNCHANGED <<source, site, disk, raw, todo, day, release, forgiven>>
      /\ Here.state \in {"stored", "duplicate"} /\ Parses(Here)
      /\ run' = Stored(run.next, [Here EXCEPT !.state = "done", !.keyed = TRUE])
  BY DEF ProcessRecord
<1> DEFINE rec == [Here EXCEPT !.state = "done", !.keyed = TRUE]
           c == ParseAs(Here)
           v0 == [content |-> c, release |-> release, file |-> Here.file]
<1>2. /\ rec \in Record /\ rec.art = Here.art /\ rec.content = Here.content
      /\ rec.path = Here.path /\ rec.entry = Here.entry /\ rec.file = Here.file
      /\ rec.state = "done" /\ rec.keyed
  BY <1>1, HereIs DEF Record
<1> HIDE DEF rec
<1>3. Turns(rec)
  <2>1. run' = Stored(run.next, rec)
    BY <1>1 DEF rec
  <2> QED BY <1>1, <1>2, <2>1, TurnsIs
<1>4. Here.art \in Article /\ c \in Edit /\ Here.file \in raw
  BY <1>1, HereIs DEF RecordFits, ParseAs
<1>a. PICK a0 \in Article : a0 = Here.art
  BY <1>4
<1>5. /\ core \in [Article -> Seq(Version)] /\ release \in 1..MaxRelease /\ raw \in SUBSET File
      /\ \A a \in Article : \A v \in 1..Len(core[a]) : core[a][v].file \in raw
  BY DEF TypeInv
<1>6. v0 \in Version /\ v0.content = c /\ v0.file = Here.file
  BY <1>4, <1>5 DEF Version
<1>7. \/ core' = core /\ Skips(Here)
      \/ core' = [core EXCEPT ![a0] = Append(core[a0], v0)]
  <2>1. \/ core' = core /\ Skips(Here)
        \/ core' = [core EXCEPT ![Here.art] = Append(core[Here.art], v0)]
    BY Zenon DEF ProcessRecord
  <2> HIDE DEF v0
  <2> QED BY <1>a, <2>1
<1> HIDE DEF c, v0
<1>8. CASE core' = core /\ Skips(Here)
  <2>1. a0 \in InCore /\ Current(a0).content = c
    BY <1>4, <1>a, <1>8 DEF Skips, InCore, c
  <2>2. InCore' = InCore \cup {a0} /\ \A a : Current(a)' = Current(a)
    BY <1>8, <2>1 DEF InCore, Current
  <2> QED BY <1>1, <1>2, <1>3, <1>4, <1>a, <1>5, <1>8, <2>1, <2>2 DEF c
<1>9. CASE core' = [core EXCEPT ![a0] = Append(core[a0], v0)]
  <2>1. /\ core[a0] \in Seq(Version) /\ Append(core[a0], v0) \in Seq(Version)
        /\ Len(Append(core[a0], v0)) = Len(core[a0]) + 1 /\ Len(core[a0]) \in Nat
        /\ Append(core[a0], v0)[Len(core[a0]) + 1] = v0
        /\ \A v \in 1..Len(core[a0]) : Append(core[a0], v0)[v] = core[a0][v]
        /\ Append(core[a0], v0) # <<>>
    BY <1>4, <1>5, <1>6
  <2> DEFINE new == Append(core[a0], v0)
  <2> HIDE DEF new
  <2>2. /\ core' = [core EXCEPT ![a0] = new]
        /\ new \in Seq(Version) /\ Len(new) = Len(core[a0]) + 1 /\ Len(core[a0]) \in Nat
        /\ new[Len(core[a0]) + 1] = v0 /\ new # <<>>
        /\ \A v \in 1..Len(core[a0]) : new[v] = core[a0][v]
    BY <1>9, <2>1 DEF new
  <2>3. core' \in [Article -> Seq(Version)] /\ core'[a0] = new
        /\ \A a \in Article : a # a0 => core'[a] = core[a]
    BY <1>4, <1>5, <2>2
  <2>4. \A a \in Article : \A v \in 1..Len(core'[a]) : core'[a][v].file \in raw
    <3> TAKE a \in Article
    <3>1. CASE a = a0
      <4>1. \A v \in 1..Len(new) : v = Len(core[a0]) + 1 \/ v \in 1..Len(core[a0])
        BY <2>2
      <4> QED BY <1>4, <1>5, <1>6, <2>2, <2>3, <3>1, <4>1
    <3>2. CASE a # a0
      BY <1>5, <2>3, <3>2
    <3> QED BY <3>1, <3>2
  <2>5. InCore' = InCore \cup {a0}
    <3>1. InCore' = {a \in Article : core'[a] # <<>>} /\ InCore = {a \in Article : core[a] # <<>>}
      BY DEF InCore
    <3> QED BY <1>4, <2>2, <2>3, <3>1
  <2>6. \A a \in Article : a # a0 => Current(a)' = Current(a) /\ core'[a] = core[a]
    BY <2>3 DEF InCore, Current
  <2>7. Current(a0)' = v0
    <3>1. Current(a0)' = core'[a0][Len(core'[a0])]
      BY DEF Current
    <3> QED BY <2>2, <2>3, <3>1
  <2> QED BY <1>1, <1>2, <1>3, <1>4, <1>a, <1>6, <2>2, <2>3, <2>4, <2>5, <2>6, <2>7 DEF c
<1> QED BY <1>7, <1>8, <1>9

\* A record that fails, or that had failed before.
LEMMA PassesIs ==
  ASSUME BaseInv, ProcessFails \/ PassOver
  PROVE  /\ run.pc = "process" /\ run.next <= Len(run.records) /\ raw' = raw /\ core' = core
         /\ \E rec : /\ Turns(rec)
                     /\ \/ /\ Here.state \in {"failed", "entry_failed"} /\ rec = Here
                        \/ /\ Here.state \in {"stored", "duplicate"}
                           /\ rec.state = "failed" /\ rec.keyed \in {TRUE, Here.keyed}
<1> USE DEF BaseInv
<1>1. /\ run.pc = "process" /\ run.next <= Len(run.records)
      /\ UNCHANGED <<source, site, disk, core, raw, todo, day, release, forgiven>>
  BY DEF ProcessFails, PassOver
<1>2. CASE PassOver
  <2>1. /\ Here.state \in {"failed", "entry_failed"}
        /\ run' = [run EXCEPT !.next = run.next + 1]
    BY <1>2 DEF PassOver
  <2>2. Turns(Here)
    BY <1>1, <2>1, HereIs, TurnsIs
  <2> QED BY <1>1, <2>1, <2>2
<1>3. CASE ProcessFails
  <2>1. PICK keyed \in {TRUE, Here.keyed} :
          run' = Stored(run.next, [Here EXCEPT !.state = "failed", !.keyed = keyed])
    BY <1>3 DEF ProcessFails
  <2> DEFINE rec == [Here EXCEPT !.state = "failed", !.keyed = keyed]
  <2>2. Here \in Record
    BY <1>1, HereIs
  <2>3. keyed \in BOOLEAN
    BY <2>1, <2>2 DEF Record
  <2>4. /\ rec \in Record /\ rec.art = Here.art /\ rec.content = Here.content
        /\ rec.path = Here.path /\ rec.entry = Here.entry /\ rec.state = "failed"
        /\ rec.keyed = keyed
    BY <2>2, <2>3 DEF Record
  <2>5. run' = Stored(run.next, rec)
    BY <2>1
  <2> HIDE DEF rec
  <2>6. Turns(rec)
    BY <1>1, <2>4, <2>5, TurnsIs
  <2>7. Here.state \in {"stored", "duplicate"}
    BY <1>3 DEF ProcessFails
  <2> QED BY <1>1, <2>1, <2>4, <2>6, <2>7
<1> QED BY <1>2, <1>3

LEMMA ProcessBase ==
  ASSUME BaseInv, ProcessRecord \/ ProcessFails \/ PassOver
  PROVE  BaseInv'
<1> USE DEF BaseInv
<1>1. run.pc = "process" /\ run.next <= Len(run.records) /\ raw' = raw
  BY ProcessRecordIs, PassesIs
<1>2. /\ RecordFits(Strategy, Here, run.mode, Listed, InCore, raw, disk)
      /\ StateFits(Here.state, run.next, run.pc, run.next) /\ run.next \in Nat
      /\ Here.art \in Article /\ Here.keyed \in BOOLEAN /\ Here \in Record
  BY <1>1, HereIs, RunIs DEF Record
<1>3. raw \in SUBSET File /\ InCore \subseteq Listed
  BY DEF TypeInv, SiteInv
<1>4. CASE ProcessRecord
  <2>1. PICK rec : Turns(rec) /\ rec.state = "done" /\ rec.keyed /\ rec.file = Here.file
    BY <1>4, ProcessRecordIs
  <2>2. /\ rec.art = Here.art /\ rec.content = Here.content
        /\ rec.path = Here.path /\ rec.entry = Here.entry
    BY <2>1 DEF Turns
  <2>3. /\ core' \in [Article -> Seq(Version)]
        /\ \A a \in Article : \A v \in 1..Len(core'[a]) : core'[a][v].file \in raw
        /\ InCore' = InCore \cup {Here.art}
        /\ Here.state \in {"stored", "duplicate"}
    BY <1>4, ProcessRecordIs
  <2>4. RecordFits(Strategy, rec, run.mode, Listed, InCore', raw', disk)
    BY <1>1, <1>2, <2>1, <2>2, <2>3 DEF RecordFits
  <2>5. StateFits(rec.state, run.next, run.pc, run.next + 1)
    BY <1>1, <1>2, <2>1 DEF StateFits
  <2>6. InCore' \subseteq Listed
    BY <1>2, <1>3, <2>3 DEF RecordFits
  <2> QED BY <1>1, <1>3, <2>1, <2>3, <2>4, <2>5, <2>6, TurnsBase
<1>5. CASE ProcessFails \/ PassOver
  <2>0. core' = core
    BY <1>5, PassesIs
  <2>1. PICK rec : /\ Turns(rec)
                   /\ \/ /\ Here.state \in {"failed", "entry_failed"} /\ rec = Here
                      \/ /\ Here.state \in {"stored", "duplicate"}
                         /\ rec.state = "failed" /\ rec.keyed \in {TRUE, Here.keyed}
    BY <1>5, PassesIs
  <2>2. /\ rec.art = Here.art /\ rec.content = Here.content
        /\ rec.path = Here.path /\ rec.entry = Here.entry
    BY <2>1 DEF Turns
  <2>3. /\ core' \in [Article -> Seq(Version)]
        /\ \A a \in Article : \A v \in 1..Len(core'[a]) : core'[a][v].file \in raw
        /\ InCore' = InCore
    BY <2>0 DEF TypeInv, InCore
  <2>4. RecordFits(Strategy, rec, run.mode, Listed, InCore', raw', disk)
    BY <1>1, <1>2, <2>1, <2>2, <2>3 DEF RecordFits
  <2>5. StateFits(rec.state, run.next, run.pc, run.next + 1)
    BY <1>1, <1>2, <2>1 DEF StateFits
  <2> QED BY <1>1, <1>3, <2>1, <2>3, <2>4, <2>5, TurnsBase
<1> QED BY <1>4, <1>5

\* A run goes on to its next stage.
LEMMA StageBase ==
  ASSUME BaseInv, Acquired \/ Persisted
  PROVE  /\ BaseInv'
         /\ UNCHANGED <<source, site, disk, raw, core, todo, day, release, forgiven>>
         /\ run' \in Run /\ run'.mode = run.mode /\ run'.d = run.d
         /\ run'.page = None /\ run.page = None /\ run'.requests = {} /\ run.requests = {}
         /\ run'.entries = run.entries
         /\ run'.items = run.items /\ run'.produced = run.produced /\ run'.records = run.records
         /\ \/ run.pc = "discover" /\ run'.pc = "persist"
            \/ run.pc = "persist" /\ run'.pc = "process"
<1> USE DEF BaseInv
<1>1. /\ UNCHANGED <<source, site, disk, raw, core, todo, day, release, forgiven>>
      /\ \/ /\ run.pc = "discover" /\ run' = [run EXCEPT !.pc = "persist"]
            /\ run.page = None /\ run.requests = {} /\ (run.mode = "RETRY" => run.entries = {})
         \/ /\ run.pc = "persist" /\ run' = [run EXCEPT !.pc = "process", !.next = 1]
            /\ run.next > Len(run.records)
  BY DEF Acquired, Persisted
<1>2. run \in Run /\ run.next \in Nat
  BY <1>1, RunIs
<1>3. RunFits(Strategy, run) /\ run.requests \cup run.entries \subseteq Listed
        /\ (run.mode = "RETRY" => run.items = DOMAIN todo
              /\ \A a \in run.requests \cup run.entries : Pending(a))
        /\ (run.pc = "discover" => run.next = 1)
  BY <1>1 DEF RunInv, RunFits
<1>4. run.page = None /\ run.requests = {} /\ (run.mode = "RETRY" => run.entries = {})
        /\ run.mode # "REPROCESS"
  BY <1>1, <1>3 DEF RunFits
<1>5. /\ run' \in Run /\ run'.mode = run.mode /\ run'.d = run.d
      /\ run'.page = run.page /\ run'.requests = run.requests /\ run'.entries = run.entries
      /\ run'.items = run.items /\ run'.produced = run.produced /\ run'.records = run.records
      /\ \/ run.pc = "discover" /\ run'.pc = "persist" /\ run'.next = 1
         \/ run.pc = "persist" /\ run'.pc = "process" /\ run'.next = 1 /\ run.next > Len(run.records)
  <2>1. CASE run' = [run EXCEPT !.pc = "persist"] /\ run.pc = "discover"
    BY <1>2, <1>3, <2>1 DEF Run
  <2>2. CASE /\ run' = [run EXCEPT !.pc = "process", !.next = 1] /\ run.pc = "persist"
             /\ run.next > Len(run.records)
    <3> DEFINE new == [run EXCEPT !.pc = "process", !.next = 1]
    <3>1. new \in Run
      <4>1. 1 \in Nat \ {0}
        OBVIOUS
      <4> QED BY <1>2, <4>1 DEF Run
    <3>2. /\ new.mode = run.mode /\ new.d = run.d
          /\ new.page = run.page /\ new.requests = run.requests /\ new.entries = run.entries
          /\ new.items = run.items /\ new.produced = run.produced /\ new.records = run.records
          /\ new.pc = "process" /\ new.next = 1
      BY <1>2 DEF Run
    <3> HIDE DEF new
    <3>3. run' = new
      BY <2>2 DEF new
    <3> QED BY <2>2, <3>1, <3>2, <3>3
  <2> QED BY <1>1, <2>1, <2>2
<1>6. Strategy' = Strategy /\ InCore' = InCore /\ Listed' = Listed /\ Grown
  BY <1>1 DEF Strategy, InCore, Listed, Grown
<1>7. TypeInv'
  BY <1>1, <1>5 DEF TypeInv
<1>8. SiteInv' /\ ItemInv'
  BY <1>1, <1>6, FitsStay DEF SiteInv, ItemInv
<1>9. RecordInv'
  BY <1>1, <1>5, <1>6, FitsStay DEF RecordInv
<1>10. ASSUME NEW i \in 1..Len(run.records)
       PROVE  StateFits(run.records[i].state, i, run'.pc, 1)
  <2>1. StateFits(run.records[i].state, i, run.pc, run.next) /\ run.records[i] \in Record
        /\ Len(run.records) \in Nat
    BY <1>1, RunIs DEF StageInv
  <2>2. i \in Nat /\ i >= 1 /\ i <= Len(run.records)
    BY <2>1
  <2>3. CASE run.pc = "discover" /\ run'.pc = "persist"
    BY <2>1, <2>2, <2>3 DEF StateFits
  <2>4. CASE run.pc = "persist" /\ run'.pc = "process" /\ run.next > Len(run.records)
    <3>1. i < run.next
      BY <1>2, <2>1, <2>2, <2>4
    <3>2. run.records[i].state \notin {"fetched", "done"}
      BY <2>1, <2>4, <3>1 DEF StateFits
    <3> QED BY <2>2, <2>4, <3>2 DEF StateFits
  <2> QED BY <1>5, <2>3, <2>4
<1>11. StageInv'
  BY <1>5, <1>10 DEF StageInv
<1>12. RunFits(Strategy, run')
  BY <1>3, <1>4, <1>5 DEF RunFits
<1>13. RunInv'
  BY <1>1, <1>3, <1>5, <1>6, <1>12 DEF RunInv, Pending
<1> QED BY <1>1, <1>4, <1>5, <1>7, <1>8, <1>9, <1>11, <1>13

(***************************************************************************)
(* The to-do list after a run                                              *)
(***************************************************************************)
LEMMA NotedIs ==
  ASSUME NEW items \in ItemMaps, NEW found \in SUBSET Article, IsFiniteSet(found),
         NEW noted, noted = Noted(items, found)
  PROVE  /\ noted \in ItemMaps
         /\ DOMAIN noted = DOMAIN items \cup {<<"entry", a>> : a \in found}
         /\ \A k \in DOMAIN noted :
              \/ k[1] = "entry" /\ k[2] \in found /\ noted[k] = EntryItem(k[2])
              \/ k \in DOMAIN items /\ noted[k] = items[k]
<1> DEFINE entries == {<<"entry", a>> : a \in found}
<1>1. /\ DOMAIN items \in SUBSET Key /\ IsFiniteSet(DOMAIN items)
      /\ \A k \in DOMAIN items : items[k] \in Item
  BY ItemMapsAre
<1>2. entries \in SUBSET Key
  BY DEF Key
<1>3. IsFiniteSet(entries)
  <2>1. [a \in found |-> <<"entry", a>>] \in Surjection(found, entries)
    BY DEF Surjection
  <2> HIDE DEF entries
  <2> QED BY <2>1, FS_Surjection
<1>4. IsFiniteSet(DOMAIN items \cup entries)
  BY <1>1, <1>3, FS_Union
<1>5. \A a \in found : EntryItem(a) \in Item
  BY DEF EntryItem, Item, None
<1>6. /\ noted = [k \in DOMAIN items \cup entries |->
                    IF k[1] = "entry" /\ k[2] \in found THEN EntryItem(k[2]) ELSE items[k]]
  BY DEF Noted
<1>7. \A k \in entries : k[1] = "entry" /\ k[2] \in found
  OBVIOUS
<1> HIDE DEF entries
<1>8. noted \in [DOMAIN items \cup entries -> Item]
  BY <1>1, <1>5, <1>6, <1>7
<1>9. noted \in ItemMaps
  <2>1. DOMAIN items \cup entries \in SUBSET Key
    BY <1>1, <1>2
  <2> QED BY <1>4, <1>8, <2>1, ItemMapsAre
<1> QED BY <1>6, <1>7, <1>9 DEF entries

\* Every item stood there before, was found by discovery, or is the item of the
\* last record that answers to its key.
LEMMA UpdateIs ==
  ASSUME BaseInv, UpdateTodo
  PROVE  /\ run.pc = "process" /\ run.mode # "REPROCESS"
         /\ UNCHANGED <<source, site, disk, raw, core, day, release>>
         /\ forgiven' = forgiven \
              {run.records[i].art : i \in {j \in 1..Len(run.records) : run.records[j].state = "done"}}
         /\ run' \in Run /\ run'.pc = "todo" /\ run'.mode = run.mode /\ run'.d = run.d
         /\ run'.page = run.page /\ run'.requests = run.requests /\ run'.entries = run.entries
         /\ run'.items = run.items /\ run'.produced = run.produced /\ run'.records = run.records
         /\ run'.next = run.next /\ run.next > Len(run.records)
         /\ \A i \in 1..Len(run.records) :
              /\ run.records[i].state \in {"done", "failed", "entry_failed"}
              /\ run.records[i].state # "done" => Retriable(run.records[i])
         /\ todo' \in ItemMaps
         /\ \A k \in DOMAIN todo' :
              \/ /\ k \in DOMAIN todo /\ todo'[k] = todo[k]
                 /\ \A i \in 1..Len(run.records) : ~Touches(run.records[i], k)
              \/ /\ run.mode # "RETRY" /\ k[1] = "entry" /\ k[2] \in run.entries
                 /\ todo'[k] = EntryItem(k[2])
              \/ \E i \in 1..Len(run.records) :
                   /\ run.records[i].state # "done" /\ k = FirstKey(run.records[i])
                   /\ todo'[k] = RetryItem(run.records[i])
                   /\ \A j \in (i + 1)..Len(run.records) : ~Touches(run.records[j], k)
         /\ \A a : \/ Pending(a)
                   \/ run.mode # "RETRY" /\ a \in run.entries
                   \/ \E i \in 1..Len(run.records) : run.records[i].art = a
              => \/ Pending(a)'
                 \/ \E i \in 1..Len(run.records) :
                      run.records[i].art = a /\ run.records[i].state = "done"
<1> USE DEF BaseInv
<1>1. /\ run.pc = "process" /\ run.next > Len(run.records) /\ run.mode # "REPROCESS"
      /\ todo' = UpdateItems /\ run' = [run EXCEPT !.pc = "todo"]
      /\ UNCHANGED <<source, site, disk, raw, core, day, release>>
      /\ forgiven' = forgiven \ {rec.art : rec \in {r \in ToSet(run.records) : r.state = "done"}}
  BY DEF UpdateTodo
<1>2. /\ run \in Run /\ run.records \in Seq(Record) /\ Len(run.records) \in Nat
      /\ run.entries \in SUBSET Article /\ todo \in ItemMaps
      /\ \A i \in 1..Len(run.records) : run.records[i] \in Record
  BY <1>1, RunIs DEF TypeInv
<1>3. /\ run' \in Run /\ run'.pc = "todo" /\ run'.mode = run.mode /\ run'.d = run.d
      /\ run'.page = run.page /\ run'.requests = run.requests /\ run'.entries = run.entries
      /\ run'.items = run.items /\ run'.produced = run.produced /\ run'.records = run.records
      /\ run'.next = run.next
  BY <1>1, <1>2 DEF Run
<1>4. \A i \in 1..Len(run.records) :
        /\ run.records[i].state \in {"done", "failed", "entry_failed"}
        /\ run.records[i].state # "done" => Retriable(run.records[i])
  <2> TAKE i \in 1..Len(run.records)
  <2>1. /\ RecordFits(Strategy, run.records[i], run.mode, Listed, InCore, raw, disk)
        /\ StateFits(run.records[i].state, i, run.pc, run.next) /\ run.next \in Nat
    BY <1>1, RunIs DEF RecordInv, StageInv
  <2>2. i < run.next
    BY <1>1, <1>2, <2>1
  <2>3. run.records[i].state \in {"done", "failed", "entry_failed"}
    BY <1>1, <2>1, <2>2 DEF StateFits
  <2> QED BY <1>1, <2>1, <2>3 DEF RecordFits, Retriable
<1> DEFINE found == IF run.mode = "RETRY" THEN {} ELSE run.entries
           base == Noted(todo, found)
           records == run.records
<1>5. found \in SUBSET Article /\ IsFiniteSet(found)
  <2>1. run.entries \subseteq Listed
    BY <1>1 DEF RunInv
  <2>2. IsFiniteSet(run.entries)
    BY <2>1, ListedIs, FS_Subset
  <2> QED BY <1>2, <2>2, FS_EmptySet
<1> HIDE DEF found
<1>7. /\ base \in ItemMaps
      /\ DOMAIN base = DOMAIN todo \cup {<<"entry", a>> : a \in found}
      /\ \A k \in DOMAIN base :
           \/ k[1] = "entry" /\ k[2] \in found /\ base[k] = EntryItem(k[2])
           \/ k \in DOMAIN todo /\ base[k] = todo[k]
  BY <1>2, <1>5, NotedIs, Zenon
<1>8. todo' = Settled(base, records)
  BY <1>1 DEF UpdateItems, found
<1>9. Settles(records) /\ records \in Seq(Record)
  BY <1>2, <1>4 DEF Settles
<1> HIDE DEF base, records
<1>10. /\ todo' \in ItemMaps
       /\ \A k \in DOMAIN todo' :
            \/ /\ k \in DOMAIN base /\ todo'[k] = base[k]
               /\ \A i \in 1..Len(records) : ~Touches(records[i], k)
            \/ \E i \in 1..Len(records) :
                 /\ records[i].state # "done" /\ k = FirstKey(records[i])
                 /\ todo'[k] = RetryItem(records[i])
                 /\ \A j \in (i + 1)..Len(records) : ~Touches(records[j], k)
       /\ \A a : (\E k \in DOMAIN base : k[2] = a)
                   \/ (\E i \in 1..Len(records) : records[i].art = a) =>
            \/ \E k \in DOMAIN todo' : k[2] = a
            \/ \E i \in 1..Len(records) : records[i].art = a /\ records[i].state = "done"
  <2>1. base \in ItemMaps
    BY <1>7
  <2>2. SettlesTo(base, records, Settled(base, records))
    BY <1>9, <2>1, SettledIs
  <2>3. SettlesTo(base, records, todo')
    BY <1>8, <2>2
  <2> QED BY <2>3 DEF SettlesTo
<1>11. \A a : Pending(a) \/ a \in found => \E k \in DOMAIN base : k[2] = a
  <2> SUFFICES ASSUME NEW a, Pending(a) \/ a \in found
               PROVE  \E k \in DOMAIN base : k[2] = a
    OBVIOUS
  <2>1. CASE Pending(a)
    <3>1. PICK k \in DOMAIN todo : k[2] = a
      BY <2>1 DEF Pending
    <3>2. k \in DOMAIN base
      BY <1>7, <3>1
    <3> QED BY <3>1, <3>2
  <2>2. CASE a \in found
    <3>1. <<"entry", a>> \in DOMAIN base
      BY <1>7, <2>2
    <3>2. <<"entry", a>>[2] = a
      OBVIOUS
    <3> QED BY <3>1, <3>2
  <2> QED BY <2>1, <2>2
<1>12. forgiven' = forgiven \
         {run.records[i].art : i \in {j \in 1..Len(run.records) : run.records[j].state = "done"}}
  <2>1. ToSet(run.records) = {run.records[i] : i \in 1..Len(run.records)}
    BY <1>2 DEF ToSet
  <2>2. {rec.art : rec \in {r \in ToSet(run.records) : r.state = "done"}} =
          {run.records[i].art : i \in {j \in 1..Len(run.records) : run.records[j].state = "done"}}
    BY <2>1
  <2> QED BY <1>1, <2>2
<1>13. \A k \in DOMAIN todo' :
         \/ /\ k \in DOMAIN todo /\ todo'[k] = todo[k]
            /\ \A i \in 1..Len(run.records) : ~Touches(run.records[i], k)
         \/ /\ run.mode # "RETRY" /\ k[1] = "entry" /\ k[2] \in run.entries
            /\ todo'[k] = EntryItem(k[2])
         \/ \E i \in 1..Len(run.records) :
              /\ run.records[i].state # "done" /\ k = FirstKey(run.records[i])
              /\ todo'[k] = RetryItem(run.records[i])
              /\ \A j \in (i + 1)..Len(run.records) : ~Touches(run.records[j], k)
  <2> TAKE k \in DOMAIN todo'
  <2>1. k \in DOMAIN base => \/ k[1] = "entry" /\ k[2] \in found /\ base[k] = EntryItem(k[2])
                             \/ k \in DOMAIN todo /\ base[k] = todo[k]
    BY <1>7
  <2>2. k[2] \in found => run.mode # "RETRY" /\ k[2] \in run.entries
    BY DEF found
  <2> QED BY <1>10, <2>1, <2>2 DEF records
<1>14. ASSUME NEW a, \/ Pending(a)
                     \/ run.mode # "RETRY" /\ a \in run.entries
                     \/ \E i \in 1..Len(run.records) : run.records[i].art = a
       PROVE  \/ Pending(a)'
              \/ \E i \in 1..Len(run.records) :
                   run.records[i].art = a /\ run.records[i].state = "done"
  <2>1. run.mode # "RETRY" /\ a \in run.entries => a \in found
    BY DEF found
  <2>2. Pending(a)' <=> \E k \in DOMAIN todo' : k[2] = a
    BY DEF Pending
  <2> QED BY <1>10, <1>11, <1>14, <2>1, <2>2 DEF records
<1> QED BY <1>1, <1>3, <1>4, <1>10, <1>12, <1>13, <1>14

LEMMA UpdateBase ==
  ASSUME BaseInv, UpdateTodo
  PROVE  BaseInv'
<1> USE DEF BaseInv
<1>1. /\ UNCHANGED <<source, site, disk, raw, core, day, release>>
      /\ Strategy' = Strategy /\ InCore' = InCore /\ Listed' = Listed /\ Grown
      /\ run.pc = "process" /\ run.mode # "REPROCESS"
  BY UpdateIs DEF Strategy, InCore, Listed, Grown
<1>2. /\ run' \in Run /\ run'.pc = "todo" /\ run'.mode = run.mode /\ run'.d = run.d
      /\ run'.page = run.page /\ run'.requests = run.requests /\ run'.entries = run.entries
      /\ run'.items = run.items /\ run'.produced = run.produced /\ run'.records = run.records
      /\ run'.next = run.next /\ todo' \in ItemMaps
      /\ \A i \in 1..Len(run.records) : run.records[i].state \in {"done", "failed", "entry_failed"}
  BY UpdateIs
<1>3. \A i \in 1..Len(run.records) :
        /\ run.records[i] \in Record
        /\ RecordFits(Strategy, run.records[i], run.mode, Listed, InCore, raw, disk)
  BY <1>1, RunIs DEF RecordInv
<1>e. /\ run.entries \subseteq Listed /\ (Strategy # "json_manifest" => run.entries = {})
      /\ RunFits(Strategy, run) /\ run.requests \subseteq Listed
  BY <1>1 DEF RunInv, RunFits
<1>4. ASSUME NEW k \in DOMAIN todo'
      PROVE  todo'[k].art = k[2] /\ ItemFits(Strategy, k, todo'[k], Listed, disk)
  <2>1. CASE k \in DOMAIN todo /\ todo'[k] = todo[k]
    BY <2>1 DEF TypeInv, ItemInv
  <2>2. CASE k[1] = "entry" /\ k[2] \in run.entries /\ todo'[k] = EntryItem(k[2])
    <3>1. Strategy = "json_manifest" /\ k[2] \in Listed
      BY <1>e, <2>2
    <3> QED BY <2>2, <3>1 DEF EntryItem, ItemFits, None
  <2>3. ASSUME NEW i \in 1..Len(run.records), run.records[i].state # "done",
               k = FirstKey(run.records[i]), todo'[k] = RetryItem(run.records[i])
        PROVE  todo'[k].art = k[2] /\ ItemFits(Strategy, k, todo'[k], Listed, disk)
    <3> DEFINE rec == run.records[i]
    <3>1. /\ rec \in Record /\ Retriable(rec) /\ rec.state \in {"failed", "entry_failed"}
          /\ RecordFits(Strategy, rec, run.mode, Listed, InCore, raw, disk)
          /\ k = FirstKey(rec) /\ todo'[k] = RetryItem(rec)
      BY <1>2, <1>3, <2>3, UpdateIs
    <3> HIDE DEF rec
    <3>2. /\ RetryItem(rec).kind = IF rec.state = "entry_failed" THEN "json_manifest_entry"
                                   ELSE IF rec.path # None THEN "process" ELSE "fetch"
          /\ RetryItem(rec).art = rec.art /\ RetryItem(rec).content = rec.content
          /\ RetryItem(rec).path = rec.path
      BY <3>1, RetryItemIs
    <3>3. \/ rec.keyed /\ k = <<"record", rec.art>>
          \/ ~rec.keyed /\ rec.path # None /\ k = <<"path", rec.art, rec.path>>
          \/ ~rec.keyed /\ rec.path = None /\ k = <<"entry", rec.art>>
      BY <3>1 DEF FirstKey
    <3>4. \/ k[1] = "record" /\ rec.keyed
          \/ k[1] = "path" /\ ~rec.keyed /\ rec.path # None /\ k[3] = rec.path
          \/ k[1] = "entry" /\ ~rec.keyed /\ rec.path = None
      BY <3>3
    <3>5. k[2] = rec.art
      BY <3>3
    <3> QED BY <1>1, <3>1, <3>2, <3>4, <3>5 DEF RecordFits, ItemFits, Retriable
  <2> QED BY <2>1, <2>2, <2>3, UpdateIs
<1>5. TypeInv'
  <2>1. forgiven' \in SUBSET Article
    BY UpdateIs DEF TypeInv
  <2> QED BY <1>1, <1>2, <1>4, <2>1 DEF TypeInv
<1>6. SiteInv' /\ ItemInv'
  BY <1>1, <1>4 DEF SiteInv, ItemInv
<1>7. RecordInv'
  BY <1>1, <1>2, <1>3 DEF RecordInv
<1>8. StageInv'
  BY <1>2 DEF StageInv, StateFits
<1>9. RunFits(Strategy, run')
  BY <1>1, <1>2, <1>e DEF RunFits
<1>10. RunInv'
  BY <1>1, <1>2, <1>e, <1>9 DEF RunInv
<1> QED BY <1>5, <1>6, <1>7, <1>8, <1>10

\* A run ends.
LEMMA EndBase ==
  ASSUME BaseInv, run' = Idle, UNCHANGED <<source, site, disk, raw, core, todo, day, release>>,
         forgiven' \in SUBSET Article
  PROVE  BaseInv'
<1> USE DEF BaseInv
<1>1. Strategy' = Strategy /\ InCore' = InCore /\ Listed' = Listed /\ Grown
  BY DEF Strategy, InCore, Listed, Grown
<1>2. run'.pc = "idle"
  BY DEF Idle
<1>3. TypeInv'
  BY DEF TypeInv
<1>4. SiteInv' /\ ItemInv'
  BY <1>1, FitsStay DEF SiteInv, ItemInv
<1> QED BY <1>2, <1>3, <1>4 DEF RecordInv, StageInv, RunInv

LEMMA BaseInit == Init => BaseInv
<1> SUFFICES ASSUME Init PROVE BaseInv
  OBVIOUS
<1>1. /\ source \in Sources /\ raw = {} /\ todo = <<>> /\ run = Idle /\ day = 1 /\ release = 1
      /\ forgiven = {} /\ core = [a \in Article |-> <<>>]
      /\ disk = [d \in Day |-> [a \in Article |-> None]]
      /\ site = [listing |-> <<>>, invalid |-> {}, content |-> [a \in Article |-> 1]]
  BY DEF Init
<1>2. /\ MaxDay \in Nat \ {0} /\ MaxEdit \in Nat \ {0} /\ MaxRelease \in Nat \ {0}
  <2>1. Bound \in Scope
    BY <1>1, SourceAssumption DEF Bound
  <2>2. Bound.edits \in 1..MaxEdit /\ Bound.releases \in 1..MaxRelease /\ Bound.days \in 1..MaxDay
    BY <2>1 DEF Scope
  <2> QED BY <2>2, BoundAssumption
<1>3. InCore = {} /\ Listed = {} /\ Len(site.listing) = 0
  BY <1>1 DEF InCore, Listed, ToSet
<1>4. todo \in ItemMaps /\ DOMAIN todo = {}
  <2>1. todo \in [{} -> Item] /\ {} \in SUBSET Key
    BY <1>1
  <2> QED BY <2>1, FS_EmptySet, ItemMapsAre
<1>5. TypeInv
  <2>1. \A a \in Article : Len(core[a]) = 0
    BY <1>1
  <2> QED BY <1>1, <1>2, <1>4, <2>1 DEF TypeInv, Edit, Day
<1>6. SiteInv
  <2>1. \A d \in Day, a \in Article : disk[d][a] <= site.content[a]
    BY <1>1 DEF None
  <2> QED BY <1>1, <1>3, <2>1 DEF SiteInv
<1>7. run.pc = "idle"
  BY <1>1 DEF Idle
<1> QED BY <1>4, <1>5, <1>6, <1>7 DEF BaseInv, ItemInv, RecordInv, StageInv, RunInv

LEMMA BaseStep == BaseInv /\ [Next]_vars => BaseInv'
<1> SUFFICES ASSUME BaseInv, [Next]_vars PROVE BaseInv'
  OBVIOUS
<1>1. CASE Environment
  BY <1>1, EnvironmentBase
<1>2. CASE Acquire
  <2>1. ASSUME NEW mode \in Mode, Start(mode) PROVE BaseInv'
    BY <2>1, StartBase
  <2>2. CASE StartRetry
    BY <2>2, RetryBase
  <2>3. ASSUME NEW unread \in SUBSET Article, StartReprocess(unread) PROVE BaseInv'
    BY <2>3, ReprocessBase
  <2>4. ASSUME NEW unnamed \in SUBSET Article, NEW unread \in SUBSET Article,
               ListPage(unnamed, unread)
        PROVE  BaseInv'
    BY <2>4, ListPageBase
  <2>5. CASE PageLost
    BY <2>5, PageLostBase
  <2>6. ASSUME NEW unchecked \in SUBSET Article, CollectPage(unchecked) PROVE BaseInv'
    BY <2>6, CollectPageBase
  <2>7. ASSUME NEW a \in Article,
               FetchDetail(a) \/ DetailFailed(a) \/ DetailMissing(a) \/ RetryEntry(a)
        PROVE  BaseInv'
    BY <2>7, DetailBase
  <2>8. CASE Acquired
    BY <2>8, StageBase
  <2> QED BY <1>2, <2>1, <2>2, <2>3, <2>4, <2>5, <2>6, <2>7, <2>8 DEF Acquire
<1>3. CASE Process
  <2>1. CASE Persist
    BY <2>1, PersistBase
  <2>2. CASE Persisted
    BY <2>2, StageBase
  <2>3. CASE ProcessRecord \/ ProcessFails \/ PassOver
    BY <2>3, ProcessBase
  <2>4. CASE UpdateTodo
    BY <2>4, UpdateBase
  <2>5. ASSUME NEW s \in {"SUCCESS", "PARTIAL", "FAILED"}, Report(s) PROVE BaseInv'
    <3>1. /\ run' = Idle /\ UNCHANGED <<source, site, disk, raw, core, todo, day, release>>
          /\ forgiven' = forgiven
      BY <2>5 DEF Report
    <3> QED BY <3>1, EndBase DEF BaseInv, TypeInv
  <2> QED BY <1>3, <2>1, <2>2, <2>3, <2>4, <2>5 DEF Process
<1>4. CASE Crash
  <2>1. /\ run' = Idle /\ UNCHANGED <<source, site, disk, raw, core, todo, day, release>>
        /\ forgiven' = forgiven \cup Listed
    BY <1>4 DEF Crash
  <2>2. forgiven' \in SUBSET Article
    BY <2>1, ListedIs DEF BaseInv, TypeInv
  <2> QED BY <2>1, <2>2, EndBase
<1>5. CASE UNCHANGED vars
  <2>1. /\ UNCHANGED <<source, site, disk, raw, core, todo, run, day, release, forgiven>>
    BY <1>5 DEF vars
  <2>2. Strategy' = Strategy /\ InCore' = InCore /\ Listed' = Listed
    BY <2>1 DEF Strategy, InCore, Listed
  <2> QED BY <2>1, <2>2 DEF BaseInv, TypeInv, SiteInv, ItemInv, RecordInv, StageInv, RunInv, Pending
<1> QED BY <1>1, <1>2, <1>3, <1>4, <1>5 DEF Next

\* Everything a run holds and leaves has its type, and the parts of an item and
\* of a record belong together.
THEOREM BaseCorrect == Spec => []BaseInv
BY BaseInit, BaseStep, PTL DEF Spec

\* The type invariant.
THEOREM TypeCorrect == Spec => []TypeOK
<1>1. BaseInv => TypeOK
  <2> SUFFICES ASSUME BaseInv PROVE TypeOK
    OBVIOUS
  <2>1. TypeInv
    BY DEF BaseInv
  <2>2. /\ site.listing \in Seq(Article) /\ site.invalid \subseteq Article
        /\ site.content \in [Article -> Edit]
    BY <2>1 DEF TypeInv
  <2>3. \A a \in Article : \A v \in 1..Len(core[a]) :
          /\ core[a][v].file \in raw
          /\ core[a][v].release \in 1..MaxRelease /\ core[a][v].content \in Edit
    <3> TAKE a \in Article
    <3>1. core[a] \in Seq(Version)
      BY <2>1 DEF TypeInv
    <3> TAKE v \in 1..Len(core[a])
    <3>2. core[a][v] \in Version /\ core[a][v].file \in raw
      BY <2>1, <3>1 DEF TypeInv
    <3> QED BY <3>2 DEF Version
  <2>4. /\ DOMAIN todo \subseteq Key
        /\ \A k \in DOMAIN todo : todo[k] \in Item /\ todo[k].art = k[2]
    BY <2>1, ItemMapsAre DEF TypeInv
  <2>5. run.pc \in {"idle", "discover", "persist", "process", "todo"}
    BY <2>1, RunIs DEF Idle
  <2>6. run.pc # "idle" =>
          /\ run.mode \in Mode /\ run.d \in Discovery
          /\ \A i \in 1..Len(run.records) : run.records[i] \in Record
    BY <2>1, RunIs
  <2> QED BY <2>1, <2>2, <2>3, <2>4, <2>5, <2>6 DEF TypeInv, TypeOK
<1> QED BY <1>1, BaseCorrect, PTL

(***************************************************************************)
(* What leaves the to-do list                                              *)
(***************************************************************************)
\* Only the end of a run changes the to-do list.
LEMMA TodoIs ==
  ASSUME BaseInv, [Next]_vars, todo' # todo
  PROVE  UpdateTodo
<1>1. CASE Environment
  BY <1>1 DEF Environment, Publish, EditPage, SpoilEntry, NextDay, NewRelease
<1>2. CASE Acquire
  <2>1. ASSUME NEW mode \in Mode, Start(mode) PROVE todo' = todo
    BY <2>1, StartIs
  <2>2. CASE StartRetry
    BY <2>2 DEF StartRetry
  <2>3. ASSUME NEW unread \in SUBSET Article, StartReprocess(unread) PROVE todo' = todo
    BY <2>3, Zenon DEF StartReprocess
  <2>4. ASSUME NEW unnamed \in SUBSET Article, NEW unread \in SUBSET Article,
               ListPage(unnamed, unread)
        PROVE  todo' = todo
    BY <2>4, Zenon DEF ListPage
  <2>5. CASE PageLost
    BY <2>5, PageLostIs
  <2>6. ASSUME NEW unchecked \in SUBSET Article, CollectPage(unchecked) PROVE todo' = todo
    BY <2>6, Zenon DEF CollectPage
  <2>7. ASSUME NEW a \in Article,
               FetchDetail(a) \/ DetailFailed(a) \/ DetailMissing(a) \/ RetryEntry(a)
        PROVE  todo' = todo
    BY <2>7, Zenon DEF FetchDetail, DetailFailed, DetailMissing, RetryEntry
  <2>8. CASE Acquired
    BY <2>8, StageBase
  <2> QED BY <1>2, <2>1, <2>2, <2>3, <2>4, <2>5, <2>6, <2>7, <2>8 DEF Acquire
<1>3. CASE Process
  <2>1. CASE Persist
    BY <2>1, Zenon DEF Persist
  <2>2. CASE Persisted
    BY <2>2, StageBase
  <2>3. CASE ProcessRecord \/ ProcessFails \/ PassOver
    BY <2>3, Zenon DEF ProcessRecord, ProcessFails, PassOver
  <2>4. ASSUME NEW s \in {"SUCCESS", "PARTIAL", "FAILED"}, Report(s) PROVE todo' = todo
    BY <2>4 DEF Report
  <2> QED BY <1>3, <2>1, <2>2, <2>3, <2>4 DEF Process
<1>4. CASE Crash
  BY <1>4 DEF Crash
<1>5. CASE UNCHANGED vars
  BY <1>5 DEF vars
<1> QED BY <1>1, <1>2, <1>3, <1>4, <1>5 DEF Next

\* _update_retry_items removes an item only for a record that answers to it: the
\* record reached Core, or its own item is on the list instead.
THEOREM TodoLeavesByCoreHolds == Spec => TodoLeavesByCore
<1>1. ASSUME BaseInv, [Next]_vars, NEW k \in DOMAIN todo \ DOMAIN todo'
      PROVE  k[2] \in InCore \/ \E j \in DOMAIN todo' : j[2] = k[2]
  <2>1. UpdateTodo
    <3>1. todo' # todo
      OBVIOUS
    <3> QED BY <1>1, <3>1, TodoIs
  <2>2. Pending(k[2])
    BY DEF Pending
  <2>3. \/ Pending(k[2])'
        \/ \E i \in 1..Len(run.records) :
             run.records[i].art = k[2] /\ run.records[i].state = "done"
    BY <1>1, <2>1, <2>2, UpdateIs
  <2>4. ASSUME NEW i \in 1..Len(run.records),
               run.records[i].art = k[2], run.records[i].state = "done"
        PROVE  k[2] \in InCore
    <3>1. run.pc # "idle"
      BY <1>1, <2>1, UpdateIs
    <3> QED BY <1>1, <2>4, <3>1 DEF BaseInv, RecordInv, RecordFits
  <2> QED BY <2>3, <2>4 DEF Pending
<1>2. BaseInv /\ [Next]_vars =>
        [\A k \in DOMAIN todo \ DOMAIN todo' :
           k[2] \in InCore \/ \E j \in DOMAIN todo' : j[2] = k[2]]_vars
  BY <1>1
<1> QED BY <1>2, BaseCorrect, PTL DEF Spec, TodoLeavesByCore

(***************************************************************************)
(* Nothing is forgotten: older articles are accounted for                  *)
(***************************************************************************)
HasRecord(a) == \E i \in 1..Len(run.records) : run.records[i].art = a

\* The run still has to do with the article.
InHand(a) == a \in run.requests \/ a \in run.entries \/ HasRecord(a)

Kept(a) == a \in InCore \/ Pending(a)
Fine(a) == a \in InCore \/ Pending(a) \/ a \in forgiven

\* The place is on a page that discovery has still to read.
Later(j) == run.page # None /\ j > (run.page - 1) * PageSize

\* Behind an article that is kept, every older one is accounted for. While a run
\* is on its way that also holds behind what the run has in hand.
OrderFits(i, j) ==
  /\ run.pc # "process" /\ Kept(site.listing[i]) => Fine(site.listing[j])
  /\ run.pc = "discover" /\ InHand(site.listing[i]) =>
       Fine(site.listing[j]) \/ InHand(site.listing[j]) \/ Later(j)
  /\ run.pc \in {"persist", "process"} /\ (Kept(site.listing[i]) \/ InHand(site.listing[i])) =>
       Fine(site.listing[j]) \/ InHand(site.listing[j])

OrderInv == \A i, j \in 1..Len(site.listing) : i < j => OrderFits(i, j)

\* What discovery has examined is accounted for or in hand.
CoverInv ==
  /\ run.pc = "discover" =>
       \A a \in run.d.seen \cup run.d.selected : Fine(a) \/ InHand(a)
  /\ run.pc # "idle" /\ run.mode \in {"INITIAL", "INCREMENTAL"} =>
       \A a \in run.produced : HasRecord(a)

LedgerInv == OrderInv /\ CoverInv

\* The same pages, and an article that is in hand stays so or is accounted for.
SameStage ==
  /\ run'.pc = run.pc /\ run'.mode = run.mode /\ run'.d = run.d /\ run'.page = run.page
  /\ run.mode \in {"INITIAL", "INCREMENTAL"} =>
       \A a \in run'.produced : a \in run.produced \/ HasRecord(a)'
  /\ \A a : HasRecord(a) => HasRecord(a)'
  /\ \A a : InHand(a) => InHand(a)' \/ Fine(a)'
  /\ \A a : InHand(a)' => InHand(a)

LEMMA LedgerStays ==
  ASSUME BaseInv, LedgerInv, site'.listing = site.listing, SameStage,
         \A a : Kept(a)' => Kept(a) \/ (run.pc = "process" /\ InHand(a)),
         \A a : Fine(a) => Fine(a)'
  PROVE  LedgerInv'
<1>1. ASSUME NEW i \in 1..Len(site.listing), NEW j \in 1..Len(site.listing), i < j
      PROVE  OrderFits(i, j)'
  <2>0. PICK x, y : x = site.listing[i] /\ y = site.listing[j]
    OBVIOUS
  <2>1. OrderFits(i, j)
    BY <1>1 DEF LedgerInv, OrderInv
  <2>2. site'.listing[i] = x /\ site'.listing[j] = y
    BY <2>0
  <2>3. /\ Kept(x)' => Kept(x) \/ (run.pc = "process" /\ InHand(x))
        /\ InHand(x)' => InHand(x)
        /\ Fine(y) => Fine(y)'
        /\ InHand(y) => InHand(y)' \/ Fine(y)'
        /\ Later(j)' <=> Later(j)
        /\ run'.pc = run.pc
    BY DEF SameStage, Later
  <2>4. OrderFits(i, j) <=>
          /\ run.pc # "process" /\ Kept(x) => Fine(y)
          /\ run.pc = "discover" /\ InHand(x) => Fine(y) \/ InHand(y) \/ Later(j)
          /\ run.pc \in {"persist", "process"} /\ (Kept(x) \/ InHand(x)) => Fine(y) \/ InHand(y)
    BY <2>0 DEF OrderFits
  <2>5. OrderFits(i, j)' <=>
          /\ run'.pc # "process" /\ Kept(x)' => Fine(y)'
          /\ run'.pc = "discover" /\ InHand(x)' => Fine(y)' \/ InHand(y)' \/ Later(j)'
          /\ run'.pc \in {"persist", "process"} /\ (Kept(x)' \/ InHand(x)') =>
               Fine(y)' \/ InHand(y)'
    BY <2>2 DEF OrderFits
  <2> QED BY <2>1, <2>3, <2>4, <2>5
<1>2. OrderInv'
  BY <1>1 DEF OrderInv
<1>3. CoverInv'
  <2>1. run'.pc = "discover" => \A a \in run'.d.seen \cup run'.d.selected : Fine(a)' \/ InHand(a)'
    BY DEF LedgerInv, CoverInv, SameStage
  <2>2. run'.pc # "idle" /\ run'.mode \in {"INITIAL", "INCREMENTAL"} =>
          \A a \in run'.produced : HasRecord(a)'
    BY DEF LedgerInv, CoverInv, SameStage
  <2> QED BY <2>1, <2>2 DEF CoverInv
<1> QED BY <1>2, <1>3 DEF LedgerInv

\* An article that is new to the listing is neither kept nor in hand.
LEMMA PublishLedger ==
  ASSUME BaseInv, LedgerInv, NEW a \in Article, Publish(a)
  PROVE  LedgerInv'
<1> USE DEF BaseInv
<1>1. /\ Len(site'.listing) = Len(site.listing) + 1 /\ site'.listing[1] = a
      /\ \A i \in 1..Len(site'.listing) :
           i = 1 \/ (i - 1 \in 1..Len(site.listing) /\ site'.listing[i] = site.listing[i - 1])
      /\ a \notin Listed
  BY PublishIs
<1>2. /\ UNCHANGED <<core, todo, run, forgiven>> /\ run.pc \in {"idle", "discover"}
  BY DEF Publish, Watched
<1>3. \A b : /\ Kept(b)' <=> Kept(b)
             /\ Fine(b)' <=> Fine(b)
             /\ InHand(b)' <=> InHand(b)
             /\ HasRecord(b)' <=> HasRecord(b)
  BY <1>2 DEF Kept, Fine, InHand, HasRecord, InCore, Pending
<1>4. ~Kept(a)
  <2>1. a \notin InCore
    BY <1>1 DEF SiteInv
  <2>2. ~Pending(a)
    BY <1>1 DEF Pending, ItemInv, ItemFits
  <2> QED BY <2>1, <2>2 DEF Kept
<1>5. run.pc # "idle" => ~InHand(a)
  <2> SUFFICES ASSUME run.pc # "idle" PROVE ~InHand(a)
    OBVIOUS
  <2>1. a \notin run.requests /\ a \notin run.entries
    BY <1>1 DEF RunInv
  <2>2. ~HasRecord(a)
    BY <1>1 DEF HasRecord, RecordInv, RecordFits
  <2> QED BY <2>1, <2>2 DEF InHand
<1>6. ASSUME NEW i \in 1..Len(site'.listing), NEW j \in 1..Len(site'.listing), i < j
      PROVE  OrderFits(i, j)'
  <2>1. j - 1 \in 1..Len(site.listing) /\ j - 1 \in Nat
    BY <1>1, <1>6
  <2>0. PICK x, y : x = site'.listing[i] /\ y = site'.listing[j]
    OBVIOUS
  <2>2. y = site.listing[j - 1]
    BY <1>1, <1>6, <2>0
  <2>3. OrderFits(i, j)' <=>
          /\ run'.pc # "process" /\ Kept(x)' => Fine(y)'
          /\ run'.pc = "discover" /\ InHand(x)' => Fine(y)' \/ InHand(y)' \/ Later(j)'
          /\ run'.pc \in {"persist", "process"} /\ (Kept(x)' \/ InHand(x)') =>
               Fine(y)' \/ InHand(y)'
    BY <2>0 DEF OrderFits
  <2>4. CASE i = 1
    <3>1. x = a
      BY <1>1, <2>0, <2>4
    <3> QED BY <1>2, <1>3, <1>4, <1>5, <2>3, <3>1
  <2>5. CASE i # 1
    <3>5. i \in 1..Len(site'.listing) /\ i # 1
      BY <1>6, <2>5
    <3>6. i - 1 \in 1..Len(site.listing) /\ x = site.listing[i - 1]
      BY <1>1, <2>0, <3>5
    <3>7. i - 1 < j - 1
      BY <1>6, <2>1, <3>6
    <3>1. i - 1 \in 1..Len(site.listing) /\ x = site.listing[i - 1] /\ i - 1 < j - 1
      BY <3>6, <3>7
    <3>2. OrderFits(i - 1, j - 1)
      BY <2>1, <3>1 DEF LedgerInv, OrderInv
    <3>3. OrderFits(i - 1, j - 1) <=>
            /\ run.pc # "process" /\ Kept(x) => Fine(y)
            /\ run.pc = "discover" /\ InHand(x) => Fine(y) \/ InHand(y) \/ Later(j - 1)
            /\ run.pc \in {"persist", "process"} /\ (Kept(x) \/ InHand(x)) => Fine(y) \/ InHand(y)
      BY <2>2, <3>1 DEF OrderFits
    <3>4. run.pc = "discover" /\ Later(j - 1) => Later(j)'
      <4> SUFFICES ASSUME run.pc = "discover", Later(j - 1) PROVE Later(j)'
        OBVIOUS
      <4>1. run.page \in Nat /\ PageSize \in Nat /\ (run.page - 1) * PageSize \in Int
        BY RunIs, DiscoveryAssumption
      <4> DEFINE off == (run.page - 1) * PageSize
      <4>2. j - 1 > off /\ run.page # None /\ off \in Int
        BY <4>1 DEF Later
      <4> HIDE DEF off
      <4>3. j > off
        BY <2>1, <4>2
      <4> QED BY <1>2, <4>2, <4>3 DEF Later, off
    <3> QED BY <1>2, <1>3, <2>3, <3>2, <3>3, <3>4
  <2> QED BY <2>4, <2>5
<1>7. OrderInv'
  BY <1>6 DEF OrderInv
<1>8. CoverInv'
  BY <1>2, <1>3 DEF LedgerInv, CoverInv
<1> QED BY <1>7, <1>8 DEF LedgerInv

LEMMA EnvironmentLedger ==
  ASSUME BaseInv, LedgerInv, Environment
  PROVE  LedgerInv'
<1>1. CASE \E a \in Article : Publish(a)
  BY <1>1, PublishLedger
<1>2. CASE UNCHANGED <<core, todo, run, forgiven>> /\ site'.listing = site.listing
  <2>1. \A a : /\ Kept(a)' <=> Kept(a)
               /\ Fine(a)' <=> Fine(a)
               /\ InHand(a)' <=> InHand(a)
               /\ HasRecord(a)' <=> HasRecord(a)
    BY <1>2 DEF Kept, Fine, InHand, HasRecord, InCore, Pending
  <2>2. SameStage
    BY <1>2, <2>1 DEF SameStage
  <2> QED BY <1>2, <2>1, <2>2, LedgerStays
<1>3. ASSUME NEW a \in Article, EditPage(a) \/ SpoilEntry(a)
      PROVE  UNCHANGED <<core, todo, run, forgiven>> /\ site'.listing = site.listing
  BY <1>3 DEF EditPage, SpoilEntry, BaseInv, TypeInv
<1>4. NextDay \/ NewRelease => UNCHANGED <<core, todo, run, forgiven>> /\ site'.listing = site.listing
  BY DEF NextDay, NewRelease
<1> QED BY <1>1, <1>2, <1>3, <1>4 DEF Environment

\* A new run has only what stood on the to-do list or in Core in hand.
LEMMA BeginLedger ==
  ASSUME BaseInv, LedgerInv, run.pc = "idle",
         UNCHANGED <<source, site, disk, raw, core, todo, day, release, forgiven>>,
         run'.pc \in {"discover", "process"},
         run'.d.seen = {}, run'.d.selected = {}, run'.produced = {},
         \A a : InHand(a)' => Kept(a)
  PROVE  LedgerInv'
<1>1. \A a : (Kept(a)' <=> Kept(a)) /\ (Fine(a)' <=> Fine(a))
  BY DEF Kept, Fine, InCore, Pending
<1>2. ASSUME NEW i \in 1..Len(site.listing), NEW j \in 1..Len(site.listing), i < j
      PROVE  OrderFits(i, j)'
  <2>0. PICK x, y : x = site.listing[i] /\ y = site.listing[j]
    OBVIOUS
  <2>1. Kept(x) => Fine(y)
    BY <1>2, <2>0 DEF LedgerInv, OrderInv, OrderFits
  <2>2. InHand(x)' => Kept(x)
    OBVIOUS
  <2>3. Kept(x)' \/ InHand(x)' => Fine(y)'
    BY <1>1, <2>1, <2>2
  <2>4. x = site'.listing[i] /\ y = site'.listing[j]
    BY <2>0
  <2> QED BY <2>3, <2>4 DEF OrderFits
<1>3. OrderInv'
  BY <1>2 DEF OrderInv
<1>4. CoverInv'
  BY DEF CoverInv
<1> QED BY <1>3, <1>4 DEF LedgerInv

LEMMA StartLedger ==
  ASSUME BaseInv, LedgerInv, NEW mode \in Mode, Start(mode)
  PROVE  LedgerInv'
<1>1. /\ run.pc = "idle" /\ UNCHANGED <<source, site, disk, raw, core, todo, day, release, forgiven>>
      /\ run'.pc = "discover" /\ run'.d = NewDiscovery(mode, Policy)
      /\ run'.requests = {} /\ run'.entries = {} /\ run'.records = <<>> /\ run'.produced = {}
  BY StartIs
<1>2. run'.d.seen = {} /\ run'.d.selected = {}
  BY <1>1, NewDiscoveryIs
<1>3. \A a : ~InHand(a)'
  BY <1>1 DEF InHand, HasRecord
<1> QED BY <1>1, <1>2, <1>3, BeginLedger

LEMMA RetryLedger ==
  ASSUME BaseInv, LedgerInv, StartRetry
  PROVE  LedgerInv'
<1>1. /\ run.pc = "idle" /\ UNCHANGED <<source, site, disk, raw, core, todo, day, release, forgiven>>
      /\ run'.pc = "discover" /\ run'.d.seen = {} /\ run'.d.selected = {} /\ run'.produced = {}
      /\ run'.requests = {k[2] : k \in ItemsOf("fetch")}
      /\ run'.entries = {k[2] : k \in ItemsOf("json_manifest_entry")}
      /\ \A i \in 1..Len(run'.records) : \E k \in DOMAIN todo : run'.records[i].art = k[2]
  BY RetryIs
<1>2. \A a : InHand(a)' => Kept(a)
  BY <1>1 DEF InHand, HasRecord, Kept, Pending, ItemsOf
<1> QED BY <1>1, <1>2, BeginLedger

LEMMA ReprocessLedger ==
  ASSUME BaseInv, LedgerInv, NEW unread, StartReprocess(unread)
  PROVE  LedgerInv'
<1>1. /\ run.pc = "idle" /\ UNCHANGED <<source, site, disk, raw, core, todo, day, release, forgiven>>
      /\ run'.pc = "process" /\ run'.d.seen = {} /\ run'.d.selected = {} /\ run'.produced = {}
      /\ run'.requests = {} /\ run'.entries = {}
      /\ \A i \in 1..Len(run'.records) : run'.records[i].art \in InCore
  BY ReprocessIs
<1>2. \A a : InHand(a)' => Kept(a)
  BY <1>1 DEF InHand, HasRecord, Kept
<1> QED BY <1>1, <1>2, BeginLedger

\* What stands on the page that is read stands behind the pages read before.
LEMMA PlacesAre ==
  ASSUME BaseInv, run.pc = "discover", run.page # None
  PROVE  \A i \in 1..Len(site.listing) :
           site.listing[i] \in ToSet(Page(Strategy, site.listing, run.page)) =>
             i > (run.page - 1) * PageSize
<1> USE DEF BaseInv
<1>1. /\ site.listing \in Seq(Article) /\ run.page \in Nat \ {0}
      /\ OnePage(Strategy) => run.page = 1
  <2>1. run.page \in Nat /\ (OnePage(Strategy) => run.page <= 1)
    BY RunIs DEF RunInv, RunFits
  <2>2. site.listing \in Seq(Article)
    BY DEF TypeInv
  <2>3. run.page \in Nat \ {0}
    BY <2>1 DEF None
  <2>4. OnePage(Strategy) => run.page = 1
    BY <2>1, <2>3
  <2> QED BY <2>2, <2>3, <2>4
<1> DEFINE links == Page(Strategy, site.listing, run.page)
           off == (run.page - 1) * PageSize
<1>2. PageFits(Strategy, site.listing, run.page, links, off)
  BY <1>1, PageIs
<1> HIDE DEF links, off
<1>3. /\ off \in Nat /\ links \in Seq(Article)
      /\ \A m \in 1..Len(links) : off + m \in 1..Len(site.listing) /\ links[m] = site.listing[off + m]
  BY <1>2 DEF PageFits
<1>4. ASSUME NEW i \in 1..Len(site.listing), site.listing[i] \in ToSet(links)
      PROVE  i > off
  <2>1. PICK m \in 1..Len(links) : links[m] = site.listing[i]
    BY <1>4, <1>3 DEF ToSet
  <2>2. off + m \in 1..Len(site.listing) /\ site.listing[off + m] = site.listing[i]
    BY <1>3, <2>1
  <2>3. i = off + m
    BY <2>2 DEF SiteInv
  <2>4. m \in Nat /\ m > 0
    BY <1>3, <2>1
  <2> QED BY <1>3, <2>3, <2>4
<1> QED BY <1>4 DEF links, off

\* A page is read: its articles are in hand, accounted for or left to the next
\* page, and so is what stands on it behind an article that is new in hand.
LEMMA PageLedger ==
  ASSUME BaseInv, LedgerInv, run.pc = "discover", run.page # None, run'.pc = "discover",
         site'.listing = site.listing,
         \A a : Kept(a)' <=> Kept(a),
         \A a : Fine(a) => Fine(a)',
         \A a : InHand(a) => InHand(a)',
         \A a : InHand(a)' => InHand(a) \/ a \in ToSet(Page(Strategy, site.listing, run.page)),
         CoverInv',
         \A j \in 1..Len(site.listing) : j > (run.page - 1) * PageSize =>
           \/ Fine(site.listing[j])' \/ InHand(site.listing[j])'
           \/ \E i \in 1..(j - 1) : site.listing[i] \in InCore
           \/ run'.page # None /\ j > (run'.page - 1) * PageSize
  PROVE  LedgerInv'
<1>0. Len(site.listing) \in Nat
  BY ListedIs DEF BaseInv
<1>1. ASSUME NEW i \in 1..Len(site.listing), NEW j \in 1..Len(site.listing), i < j
      PROVE  OrderFits(i, j)'
  <2>0. PICK x, y : x = site.listing[i] /\ y = site.listing[j]
    OBVIOUS
  <2>1. /\ Kept(x) => Fine(y)
        /\ InHand(x) => Fine(y) \/ InHand(y) \/ Later(j)
    BY <1>1, <2>0 DEF LedgerInv, OrderInv, OrderFits
  <2>2. j > (run.page - 1) * PageSize => Fine(y)' \/ InHand(y)' \/ Later(j)'
    <3> SUFFICES ASSUME j > (run.page - 1) * PageSize
                 PROVE  Fine(y)' \/ InHand(y)' \/ Later(j)'
      OBVIOUS
    <3>1. \/ Fine(site.listing[j])' \/ InHand(site.listing[j])'
          \/ \E h \in 1..(j - 1) : site.listing[h] \in InCore
          \/ Later(j)'
      BY DEF Later
    <3>2. ASSUME NEW h \in 1..(j - 1), site.listing[h] \in InCore
          PROVE  Fine(y)'
      <4>1. h \in 1..Len(site.listing) /\ h < j
        BY <1>0
      <4>2. OrderFits(h, j)
        BY <4>1 DEF LedgerInv, OrderInv
      <4>3. Fine(y)
        BY <2>0, <3>2, <4>2 DEF OrderFits, Kept
      <4> QED BY <4>3
    <3>3. site'.listing[j] = y
      BY <2>0
    <3>4. Fine(site.listing[j])' \/ InHand(site.listing[j])' => Fine(y)' \/ InHand(y)'
      BY <3>3
    <3> QED BY <3>1, <3>2, <3>4
  <2>3. InHand(x) /\ Later(j) => Fine(y)' \/ InHand(y)' \/ Later(j)'
    BY <2>2 DEF Later
  <2>4. InHand(x)' => InHand(x) \/ j > (run.page - 1) * PageSize
    <3> SUFFICES ASSUME x \in ToSet(Page(Strategy, site.listing, run.page))
                 PROVE  j > (run.page - 1) * PageSize
      OBVIOUS
    <3>1. i > (run.page - 1) * PageSize
      BY <2>0, PlacesAre
    <3>2. (run.page - 1) * PageSize \in Int
      BY RunIs, DiscoveryAssumption DEF BaseInv
    <3> QED BY <1>1, <3>1, <3>2
  <2>5. x = site'.listing[i] /\ y = site'.listing[j]
    BY <2>0
  <2>6. /\ Kept(x)' => Fine(y)'
        /\ InHand(x)' => Fine(y)' \/ InHand(y)' \/ Later(j)'
    BY <2>1, <2>2, <2>3, <2>4
  <2> QED BY <2>5, <2>6 DEF OrderFits
<1>2. OrderInv'
  BY <1>1 DEF OrderInv
<1> QED BY <1>2 DEF LedgerInv

LEMMA ListPageLedger ==
  ASSUME BaseInv, LedgerInv, NEW unnamed \in SUBSET Article, NEW unread \in SUBSET Article,
         ListPage(unnamed, unread)
  PROVE  LedgerInv'
<1> DEFINE links == Page(Strategy, site.listing, run.page)
<1>1. /\ run.pc = "discover" /\ run.page # None /\ run'.pc = "discover"
      /\ UNCHANGED <<source, site, core, todo>> /\ run'.mode = run.mode
      /\ run'.records = run.records /\ run'.produced = run.produced
      /\ run'.requests = run.requests \cup (run'.d.selected \ run.d.selected)
      /\ run'.d.selected \subseteq run.d.selected \cup ToSet(links)
      /\ unread \subseteq ToSet(links)
      /\ forgiven' = forgiven \cup ((unnamed \cup unread) \ InCore)
  BY ListPageIs
<1>2. /\ run.entries \subseteq run'.entries /\ run'.entries \subseteq run.entries \cup ToSet(links)
      /\ \A a \in run'.d.seen : a \in run.d.seen \/ a \in unread \/ a \in InCore \/ a \in run'.d.selected
  BY ListPageIs
<1>3. \A j \in 1..Len(site.listing) : j > (run.page - 1) * PageSize =>
        \/ site.listing[j] \in run'.d.seen \cup forgiven' \cup run'.entries \cup InCore
        \/ \E i \in 1..(j - 1) : site.listing[i] \in InCore
        \/ run'.page # None /\ j > (run'.page - 1) * PageSize
  BY ListPageIs
<1> HIDE DEF links
<1>4. \A a : /\ Kept(a)' <=> Kept(a)
             /\ Fine(a) => Fine(a)'
             /\ HasRecord(a)' <=> HasRecord(a)
             /\ InHand(a) => InHand(a)'
             /\ InHand(a)' => InHand(a) \/ a \in ToSet(links)
  BY <1>1, <1>2 DEF Kept, Fine, InHand, HasRecord, InCore, Pending
<1>5. \A a \in run'.d.seen \cup run'.d.selected : Fine(a)' \/ InHand(a)'
  <2> SUFFICES ASSUME NEW a \in run'.d.seen \cup run'.d.selected PROVE Fine(a)' \/ InHand(a)'
    OBVIOUS
  <2>1. CASE a \in run.d.seen \cup run.d.selected
    BY <1>1, <1>4, <2>1 DEF LedgerInv, CoverInv
  <2>2. CASE a \in unread
    BY <1>1, <2>2 DEF Fine, InCore
  <2>3. CASE a \in InCore
    BY <1>1, <2>3 DEF Fine, InCore
  <2>4. CASE a \in run'.d.selected \ run.d.selected
    BY <1>1, <2>4 DEF InHand
  <2> QED BY <1>2, <2>1, <2>2, <2>3, <2>4
<1>6. CoverInv'
  <2>1. run'.pc # "idle" /\ run'.mode \in {"INITIAL", "INCREMENTAL"} =>
          \A a \in run'.produced : HasRecord(a)'
    BY <1>1, <1>4 DEF LedgerInv, CoverInv
  <2> QED BY <1>5, <2>1 DEF CoverInv
<1>7. ASSUME NEW j \in 1..Len(site.listing), j > (run.page - 1) * PageSize
      PROVE  \/ Fine(site.listing[j])' \/ InHand(site.listing[j])'
             \/ \E i \in 1..(j - 1) : site.listing[i] \in InCore
             \/ run'.page # None /\ j > (run'.page - 1) * PageSize
  <2>0. PICK y : y = site.listing[j]
    OBVIOUS
  <2>1. y \in run'.d.seen \cup forgiven' \cup run'.entries \cup InCore => Fine(y)' \/ InHand(y)'
    BY <1>1, <1>5 DEF Fine, InHand, InCore
  <2>2. site'.listing[j] = y
    BY <1>1, <2>0
  <2>3. Fine(y)' \/ InHand(y)' => Fine(site.listing[j])' \/ InHand(site.listing[j])'
    BY <2>2
  <2> QED BY <1>3, <1>7, <2>0, <2>1, <2>3
<1>8. site'.listing = site.listing
  BY <1>1
<1> QED BY <1>1, <1>4, <1>6, <1>7, <1>8, PageLedger DEF links

LEMMA PageLostLedger ==
  ASSUME BaseInv, LedgerInv, PageLost
  PROVE  LedgerInv'
<1>1. /\ run.pc = "discover" /\ run.page # None /\ run'.pc = "discover" /\ run'.page = None
      /\ UNCHANGED <<source, site, core, todo>> /\ run'.mode = run.mode
      /\ run'.d.seen = run.d.seen /\ run'.d.selected = run.d.selected
      /\ run'.records = run.records /\ run'.produced = run.produced
      /\ run'.requests = run.requests /\ run'.entries = run.entries
      /\ forgiven' = forgiven \cup (Listed \ (run.d.seen \cup InCore))
  BY PageLostIs
<1>2. \A a : /\ Kept(a)' <=> Kept(a)
             /\ Fine(a) => Fine(a)'
             /\ HasRecord(a)' <=> HasRecord(a)
             /\ InHand(a)' <=> InHand(a)
  BY <1>1 DEF Kept, Fine, InHand, HasRecord, InCore, Pending
<1>3. CoverInv'
  BY <1>1, <1>2 DEF LedgerInv, CoverInv
<1>4. ASSUME NEW j \in 1..Len(site.listing)
      PROVE  Fine(site.listing[j])' \/ InHand(site.listing[j])'
  <2>0. PICK y : y = site.listing[j]
    OBVIOUS
  <2>1. y \in Listed
    BY <2>0, ListedIs DEF BaseInv
  <2>2. y \in run.d.seen => Fine(y) \/ InHand(y)
    BY <1>1 DEF LedgerInv, CoverInv
  <2>3. y \notin run.d.seen => Fine(y)'
    BY <1>1, <2>1 DEF Fine, InCore
  <2>4. site'.listing[j] = y /\ (Fine(y)' \/ InHand(y)')
    BY <1>1, <1>2, <2>0, <2>2, <2>3
  <2> QED BY <2>4
<1>5. site'.listing = site.listing
  BY <1>1
<1> QED BY <1>1, <1>2, <1>3, <1>4, <1>5, PageLedger

LEMMA CollectPageLedger ==
  ASSUME BaseInv, LedgerInv, NEW unchecked, CollectPage(unchecked)
  PROVE  LedgerInv'
<1> DEFINE links == Page(Strategy, site.listing, run.page)
           fresh == ToSet(links) \ run.produced
<1>1. /\ run.pc = "discover" /\ run.page # None /\ run'.pc = "discover"
      /\ run.mode \in {"INITIAL", "INCREMENTAL"}
      /\ UNCHANGED <<source, site, core, todo, forgiven>>
      /\ run'.d.seen \subseteq run.d.seen \cup ToSet(links) /\ run'.d.selected = {}
      /\ run'.requests = run.requests /\ run'.entries = run.entries
      /\ run'.produced = run.produced \cup fresh
  BY CollectPageIs
<1>2. /\ \A i \in 1..Len(run.records) :
           i \in 1..Len(run'.records) /\ run'.records[i] = run.records[i]
      /\ \A i \in 1..Len(run'.records) :
           \/ i \in 1..Len(run.records) /\ run'.records[i] = run.records[i]
           \/ run'.records[i].art \in fresh
      /\ \A a \in fresh : \E i \in 1..Len(run'.records) : run'.records[i].art = a
  BY CollectPageIs
<1>3. \A j \in 1..Len(site.listing) : j > (run.page - 1) * PageSize =>
        \/ site.listing[j] \in ToSet(links)
        \/ \E i \in 1..(j - 1) : site.listing[i] \in InCore
        \/ run'.page # None /\ j > (run'.page - 1) * PageSize
  BY CollectPageIs
<1> HIDE DEF links
<1>4. \A a : /\ HasRecord(a) => HasRecord(a)'
             /\ HasRecord(a)' => HasRecord(a) \/ a \in ToSet(links)
             /\ a \in fresh => HasRecord(a)'
  BY <1>2 DEF HasRecord
<1>5. \A a : /\ Kept(a)' <=> Kept(a)
             /\ Fine(a)' <=> Fine(a)
             /\ InHand(a) => InHand(a)'
             /\ InHand(a)' => InHand(a) \/ a \in ToSet(links)
  BY <1>1, <1>4 DEF Kept, Fine, InHand, InCore, Pending
<1>6. \A a \in run'.produced : HasRecord(a)'
  BY <1>1, <1>4 DEF LedgerInv, CoverInv
<1>7. \A a \in ToSet(links) : HasRecord(a)'
  BY <1>1, <1>6
<1>8. CoverInv'
  <2>1. \A a \in run'.d.seen \cup run'.d.selected : Fine(a)' \/ InHand(a)'
    BY <1>1, <1>5, <1>7 DEF LedgerInv, CoverInv, InHand
  <2> QED BY <1>6, <2>1 DEF CoverInv
<1>9. ASSUME NEW j \in 1..Len(site.listing), j > (run.page - 1) * PageSize
      PROVE  \/ Fine(site.listing[j])' \/ InHand(site.listing[j])'
             \/ \E i \in 1..(j - 1) : site.listing[i] \in InCore
             \/ run'.page # None /\ j > (run'.page - 1) * PageSize
  <2>0. PICK y : y = site.listing[j]
    OBVIOUS
  <2>1. y \in ToSet(links) => InHand(y)'
    BY <1>7 DEF InHand
  <2>2. site'.listing[j] = y
    BY <1>1, <2>0
  <2>3. InHand(y)' => InHand(site.listing[j])'
    BY <2>2
  <2> QED BY <1>3, <1>9, <2>0, <2>1, <2>3
<1>10. site'.listing = site.listing
  BY <1>1
<1> QED BY <1>1, <1>5, <1>8, <1>9, <1>10, PageLedger DEF links

\* An answer turns a request into a record.
LEMMA AnswersLedger ==
  ASSUME BaseInv, LedgerInv, NEW a \in Article, NEW rec, Answers(a, rec)
  PROVE  LedgerInv'
<1>1. /\ UNCHANGED <<source, site, core, todo, forgiven>>
      /\ run.pc = "discover" /\ run'.pc = run.pc /\ run'.mode = run.mode /\ run'.d = run.d
      /\ run'.page = run.page /\ run'.produced = run.produced \cup {a} /\ rec.art = a
      /\ \/ /\ a \in run.requests
            /\ run'.requests = run.requests \ {a} /\ run'.entries = run.entries
         \/ /\ a \in run.entries
            /\ run'.requests = run.requests /\ run'.entries = run.entries \ {a}
      /\ Len(run'.records) = Len(run.records) + 1
      /\ run'.records[Len(run.records) + 1] = rec
      /\ \A i \in 1..Len(run.records) : run'.records[i] = run.records[i]
  BY DEF Answers
<1>2. Len(run.records) \in Nat
  BY <1>1, RunIs DEF BaseInv
<1>3. \A b : HasRecord(b)' <=> HasRecord(b) \/ b = a
  BY <1>1, <1>2 DEF HasRecord
<1>4. \A b : /\ Kept(b)' <=> Kept(b)
             /\ Fine(b)' <=> Fine(b)
             /\ InHand(b)' <=> InHand(b)
  BY <1>1, <1>3 DEF Kept, Fine, InHand, InCore, Pending
<1>5. SameStage
  BY <1>1, <1>3, <1>4 DEF SameStage
<1>6. site'.listing = site.listing
  BY <1>1
<1> QED BY <1>4, <1>5, <1>6, LedgerStays

LEMMA DetailLedger ==
  ASSUME BaseInv, LedgerInv, NEW a \in Article,
         FetchDetail(a) \/ DetailFailed(a) \/ DetailMissing(a) \/ RetryEntry(a)
  PROVE  LedgerInv'
<1>1. CASE \E rec : Answers(a, rec)
  BY <1>1, AnswersLedger
<1>2. CASE DetailMissing(a)
  <2>1. /\ UNCHANGED <<source, site, core, todo>> /\ forgiven' = forgiven \cup ({a} \ InCore)
        /\ run'.pc = run.pc /\ run'.mode = run.mode /\ run'.d = run.d /\ run'.page = run.page
        /\ run'.produced = run.produced /\ run'.records = run.records
        /\ run'.requests = run.requests \ {a} /\ run'.entries = run.entries
    BY <1>2, MissingIs
  <2>2. \A b : /\ Kept(b)' <=> Kept(b)
               /\ Fine(b) => Fine(b)'
               /\ HasRecord(b)' <=> HasRecord(b)
               /\ InHand(b)' => InHand(b)
    BY <2>1 DEF Kept, Fine, InHand, HasRecord, InCore, Pending
  <2>3. \A b : InHand(b) => InHand(b)' \/ Fine(b)'
    BY <2>1 DEF Fine, InHand, HasRecord, InCore
  <2>4. SameStage
    BY <2>1, <2>2, <2>3 DEF SameStage
  <2>5. site'.listing = site.listing
    BY <2>1
  <2> QED BY <2>2, <2>4, <2>5, LedgerStays
<1>3. CASE RetryEntry(a) /\ ~\E rec : Answers(a, rec)
  <2>1. /\ UNCHANGED <<source, site, core, todo, forgiven>>
        /\ run'.pc = run.pc /\ run'.mode = run.mode /\ run'.d = run.d /\ run'.page = run.page
        /\ run'.produced = run.produced /\ run'.records = run.records /\ a \in run.entries
        /\ run'.requests = run.requests \cup {a} /\ run'.entries = run.entries \ {a}
    BY <1>3, RetryEntryIs, Zenon
  <2>2. \A b : /\ Kept(b)' <=> Kept(b)
               /\ Fine(b)' <=> Fine(b)
               /\ HasRecord(b)' <=> HasRecord(b)
               /\ InHand(b)' <=> InHand(b)
    BY <2>1 DEF Kept, Fine, InHand, HasRecord, InCore, Pending
  <2>4. SameStage
    BY <2>1, <2>2 DEF SameStage
  <2>5. site'.listing = site.listing
    BY <2>1
  <2> QED BY <2>2, <2>4, <2>5, LedgerStays
<1>4. FetchDetail(a) => \E rec : Answers(a, rec)
  BY FetchIs
<1>5. DetailFailed(a) => \E rec : Answers(a, rec)
  BY FailedIs
<1> QED BY <1>1, <1>2, <1>3, <1>4, <1>5

\* The records of a run keep their articles while they are persisted and
\* processed; Core grows by the article at hand.
LEMMA TurnsLedger ==
  ASSUME BaseInv, LedgerInv, NEW rec, Turns(rec),
         InCore' = InCore \/ (run.pc = "process" /\ InCore' = InCore \cup {Here.art})
  PROVE  LedgerInv'
<1>1. /\ UNCHANGED <<source, site, todo, forgiven>> /\ run.next \in 1..Len(run.records)
      /\ run'.pc = run.pc /\ run'.mode = run.mode /\ run'.d = run.d
      /\ run'.page = run.page /\ run'.requests = run.requests /\ run'.entries = run.entries
      /\ run'.produced = run.produced
      /\ Len(run'.records) = Len(run.records) /\ run'.records[run.next] = rec
      /\ rec.art = run.records[run.next].art
      /\ \A i \in 1..Len(run.records) : i # run.next => run'.records[i] = run.records[i]
  BY DEF Turns, Here
<1>2. \A b : HasRecord(b)' <=> HasRecord(b)
  BY <1>1 DEF HasRecord
<1>3. \A b : InHand(b)' <=> InHand(b)
  BY <1>1, <1>2 DEF InHand
<1>4. HasRecord(Here.art)
  BY <1>1 DEF HasRecord, Here
<1>5. \A b : /\ Kept(b)' => Kept(b) \/ (run.pc = "process" /\ InHand(b))
             /\ Fine(b) => Fine(b)'
  BY <1>1, <1>4 DEF Kept, Fine, InHand, Pending
<1>6. SameStage
  BY <1>1, <1>2, <1>3 DEF SameStage
<1>7. site'.listing = site.listing
  BY <1>1
<1> QED BY <1>5, <1>6, <1>7, LedgerStays

LEMMA RecordsLedger ==
  ASSUME BaseInv, LedgerInv, Persist \/ ProcessRecord \/ ProcessFails \/ PassOver
  PROVE  LedgerInv'
<1>1. CASE Persist
  <2>1. core' = core /\ \E rec : Turns(rec)
    BY <1>1, PersistIs
  <2> QED BY <2>1, TurnsLedger DEF InCore
<1>2. CASE ProcessRecord
  <2>1. run.pc = "process" /\ InCore' = InCore \cup {Here.art} /\ \E rec : Turns(rec)
    BY <1>2, ProcessRecordIs
  <2> QED BY <2>1, TurnsLedger
<1>3. CASE ProcessFails \/ PassOver
  <2>1. core' = core /\ \E rec : Turns(rec)
    BY <1>3, PassesIs
  <2> QED BY <2>1, TurnsLedger DEF InCore
<1> QED BY <1>1, <1>2, <1>3

\* The stages follow one another when nothing more is to be read.
LEMMA StageLedger ==
  ASSUME BaseInv, LedgerInv, Acquired \/ Persisted
  PROVE  LedgerInv'
<1>1. /\ UNCHANGED <<source, site, disk, raw, core, todo, day, release, forgiven>>
      /\ run'.mode = run.mode /\ run'.d = run.d /\ run.page = None
      /\ run'.requests = {} /\ run.requests = {} /\ run'.entries = run.entries
      /\ run'.produced = run.produced /\ run'.records = run.records
      /\ \/ run.pc = "discover" /\ run'.pc = "persist"
         \/ run.pc = "persist" /\ run'.pc = "process"
  BY StageBase
<1>2. \A a : /\ Kept(a)' <=> Kept(a)
             /\ Fine(a)' <=> Fine(a)
             /\ HasRecord(a)' <=> HasRecord(a)
             /\ InHand(a)' <=> InHand(a)
  BY <1>1 DEF Kept, Fine, InHand, HasRecord, InCore, Pending
<1>3. ASSUME NEW i \in 1..Len(site.listing), NEW j \in 1..Len(site.listing), i < j
      PROVE  OrderFits(i, j)'
  <2>0. PICK x, y : x = site.listing[i] /\ y = site.listing[j]
    OBVIOUS
  <2>1. OrderFits(i, j)
    BY <1>3 DEF LedgerInv, OrderInv
  <2>2. ~Later(j)
    BY <1>1 DEF Later
  <2>3. /\ run.pc # "process" /\ Kept(x) => Fine(y)
        /\ run.pc = "discover" /\ InHand(x) => Fine(y) \/ InHand(y)
        /\ run.pc \in {"persist", "process"} /\ (Kept(x) \/ InHand(x)) => Fine(y) \/ InHand(y)
    BY <2>0, <2>1, <2>2 DEF OrderFits
  <2>4. /\ run'.pc # "process" /\ Kept(x)' => Fine(y)'
        /\ run'.pc # "discover"
        /\ Kept(x)' \/ InHand(x)' => Fine(y)' \/ InHand(y)'
    BY <1>1, <1>2, <2>3
  <2>5. x = site'.listing[i] /\ y = site'.listing[j]
    BY <1>1, <2>0
  <2> QED BY <2>4, <2>5 DEF OrderFits
<1>4. OrderInv'
  BY <1>1, <1>3 DEF OrderInv
<1>5. CoverInv'
  BY <1>1, <1>2 DEF LedgerInv, CoverInv
<1> QED BY <1>4, <1>5 DEF LedgerInv

\* The to-do list takes over what the run had in hand.
LEMMA UpdateLedger ==
  ASSUME BaseInv, LedgerInv, UpdateTodo
  PROVE  LedgerInv'
<1>1. /\ run.pc = "process" /\ UNCHANGED <<source, site, core>> /\ run'.pc = "todo"
      /\ run'.mode = run.mode /\ run'.records = run.records /\ run'.produced = run.produced
      /\ forgiven' = forgiven \
           {run.records[i].art : i \in {j \in 1..Len(run.records) : run.records[j].state = "done"}}
  BY UpdateIs
<1>2. run.requests = {} /\ (run.mode = "RETRY" => run.entries = {})
  BY <1>1 DEF BaseInv, RunInv, RunFits
<1>3. \A i \in 1..Len(run.records) : run.records[i].state = "done" => run.records[i].art \in InCore
  BY <1>1 DEF BaseInv, RecordInv, RecordFits
<1>4. \A a : Pending(a) \/ InHand(a) => Fine(a)'
  <2> SUFFICES ASSUME NEW a, Pending(a) \/ InHand(a) PROVE Fine(a)'
    OBVIOUS
  <2>1. \/ Pending(a)
        \/ run.mode # "RETRY" /\ a \in run.entries
        \/ \E i \in 1..Len(run.records) : run.records[i].art = a
    BY <1>2 DEF InHand, HasRecord
  <2>2. \/ Pending(a)'
        \/ \E i \in 1..Len(run.records) :
             run.records[i].art = a /\ run.records[i].state = "done"
    BY <2>1, UpdateIs
  <2> QED BY <1>1, <1>3, <2>2 DEF Fine, InCore
<1>5. \A a : Fine(a) => Fine(a)'
  <2> SUFFICES ASSUME NEW a, Fine(a) PROVE Fine(a)'
    OBVIOUS
  <2>1. CASE a \in forgiven
    BY <1>1, <1>3, <2>1 DEF Fine, InCore
  <2>2. CASE a \in InCore
    BY <1>1, <2>2 DEF Fine, InCore
  <2>3. CASE Pending(a)
    BY <1>4, <2>3
  <2> QED BY <2>1, <2>2, <2>3 DEF Fine
<1>6. \A a : Kept(a)' => Kept(a) \/ InHand(a)
  <2> SUFFICES ASSUME NEW a, Pending(a)' PROVE Kept(a) \/ InHand(a)
    BY <1>1 DEF Kept, InCore
  <2>1. PICK k \in DOMAIN todo' : k[2] = a
    BY DEF Pending
  <2>2. CASE k \in DOMAIN todo
    BY <2>1, <2>2 DEF Kept, Pending
  <2>3. CASE k[2] \in run.entries
    BY <2>1, <2>3 DEF InHand
  <2>4. ASSUME NEW i \in 1..Len(run.records), k = FirstKey(run.records[i])
        PROVE  InHand(a)
    <3>1. FirstKey(run.records[i])[2] = run.records[i].art
      BY DEF FirstKey
    <3> QED BY <2>1, <2>4, <3>1 DEF InHand, HasRecord
  <2> QED BY <2>2, <2>3, <2>4, UpdateIs
<1>7. ASSUME NEW i \in 1..Len(site.listing), NEW j \in 1..Len(site.listing), i < j
      PROVE  OrderFits(i, j)'
  <2>0. PICK x, y : x = site.listing[i] /\ y = site.listing[j]
    OBVIOUS
  <2>1. Kept(x) \/ InHand(x) => Fine(y) \/ InHand(y)
    BY <1>1, <1>7, <2>0 DEF LedgerInv, OrderInv, OrderFits
  <2>2. Kept(x)' => Fine(y)'
    BY <1>4, <1>5, <1>6, <2>1
  <2>3. x = site'.listing[i] /\ y = site'.listing[j]
    BY <1>1, <2>0
  <2> QED BY <1>1, <2>2, <2>3 DEF OrderFits
<1>8. OrderInv'
  BY <1>1, <1>7 DEF OrderInv
<1>9. CoverInv'
  <2>1. \A a : HasRecord(a)' <=> HasRecord(a)
    BY <1>1 DEF HasRecord
  <2> QED BY <1>1, <2>1 DEF LedgerInv, CoverInv
<1> QED BY <1>8, <1>9 DEF LedgerInv

\* A run ends: with its report, or cut short, and then every listed article is
\* forgiven.
LEMMA EndLedger ==
  ASSUME BaseInv, LedgerInv, Crash \/ \E s \in {"SUCCESS", "PARTIAL", "FAILED"} : Report(s)
  PROVE  LedgerInv'
<1>1. /\ run' = Idle /\ run'.pc = "idle" /\ run.pc # "idle"
      /\ UNCHANGED <<source, site, disk, raw, core, todo, day, release>>
  BY DEF Crash, Report, Idle
<1>2. \A a : (Kept(a)' <=> Kept(a)) /\ (Pending(a)' <=> Pending(a)) /\ InCore' = InCore
  BY <1>1 DEF Kept, Pending, InCore
<1>3. ASSUME NEW i \in 1..Len(site.listing), NEW j \in 1..Len(site.listing), i < j
      PROVE  OrderFits(i, j)'
  <2>0. PICK x, y : x = site.listing[i] /\ y = site.listing[j]
    OBVIOUS
  <2>1. CASE Crash
    <3>1. y \in Listed /\ forgiven' = forgiven \cup Listed
      BY <2>0, <2>1, ListedIs DEF BaseInv, Crash
    <3> QED BY <1>1, <2>0, <3>1 DEF OrderFits, Fine
  <2>2. CASE \E s \in {"SUCCESS", "PARTIAL", "FAILED"} : Report(s)
    <3>1. forgiven' = forgiven /\ \/ run.pc = "todo"
                                  \/ run.pc = "process" /\ run.mode = "REPROCESS"
      BY <2>2 DEF Report
    <3>2. Fine(y)' <=> Fine(y)
      BY <1>2, <3>1 DEF Fine
    <3>3. Kept(x) => Fine(y)
      <4>1. CASE run.pc = "todo"
        BY <1>3, <2>0, <4>1 DEF LedgerInv, OrderInv, OrderFits
      <4>2. CASE run.pc = "process" /\ run.mode = "REPROCESS"
        <5>1. Kept(x) => Fine(y) \/ InHand(y)
          BY <1>3, <2>0, <4>2 DEF LedgerInv, OrderInv, OrderFits
        <5>2. run.requests = {} /\ run.entries = {}
          BY <4>2 DEF BaseInv, RunInv, RunFits
        <5>3. HasRecord(y) => y \in InCore
          BY <4>2 DEF HasRecord, BaseInv, RecordInv, RecordFits
        <5> QED BY <5>1, <5>2, <5>3 DEF InHand, Fine
      <4> QED BY <3>1, <4>1, <4>2
    <3>4. x = site'.listing[i] /\ y = site'.listing[j]
      BY <1>1, <2>0
    <3> QED BY <1>1, <1>2, <3>2, <3>3, <3>4 DEF OrderFits
  <2> QED BY <2>1, <2>2
<1>4. OrderInv'
  BY <1>1, <1>3 DEF OrderInv
<1>5. CoverInv'
  BY <1>1 DEF CoverInv
<1> QED BY <1>4, <1>5 DEF LedgerInv

LEMMA LedgerInit == Init => LedgerInv
<1> SUFFICES ASSUME Init PROVE LedgerInv
  OBVIOUS
<1>1. run.pc = "idle" /\ Len(site.listing) = 0
  BY DEF Init, Idle
<1> QED BY <1>1 DEF LedgerInv, OrderInv, CoverInv

LEMMA LedgerStep == BaseInv /\ LedgerInv /\ [Next]_vars => LedgerInv'
<1> SUFFICES ASSUME BaseInv, LedgerInv, [Next]_vars PROVE LedgerInv'
  OBVIOUS
<1>1. CASE Environment
  BY <1>1, EnvironmentLedger
<1>2. CASE Acquire
  <2>1. ASSUME NEW mode \in Mode, Start(mode) PROVE LedgerInv'
    BY <2>1, StartLedger
  <2>2. CASE StartRetry
    BY <2>2, RetryLedger
  <2>3. ASSUME NEW unread \in SUBSET Article, StartReprocess(unread) PROVE LedgerInv'
    BY <2>3, ReprocessLedger
  <2>4. ASSUME NEW unnamed \in SUBSET Article, NEW unread \in SUBSET Article,
               ListPage(unnamed, unread)
        PROVE  LedgerInv'
    BY <2>4, ListPageLedger
  <2>5. CASE PageLost
    BY <2>5, PageLostLedger
  <2>6. ASSUME NEW unchecked \in SUBSET Article, CollectPage(unchecked) PROVE LedgerInv'
    BY <2>6, CollectPageLedger
  <2>7. ASSUME NEW a \in Article,
               FetchDetail(a) \/ DetailFailed(a) \/ DetailMissing(a) \/ RetryEntry(a)
        PROVE  LedgerInv'
    BY <2>7, DetailLedger
  <2>8. CASE Acquired
    BY <2>8, StageLedger
  <2> QED BY <1>2, <2>1, <2>2, <2>3, <2>4, <2>5, <2>6, <2>7, <2>8 DEF Acquire
<1>3. CASE Process
  <2>1. CASE Persist \/ ProcessRecord \/ ProcessFails \/ PassOver
    BY <2>1, RecordsLedger
  <2>2. CASE Persisted
    BY <2>2, StageLedger
  <2>3. CASE UpdateTodo
    BY <2>3, UpdateLedger
  <2>4. CASE \E s \in {"SUCCESS", "PARTIAL", "FAILED"} : Report(s)
    BY <2>4, EndLedger
  <2> QED BY <1>3, <2>1, <2>2, <2>3, <2>4 DEF Process
<1>4. CASE Crash
  BY <1>4, EndLedger
<1>5. CASE UNCHANGED vars
  <2>1. /\ UNCHANGED <<core, todo, run, forgiven>> /\ site'.listing = site.listing
    BY <1>5 DEF vars
  <2>2. \A a : /\ Kept(a)' <=> Kept(a)
               /\ Fine(a)' <=> Fine(a)
               /\ InHand(a)' <=> InHand(a)
               /\ HasRecord(a)' <=> HasRecord(a)
    BY <2>1 DEF Kept, Fine, InHand, HasRecord, InCore, Pending
  <2>3. SameStage
    BY <2>1, <2>2 DEF SameStage
  <2> QED BY <2>1, <2>2, <2>3, LedgerStays
<1> QED BY <1>1, <1>2, <1>3, <1>4, <1>5 DEF Next

\* What a run has examined, kept or in hand accounts for the older articles, on
\* every way through a run and through its failures.
THEOREM LedgerCorrect == Spec => [](BaseInv /\ LedgerInv)
BY BaseInit, BaseStep, LedgerInit, LedgerStep, PTL DEF Spec

\* An INCREMENTAL run stops behind Threshold articles that Core knows, so an
\* older article that Core lacks is on the to-do list or was reported.
THEOREM NothingForgottenHolds == Spec => []NothingForgotten
<1>1. BaseInv /\ LedgerInv => NothingForgotten
  <2> SUFFICES ASSUME BaseInv, LedgerInv, run.pc = "idle", NEW a \in Listed, Behind(a),
                      a \notin InCore
               PROVE  Pending(a) \/ a \in forgiven
    BY DEF NothingForgotten
  <2>1. PICK i, j \in 1..Len(site.listing) :
          /\ site.listing[j] = a /\ i + Threshold <= j
          /\ \A k \in i..(i + Threshold - 1) : site.listing[k] \in InCore
    BY DEF Behind
  <2>2. i \in Nat /\ j \in Nat /\ Threshold \in Nat \ {0}
    BY ListedIs, DiscoveryAssumption DEF BaseInv
  <2>3. i < j /\ site.listing[i] \in InCore
    BY <2>1, <2>2
  <2>4. OrderFits(i, j)
    BY <2>3 DEF LedgerInv, OrderInv
  <2> QED BY <2>1, <2>3, <2>4 DEF OrderFits, Kept, Fine
<1> QED BY <1>1, LedgerCorrect, PTL

(***************************************************************************)
(* A reported success is complete                                          *)
(***************************************************************************)
\* What discovery has seen is known, or the run will account for it.
SeenInv ==
  run.pc # "idle" =>
    /\ \A a \in run.d.seen : \/ a \in InCore \/ run.d.failed \/ a \in run.d.selected
                             \/ Strategy = "api" /\ HasRecord(a)
    /\ Strategy = "api" => run.d.selected = {}

\* An item of the to-do list is answered by a request or a record with its key.
Answered(k) ==
  /\ k[1] = "record" => k[2] \in run.requests \/ HasRecord(k[2])
  /\ k[1] = "path" =>
       \E i \in 1..Len(run.records) : run.records[i].art = k[2] /\ run.records[i].path = k[3]
  /\ k[1] = "entry" =>
       \/ k[2] \in run.requests \/ k[2] \in run.entries
       \/ \E i \in 1..Len(run.records) : run.records[i].art = k[2] /\ run.records[i].entry

Asked == Len(run.records) + Cardinality(run.requests) + Cardinality(run.entries)

\* A RETRY that lost an answer has fewer records than items.
CountInv ==
  run.pc \in {"discover", "persist", "process"} /\ run.mode = "RETRY" =>
    /\ Asked <= Cardinality(run.items)
    /\ Asked = Cardinality(run.items) => \A k \in run.items : Answered(k)

RetriedInv ==
  /\ run.pc = "todo" /\ run.mode = "RETRY"
  /\ Len(run.records) >= Cardinality(run.items)
  /\ \A i \in 1..Len(run.records) : run.records[i].state = "done"
  => run.items \cap DOMAIN todo = {}

AuditInv == SeenInv /\ CountInv /\ RetriedInv

LEMMA AskedIs ==
  ASSUME BaseInv, run.pc # "idle"
  PROVE  /\ IsFiniteSet(run.requests) /\ IsFiniteSet(run.entries)
         /\ Cardinality(run.requests) \in Nat /\ Cardinality(run.entries) \in Nat
         /\ Len(run.records) \in Nat /\ Asked \in Nat
         /\ run.mode = "RETRY" /\ run.pc # "todo" => Cardinality(run.items) \in Nat
<1> USE DEF BaseInv
<1>1. run.requests \cup run.entries \subseteq Listed /\ IsFiniteSet(Listed)
  BY ListedIs DEF RunInv
<1>2. IsFiniteSet(run.requests) /\ IsFiniteSet(run.entries)
  <2>1. run.requests \in SUBSET Listed /\ run.entries \in SUBSET Listed
    BY <1>1
  <2> QED BY <1>1, <2>1, FS_Subset
<1>3. Cardinality(run.requests) \in Nat /\ Cardinality(run.entries) \in Nat
  BY <1>2, FS_CardinalityType
<1>4. Len(run.records) \in Nat
  BY RunIs
<1>5. run.mode = "RETRY" /\ run.pc # "todo" => Cardinality(run.items) \in Nat
  <2>1. run.mode = "RETRY" /\ run.pc # "todo" => run.items = DOMAIN todo
    BY DEF RunInv
  <2>2. Cardinality(DOMAIN todo) \in Nat
    BY ItemMapsAre, FS_CardinalityType DEF TypeInv
  <2> QED BY <2>1, <2>2
<1> QED BY <1>2, <1>3, <1>4, <1>5 DEF Asked

\* No further answer is lost, or one more.
LEMMA AuditStays ==
  ASSUME BaseInv, AuditInv, run.pc \in {"discover", "persist", "process"},
         run'.pc \in {"discover", "persist", "process"}, run'.mode = run.mode, run'.d = run.d,
         run'.items = run.items, Strategy' = Strategy, InCore \subseteq InCore',
         \A a : HasRecord(a) => HasRecord(a)',
         \/ Asked' = Asked - 1
         \/ Asked' = Asked /\ \A k \in run.items : Answered(k) => Answered(k)'
  PROVE  AuditInv'
<1>1. SeenInv'
  <2>1. \A a \in run.d.seen : \/ a \in InCore \/ run.d.failed \/ a \in run.d.selected
                              \/ Strategy = "api" /\ HasRecord(a)
    BY DEF AuditInv, SeenInv
  <2>2. \A a \in run'.d.seen : \/ a \in InCore' \/ run'.d.failed \/ a \in run'.d.selected
                               \/ Strategy' = "api" /\ HasRecord(a)'
    BY <2>1
  <2>3. Strategy' = "api" => run'.d.selected = {}
    BY DEF AuditInv, SeenInv
  <2> QED BY <2>2, <2>3 DEF SeenInv
<1>2. CountInv'
  <2> SUFFICES ASSUME run.mode = "RETRY"
               PROVE  /\ Asked' <= Cardinality(run'.items)
                      /\ Asked' = Cardinality(run'.items) => \A k \in run'.items : Answered(k)'
    BY DEF CountInv
  <2>1. Asked \in Nat /\ Cardinality(run.items) \in Nat
    BY AskedIs
  <2>2. Asked <= Cardinality(run.items)
    BY DEF AuditInv, CountInv
  <2>3. Asked = Cardinality(run.items) => \A k \in run.items : Answered(k)
    BY DEF AuditInv, CountInv
  <2>4. CASE Asked' = Asked - 1
    <3>1. Asked' < Cardinality(run.items)
      BY <2>1, <2>2, <2>4
    <3> QED BY <2>1, <2>4, <3>1
  <2>5. CASE Asked' = Asked /\ \A k \in run.items : Answered(k) => Answered(k)'
    BY <2>1, <2>2, <2>3, <2>5
  <2> QED BY <2>4, <2>5
<1>3. RetriedInv'
  BY DEF RetriedInv
<1> QED BY <1>1, <1>2, <1>3 DEF AuditInv

\* A RETRY asks for every item it found.
LEMMA RetryAudit ==
  ASSUME BaseInv, AuditInv, StartRetry
  PROVE  AuditInv'
<1> DEFINE process == ItemsOf("process")
           fetch == ItemsOf("fetch")
           entry == ItemsOf("json_manifest_entry")
           saved == SetToSeq(process)
<1>1. /\ run'.pc = "discover" /\ run'.mode = "RETRY" /\ run'.d.seen = {} /\ run'.d.selected = {}
      /\ run'.requests = {k[2] : k \in fetch} /\ run'.entries = {k[2] : k \in entry}
      /\ run'.items = DOMAIN todo /\ Len(run'.records) = Len(saved)
      /\ Len(saved) = Cardinality(process) /\ ToSet(saved) = process /\ saved \in Seq(process)
      /\ UNCHANGED <<source, todo>>
  BY RetryIs
<1>2. \A i \in 1..Len(saved) : run'.records[i].art = saved[i][2]
                               /\ run'.records[i].path = todo[saved[i]].path
  BY RetryIs
<1> HIDE DEF saved
<1>3. /\ IsFiniteSet(DOMAIN todo) /\ DOMAIN todo \in SUBSET Key
      /\ \A k \in DOMAIN todo : todo[k] \in Item /\ ItemFits(Strategy, k, todo[k], Listed, disk)
  BY ItemMapsAre DEF BaseInv, TypeInv, ItemInv
<1>4. /\ process \in SUBSET DOMAIN todo /\ fetch \in SUBSET DOMAIN todo
      /\ entry \in SUBSET DOMAIN todo
      /\ process \cap fetch = {} /\ (process \cup fetch) \cap entry = {}
      /\ \A k \in DOMAIN todo : k \in process \/ k \in fetch \/ k \in entry
  BY <1>3 DEF ItemsOf, Item
<1>5. /\ IsFiniteSet(process) /\ IsFiniteSet(fetch) /\ IsFiniteSet(entry)
      /\ Cardinality(process) \in Nat /\ Cardinality(fetch) \in Nat /\ Cardinality(entry) \in Nat
  BY <1>3, <1>4, FS_Subset, FS_CardinalityType
<1> HIDE DEF process, fetch, entry
<1>6. Cardinality(DOMAIN todo) = Cardinality(process) + Cardinality(fetch) + Cardinality(entry)
  <2>1. Cardinality(process \cup fetch) = Cardinality(process) + Cardinality(fetch)
        /\ IsFiniteSet(process \cup fetch)
    <3>1. Cardinality(process \cap fetch) = 0
      BY <1>4, FS_EmptySet
    <3>2. /\ IsFiniteSet(process \cup fetch)
          /\ Cardinality(process \cup fetch) =
               Cardinality(process) + Cardinality(fetch) - Cardinality(process \cap fetch)
      BY <1>5, FS_Union
    <3> QED BY <1>5, <3>1, <3>2
  <2>2. Cardinality((process \cup fetch) \cup entry) =
          Cardinality(process \cup fetch) + Cardinality(entry)
    <3>1. Cardinality((process \cup fetch) \cap entry) = 0
      BY <1>4, FS_EmptySet
    <3>2. Cardinality(process \cup fetch) \in Nat
      BY <2>1, <1>5
    <3>3. Cardinality((process \cup fetch) \cup entry) =
            Cardinality(process \cup fetch) + Cardinality(entry)
              - Cardinality((process \cup fetch) \cap entry)
      BY <1>5, <2>1, FS_Union
    <3> QED BY <1>5, <3>1, <3>2, <3>3
  <2>3. DOMAIN todo = (process \cup fetch) \cup entry
    BY <1>4
  <2> QED BY <2>1, <2>2, <2>3
<1>7. ASSUME NEW S, IsFiniteSet(S), S \in SUBSET DOMAIN todo
      PROVE  LET T == {k[2] : k \in S} IN Cardinality(T) \in Nat /\ Cardinality(T) <= Cardinality(S)
  <2> DEFINE T == {k[2] : k \in S}
  <2>1. [k \in S |-> k[2]] \in Surjection(S, T)
    BY DEF Surjection
  <2> HIDE DEF T
  <2>2. IsFiniteSet(T) /\ Cardinality(T) <= Cardinality(S)
    BY <1>7, <2>1, FS_Surjection
  <2>3. Cardinality(T) \in Nat
    BY <2>2, FS_CardinalityType
  <2> QED BY <2>2, <2>3 DEF T
<1>8. Asked' <= Cardinality(run'.items)
  <2>1. Cardinality(run'.requests) \in Nat /\ Cardinality(run'.requests) <= Cardinality(fetch)
    BY <1>1, <1>4, <1>5, <1>7
  <2>2. Cardinality(run'.entries) \in Nat /\ Cardinality(run'.entries) <= Cardinality(entry)
    BY <1>1, <1>4, <1>5, <1>7
  <2>3. Asked' = Cardinality(process) + Cardinality(run'.requests) + Cardinality(run'.entries)
    BY <1>1 DEF Asked
  <2> QED BY <1>1, <1>5, <1>6, <2>1, <2>2, <2>3
<1>9. ASSUME NEW k \in DOMAIN todo PROVE Answered(k)'
  <2>1. CASE k \in process
    <3>1. PICK i \in 1..Len(saved) : saved[i] = k
      BY <1>1, <2>1 DEF ToSet
    <3>2. i \in 1..Len(run'.records) /\ run'.records[i].art = k[2] /\ run'.records[i].path = todo[k].path
      BY <1>1, <1>2, <3>1
    <3>3. todo[k].kind = "process"
      BY <2>1 DEF process, ItemsOf
    <3>4. k[1] # "entry" /\ (k[1] = "path" => todo[k].path = k[3])
      BY <1>3, <3>3 DEF ItemFits
    <3> QED BY <3>2, <3>4 DEF Answered, HasRecord
  <2>2. CASE k \in fetch
    <3>1. todo[k].kind = "fetch" /\ k[2] \in run'.requests
      BY <1>1, <2>2 DEF fetch, ItemsOf
    <3>2. k[1] # "path"
      <4>1. todo[k].path = None
        BY <1>3, <3>1 DEF ItemFits
      <4>2. k[1] = "path" => k[3] \in Day
        BY <1>3 DEF Key
      <4> QED BY <1>3, <4>1, <4>2 DEF ItemFits, Day, None
    <3> QED BY <3>1, <3>2 DEF Answered
  <2>3. CASE k \in entry
    <3>1. todo[k].kind = "json_manifest_entry" /\ k[2] \in run'.entries
      BY <1>1, <2>3 DEF entry, ItemsOf
    <3>2. k[1] = "entry"
      BY <1>3, <3>1 DEF ItemFits
    <3> QED BY <3>1, <3>2 DEF Answered
  <2> QED BY <1>4, <2>1, <2>2, <2>3
<1>10. CountInv'
  BY <1>1, <1>8, <1>9 DEF CountInv
<1> QED BY <1>1, <1>10 DEF AuditInv, SeenInv, RetriedInv

LEMMA StartAudit ==
  ASSUME BaseInv, AuditInv,
         \/ \E mode \in Mode : Start(mode)
         \/ \E unread \in SUBSET Article : StartReprocess(unread)
  PROVE  AuditInv'
<1>1. ASSUME NEW mode \in Mode, Start(mode)
      PROVE  run'.pc # "todo" /\ run'.mode # "RETRY" /\ run'.d.seen = {} /\ run'.d.selected = {}
  BY <1>1, StartIs, NewDiscoveryIs
<1>2. ASSUME NEW unread \in SUBSET Article, StartReprocess(unread)
      PROVE  run'.pc # "todo" /\ run'.mode # "RETRY" /\ run'.d.seen = {} /\ run'.d.selected = {}
  BY <1>2, ReprocessIs
<1> QED BY <1>1, <1>2 DEF AuditInv, SeenInv, CountInv, RetriedInv

LEMMA ListingAudit ==
  ASSUME BaseInv, AuditInv, LedgerInv, NEW u \in SUBSET Article, NEW v \in SUBSET Article,
         ListPage(u, v) \/ PageLost \/ CollectPage(u)
  PROVE  AuditInv'
<1>1. CASE ListPage(u, v)
  <2>1. /\ run'.pc = "discover" /\ run'.mode = run.mode /\ run.mode # "RETRY" /\ run.pc = "discover"
        /\ run.d.selected \subseteq run'.d.selected /\ (run.d.failed => run'.d.failed)
        /\ UNCHANGED <<source, core>> /\ run'.records = run.records /\ Strategy # "api"
        /\ \A a \in run'.d.seen : a \in run.d.seen \/ (a \in v /\ run'.d.failed)
             \/ a \in InCore \/ a \in run'.d.selected
    BY <1>1, ListPageIs
  <2>2. \A a \in run.d.seen : \/ a \in InCore \/ run.d.failed \/ a \in run.d.selected
                              \/ Strategy = "api" /\ HasRecord(a)
    BY <2>1 DEF AuditInv, SeenInv
  <2>3. InCore' = InCore /\ Strategy' = Strategy /\ \A a : HasRecord(a)' <=> HasRecord(a)
    BY <2>1 DEF InCore, Strategy, HasRecord
  <2>4. SeenInv'
    BY <2>1, <2>2, <2>3 DEF SeenInv
  <2> QED BY <2>1, <2>4 DEF AuditInv, CountInv, RetriedInv
<1>2. CASE PageLost
  <2>1. /\ run'.pc = "discover" /\ run'.mode = run.mode /\ run.mode # "RETRY" /\ run.pc = "discover"
        /\ run'.d.seen = run.d.seen /\ run'.d.selected = run.d.selected
        /\ (run.d.failed => run'.d.failed) /\ Strategy # "api"
        /\ UNCHANGED <<source, core>> /\ run'.records = run.records
    BY <1>2, PageLostIs
  <2>2. \A a \in run.d.seen : \/ a \in InCore \/ run.d.failed \/ a \in run.d.selected
                              \/ Strategy = "api" /\ HasRecord(a)
    BY <2>1 DEF AuditInv, SeenInv
  <2>3. InCore' = InCore /\ Strategy' = Strategy /\ \A a : HasRecord(a)' <=> HasRecord(a)
    BY <2>1 DEF InCore, Strategy, HasRecord
  <2>4. SeenInv'
    BY <2>1, <2>2, <2>3 DEF SeenInv
  <2> QED BY <2>1, <2>4 DEF AuditInv, CountInv, RetriedInv
<1>3. CASE CollectPage(u)
  <2> DEFINE links == Page(Strategy, site.listing, run.page)
             fresh == ToSet(links) \ run.produced
  <2>1. /\ run'.pc = "discover" /\ run'.mode = run.mode /\ run.pc = "discover"
        /\ run.mode \in {"INITIAL", "INCREMENTAL"} /\ Strategy = "api"
        /\ run'.d.seen \subseteq run.d.seen \cup ToSet(links) /\ run'.d.selected = {}
        /\ (run.d.failed => run'.d.failed)
        /\ UNCHANGED <<source, core>>
        /\ \A i \in 1..Len(run.records) :
             i \in 1..Len(run'.records) /\ run'.records[i] = run.records[i]
        /\ \A a \in fresh : \E i \in 1..Len(run'.records) : run'.records[i].art = a
    BY <1>3, CollectPageIs
  <2> HIDE DEF links
  <2>2. \A a \in run.d.seen : \/ a \in InCore \/ run.d.failed \/ a \in run.d.selected
                              \/ Strategy = "api" /\ HasRecord(a)
    BY <2>1 DEF AuditInv, SeenInv
  <2>3. /\ InCore' = InCore /\ Strategy' = Strategy
        /\ \A a : HasRecord(a) => HasRecord(a)'
    BY <2>1 DEF InCore, Strategy, HasRecord
  <2>4. \A a \in ToSet(links) : HasRecord(a)'
    <3>1. \A a \in run.produced : HasRecord(a)
      BY <2>1 DEF LedgerInv, CoverInv
    <3>2. \A a \in fresh : HasRecord(a)'
      BY <2>1 DEF HasRecord
    <3> QED BY <2>3, <3>1, <3>2
  <2>5. \A a \in run.d.seen : a \in InCore \/ run.d.failed \/ HasRecord(a)
    <3>1. run.d.selected = {}
      BY <2>1 DEF AuditInv, SeenInv
    <3> QED BY <2>2, <3>1
  <2>6. SeenInv'
    BY <2>1, <2>3, <2>4, <2>5 DEF SeenInv
  <2> QED BY <2>1, <2>6 DEF AuditInv, CountInv, RetriedInv
<1> QED BY <1>1, <1>2, <1>3

LEMMA AnswersAudit ==
  ASSUME BaseInv, AuditInv, NEW a \in Article, NEW rec, Answers(a, rec),
         rec.entry = (<<"entry", a>> \in run.items) \/ rec.entry
  PROVE  AuditInv'
<1>1. /\ UNCHANGED <<source, core>>
      /\ run.pc = "discover" /\ run'.pc = run.pc /\ run'.mode = run.mode /\ run'.d = run.d
      /\ run'.items = run.items /\ rec.art = a
      /\ \/ /\ a \in run.requests
            /\ run'.requests = run.requests \ {a} /\ run'.entries = run.entries
         \/ /\ a \in run.entries
            /\ run'.requests = run.requests /\ run'.entries = run.entries \ {a}
      /\ Len(run'.records) = Len(run.records) + 1
      /\ run'.records[Len(run.records) + 1] = rec
      /\ \A i \in 1..Len(run.records) : run'.records[i] = run.records[i]
  BY DEF Answers
<1>2. /\ IsFiniteSet(run.requests) /\ IsFiniteSet(run.entries)
      /\ Cardinality(run.requests) \in Nat /\ Cardinality(run.entries) \in Nat
      /\ Len(run.records) \in Nat /\ Asked \in Nat
  BY <1>1, AskedIs
<1>3. /\ \A i \in 1..Len(run.records) :
           i \in 1..Len(run'.records) /\ run'.records[i] = run.records[i]
      /\ \E i \in 1..Len(run'.records) : run'.records[i] = rec
  <2>1. Len(run.records) + 1 \in 1..Len(run'.records)
    BY <1>1, <1>2
  <2> QED BY <1>1, <1>2, <2>1
<1>4. \A b : HasRecord(b) \/ b = a => HasRecord(b)'
  BY <1>1, <1>3 DEF HasRecord
<1>5. Asked' = Asked
  <2>1. CASE a \in run.requests /\ run'.requests = run.requests \ {a} /\ run'.entries = run.entries
    <3>1. Cardinality(run'.requests) = Cardinality(run.requests) - 1
      <4>1. Cardinality(run.requests \ {a}) =
              IF a \in run.requests THEN Cardinality(run.requests) - 1 ELSE Cardinality(run.requests)
        BY <1>2, FS_RemoveElement, Zenon
      <4> QED BY <2>1, <4>1
    <3> QED BY <1>1, <1>2, <2>1, <3>1 DEF Asked
  <2>2. CASE a \in run.entries /\ run'.requests = run.requests /\ run'.entries = run.entries \ {a}
    <3>1. Cardinality(run'.entries) = Cardinality(run.entries) - 1
      <4>1. Cardinality(run.entries \ {a}) =
              IF a \in run.entries THEN Cardinality(run.entries) - 1 ELSE Cardinality(run.entries)
        BY <1>2, FS_RemoveElement, Zenon
      <4> QED BY <2>2, <4>1
    <3>2. Cardinality(run'.requests) = Cardinality(run.requests)
      BY <2>2
    <3>3. Len(run'.records) = Len(run.records) + 1
      BY <1>1
    <3>4. /\ Asked = Len(run.records) + Cardinality(run.requests) + Cardinality(run.entries)
          /\ Asked' = Len(run'.records) + Cardinality(run'.requests) + Cardinality(run'.entries)
      BY DEF Asked
    <3>5. \A n, r, e, m, q, f : n \in Nat /\ r \in Nat /\ e \in Nat /\ f = e - 1 /\ q = r /\ m = n + 1
            => m + q + f = n + r + e
      OBVIOUS
    <3> QED BY <1>2, <3>1, <3>2, <3>3, <3>4, <3>5
  <2> QED BY <1>1, <2>1, <2>2
<1>6. ASSUME NEW k \in run.items, Answered(k) PROVE Answered(k)'
  <2>1. k[1] = "record" => k[2] \in run'.requests \/ HasRecord(k[2])'
    BY <1>1, <1>4, <1>6 DEF Answered
  <2>2. k[1] = "path" =>
          \E i \in 1..Len(run'.records) : run'.records[i].art = k[2] /\ run'.records[i].path = k[3]
    BY <1>3, <1>6 DEF Answered
  <2>3. ASSUME k[1] = "entry"
        PROVE  \/ k[2] \in run'.requests \/ k[2] \in run'.entries
               \/ \E i \in 1..Len(run'.records) : run'.records[i].art = k[2] /\ run'.records[i].entry
    <3>1. CASE \E i \in 1..Len(run.records) : run.records[i].art = k[2] /\ run.records[i].entry
      BY <1>3, <3>1
    <3>2. CASE k[2] # a /\ (k[2] \in run.requests \/ k[2] \in run.entries)
      BY <1>1, <3>2
    <3>3. CASE k[2] = a
      <4>1. run.items \in SUBSET Key
        BY <1>1, RunIs DEF BaseInv
      <4>2. k = <<"entry", a>>
        BY <2>3, <3>3, <4>1 DEF Key
      <4>3. <<"entry", a>> \in run.items
        BY <4>2
      <4>4. rec.entry
        BY <4>3
      <4> QED BY <1>1, <1>3, <3>3, <4>4
    <3> QED BY <1>6, <2>3, <3>1, <3>2, <3>3 DEF Answered
  <2> QED BY <2>1, <2>2, <2>3 DEF Answered
<1>7. Strategy' = Strategy /\ InCore' = InCore
  BY <1>1 DEF Strategy, InCore
<1> QED BY <1>1, <1>4, <1>5, <1>6, <1>7, AuditStays

LEMMA DetailAudit ==
  ASSUME BaseInv, AuditInv, NEW a \in Article,
         FetchDetail(a) \/ DetailFailed(a) \/ DetailMissing(a) \/ RetryEntry(a)
  PROVE  AuditInv'
<1>1. CASE FetchDetail(a)
  BY <1>1, FetchIs, AnswersAudit
<1>2. CASE DetailFailed(a)
  BY <1>2, FailedIs, AnswersAudit
<1>3. CASE DetailMissing(a)
  <2>1. /\ run.pc = "discover" /\ a \in run.requests /\ UNCHANGED <<source, core>>
        /\ run'.pc = "discover" /\ run'.mode = run.mode /\ run'.d = run.d
        /\ run'.items = run.items /\ run'.records = run.records
        /\ run'.requests = run.requests \ {a} /\ run'.entries = run.entries
    BY <1>3, MissingIs
  <2>2. Asked' = Asked - 1
    <3>1. Cardinality(run'.requests) = Cardinality(run.requests) - 1
      BY <2>1, AskedIs, FS_RemoveElement
    <3> QED BY <2>1, <3>1, AskedIs DEF Asked
  <2>3. Strategy' = Strategy /\ InCore' = InCore /\ \A b : HasRecord(b) => HasRecord(b)'
    BY <2>1 DEF Strategy, InCore, HasRecord
  <2> QED BY <2>1, <2>2, <2>3, AuditStays
<1>4. CASE RetryEntry(a) /\ \E rec : Answers(a, rec) /\ rec.entry
  BY <1>4, AnswersAudit
<1>5. CASE RetryEntry(a) /\ ~\E rec : Answers(a, rec) /\ rec.entry
  <2>1. /\ run.pc = "discover" /\ a \in run.entries
        /\ UNCHANGED <<source, core>>
        /\ run'.pc = "discover" /\ run'.mode = run.mode /\ run'.d = run.d
        /\ run'.items = run.items /\ run'.records = run.records
        /\ run'.requests = run.requests \cup {a} /\ run'.entries = run.entries \ {a}
    BY <1>5, RetryEntryIs, Zenon
  <2>2. /\ Cardinality(run'.entries) = Cardinality(run.entries) - 1
        /\ Cardinality(run'.requests) =
             IF a \in run.requests THEN Cardinality(run.requests) ELSE Cardinality(run.requests) + 1
    <3>1. IsFiniteSet(run.requests) /\ IsFiniteSet(run.entries)
      BY <2>1, AskedIs
    <3>2. Cardinality(run.entries \ {a}) =
            IF a \in run.entries THEN Cardinality(run.entries) - 1 ELSE Cardinality(run.entries)
      BY <3>1, FS_RemoveElement, Zenon
    <3>3. Cardinality(run.requests \cup {a}) =
            IF a \in run.requests THEN Cardinality(run.requests) ELSE Cardinality(run.requests) + 1
      BY <3>1, FS_AddElement, Zenon
    <3> QED BY <2>1, <3>2, <3>3
  <2>3. Asked' = Asked - 1 \/ Asked' = Asked
    BY <2>1, <2>2, AskedIs DEF Asked
  <2>4. ASSUME NEW k, Answered(k) PROVE Answered(k)'
    BY <2>1, <2>4 DEF Answered, HasRecord
  <2>5. Strategy' = Strategy /\ InCore' = InCore /\ \A b : HasRecord(b) => HasRecord(b)'
    BY <2>1 DEF Strategy, InCore, HasRecord
  <2> QED BY <2>1, <2>3, <2>4, <2>5, AuditStays
<1> QED BY <1>1, <1>2, <1>3, <1>4, <1>5

\* Records keep their keys but for the one that processing gives them.
LEMMA TurnsAudit ==
  ASSUME BaseInv, AuditInv, NEW rec, Turns(rec), InCore \subseteq InCore'
  PROVE  AuditInv'
<1>1. /\ source' = source /\ run.pc \in {"persist", "process"} /\ run.next \in 1..Len(run.records)
      /\ run'.pc = run.pc /\ run'.mode = run.mode /\ run'.d = run.d /\ run'.items = run.items
      /\ run'.requests = run.requests /\ run'.entries = run.entries
      /\ Len(run'.records) = Len(run.records) /\ run'.records[run.next] = rec
      /\ rec.art = run.records[run.next].art /\ rec.path = run.records[run.next].path
      /\ rec.entry = run.records[run.next].entry
      /\ \A i \in 1..Len(run.records) : i # run.next => run'.records[i] = run.records[i]
  BY DEF Turns, Here
<1>2. \A i \in 1..Len(run.records) :
        /\ run'.records[i].art = run.records[i].art /\ run'.records[i].path = run.records[i].path
        /\ run'.records[i].entry = run.records[i].entry
  BY <1>1
<1>3. \A b : HasRecord(b) <=> HasRecord(b)'
  BY <1>1, <1>2 DEF HasRecord
<1>4. Asked' = Asked
  BY <1>1 DEF Asked
<1>5. ASSUME NEW k, Answered(k) PROVE Answered(k)'
  BY <1>1, <1>2, <1>3, <1>5 DEF Answered
<1>6. Strategy' = Strategy
  BY <1>1 DEF Strategy
<1> QED BY <1>1, <1>3, <1>4, <1>5, <1>6, AuditStays

LEMMA RecordsAudit ==
  ASSUME BaseInv, AuditInv, Persist \/ ProcessRecord \/ ProcessFails \/ PassOver
  PROVE  AuditInv'
<1>1. CASE Persist
  <2>1. core' = core /\ \E rec : Turns(rec)
    BY <1>1, PersistIs
  <2> QED BY <2>1, TurnsAudit DEF InCore
<1>2. CASE ProcessRecord
  <2>1. InCore \subseteq InCore' /\ \E rec : Turns(rec)
    BY <1>2, ProcessRecordIs
  <2> QED BY <2>1, TurnsAudit
<1>3. CASE ProcessFails \/ PassOver
  <2>1. core' = core /\ \E rec : Turns(rec)
    BY <1>3, PassesIs
  <2> QED BY <2>1, TurnsAudit DEF InCore
<1> QED BY <1>1, <1>2, <1>3

LEMMA StageAudit ==
  ASSUME BaseInv, AuditInv, Acquired \/ Persisted
  PROVE  AuditInv'
<1>1. /\ UNCHANGED <<source, core>>
      /\ run'.mode = run.mode /\ run'.d = run.d /\ run'.requests = run.requests
      /\ run'.entries = run.entries /\ run'.items = run.items /\ run'.records = run.records
      /\ run.pc \in {"discover", "persist"} /\ run'.pc \in {"persist", "process"}
  BY StageBase
<1>2. /\ Strategy' = Strategy /\ InCore' = InCore /\ \A b : HasRecord(b) => HasRecord(b)'
      /\ Asked' = Asked /\ \A k : Answered(k) => Answered(k)'
  BY <1>1 DEF Strategy, InCore, HasRecord, Asked, Answered
<1> QED BY <1>1, <1>2, AuditStays

\* With every item answered and every record done, no item of the RETRY is left.
LEMMA UpdateAudit ==
  ASSUME BaseInv, AuditInv, UpdateTodo
  PROVE  AuditInv'
<1>1. /\ run.pc = "process" /\ UNCHANGED <<source, core>> /\ run'.pc = "todo"
      /\ run'.mode = run.mode /\ run'.records = run.records /\ run'.d = run.d
      /\ run'.items = run.items
  BY UpdateIs
<1>2. SeenInv'
  <2>1. InCore' = InCore /\ Strategy' = Strategy /\ \A a : HasRecord(a)' <=> HasRecord(a)
    BY <1>1 DEF InCore, Strategy, HasRecord
  <2> QED BY <1>1, <2>1 DEF AuditInv, SeenInv
<1>3. CountInv'
  BY <1>1 DEF CountInv
<1>4. ASSUME run.mode = "RETRY", Len(run.records) >= Cardinality(run.items),
             \A i \in 1..Len(run.records) : run.records[i].state = "done",
             NEW k \in run.items, k \in DOMAIN todo'
      PROVE  FALSE
  <2>1. run.requests = {} /\ run.entries = {}
    BY <1>1, <1>4 DEF BaseInv, RunInv, RunFits
  <2>2. Cardinality(run.requests) = 0 /\ Cardinality(run.entries) = 0
    BY <2>1, FS_EmptySet
  <2>3. Len(run.records) \in Nat /\ Cardinality(run.items) \in Nat
    BY <1>1, <1>4, AskedIs
  <2>4. Asked = Len(run.records)
    BY <2>2, <2>3 DEF Asked
  <2>5. Asked <= Cardinality(run.items)
    BY <1>1, <1>4 DEF AuditInv, CountInv
  <2>6. Answered(k)
    BY <1>1, <1>4, <2>3, <2>4, <2>5 DEF AuditInv, CountInv
  <2>7. \A i \in 1..Len(run.records) : ~Touches(run.records[i], k)
    BY <1>4, UpdateIs
  <2>8. \A i \in 1..Len(run.records) : k \notin KeySet(run.records[i]) /\ run.records[i].keyed
    BY <1>1, <1>4, <2>7 DEF Touches, BaseInv, RecordInv, RecordFits
  <2>9. k \in Key
    BY <1>1, <1>4, RunIs DEF BaseInv
  <2>10. CASE k[1] = "record"
    <3>1. PICK i \in 1..Len(run.records) : run.records[i].art = k[2]
      BY <2>1, <2>6, <2>10 DEF Answered, HasRecord
    <3>2. k = <<"record", run.records[i].art>>
      BY <2>9, <2>10, <3>1 DEF Key
    <3> QED BY <2>8, <3>2 DEF KeySet
  <2>11. CASE k[1] = "path"
    <3>1. PICK i \in 1..Len(run.records) : run.records[i].art = k[2] /\ run.records[i].path = k[3]
      BY <2>6, <2>11 DEF Answered
    <3>2. k = <<"path", run.records[i].art, run.records[i].path>> /\ run.records[i].path \in Day
      BY <2>9, <2>11, <3>1 DEF Key
    <3>3. run.records[i].path # None
      BY <3>2 DEF Day, None
    <3> QED BY <2>8, <3>2, <3>3 DEF KeySet
  <2>12. CASE k[1] = "entry"
    <3>1. PICK i \in 1..Len(run.records) : run.records[i].art = k[2] /\ run.records[i].entry
      BY <2>1, <2>6, <2>12 DEF Answered
    <3>2. k = <<"entry", run.records[i].art>>
      BY <2>9, <2>12, <3>1 DEF Key
    <3> QED BY <2>8, <3>1, <3>2 DEF KeySet
  <2> QED BY <2>9, <2>10, <2>11, <2>12 DEF Key
<1>5. RetriedInv'
  BY <1>1, <1>4 DEF RetriedInv
<1> QED BY <1>2, <1>3, <1>5 DEF AuditInv

LEMMA AuditInit == Init => AuditInv
<1> SUFFICES ASSUME Init PROVE AuditInv
  OBVIOUS
<1>1. run.pc = "idle"
  BY DEF Init, Idle
<1> QED BY <1>1 DEF AuditInv, SeenInv, CountInv, RetriedInv

LEMMA AuditStep == BaseInv /\ LedgerInv /\ AuditInv /\ [Next]_vars => AuditInv'
<1> SUFFICES ASSUME BaseInv, LedgerInv, AuditInv, [Next]_vars PROVE AuditInv'
  OBVIOUS
<1>1. CASE UNCHANGED <<source, core, todo, run>>
  <2>1. InCore' = InCore /\ Strategy' = Strategy /\ \A a : HasRecord(a)' <=> HasRecord(a)
    BY <1>1 DEF InCore, Strategy, HasRecord
  <2>2. Asked' = Asked /\ \A k : Answered(k)' <=> Answered(k)
    BY <1>1, <2>1 DEF Asked, Answered
  <2>3. SeenInv'
    BY <1>1, <2>1 DEF AuditInv, SeenInv
  <2>4. CountInv' /\ RetriedInv'
    BY <1>1, <2>2 DEF AuditInv, CountInv, RetriedInv
  <2> QED BY <2>3, <2>4 DEF AuditInv
<1>2. Environment => UNCHANGED <<source, core, todo, run>>
  BY DEF Environment, Publish, EditPage, SpoilEntry, NextDay, NewRelease
<1>3. CASE Acquire
  <2>1. ASSUME NEW u \in SUBSET Article, NEW v \in SUBSET Article, ListPage(u, v)
        PROVE  AuditInv'
    BY <2>1, ListingAudit
  <2>2. ASSUME NEW u \in SUBSET Article, PageLost \/ CollectPage(u)
        PROVE  AuditInv'
    BY <2>2, ListingAudit
  <2>3. CASE PageLost
    BY <2>2, <2>3
  <2>4. ASSUME NEW a \in Article,
               FetchDetail(a) \/ DetailFailed(a) \/ DetailMissing(a) \/ RetryEntry(a)
        PROVE  AuditInv'
    BY <2>4, DetailAudit
  <2>5. CASE Acquired
    BY <2>5, StageAudit
  <2>6. CASE StartRetry
    BY <2>6, RetryAudit
  <2>7. ASSUME NEW mode \in Mode, Start(mode) PROVE AuditInv'
    BY <2>7, StartAudit
  <2>8. ASSUME NEW unread \in SUBSET Article, StartReprocess(unread) PROVE AuditInv'
    BY <2>8, StartAudit
  <2> QED BY <1>3, <2>1, <2>2, <2>3, <2>4, <2>5, <2>6, <2>7, <2>8 DEF Acquire
<1>4. CASE Process
  <2>1. CASE Persist \/ ProcessRecord \/ ProcessFails \/ PassOver
    BY <2>1, RecordsAudit
  <2>2. CASE Persisted
    BY <2>2, StageAudit
  <2>3. CASE UpdateTodo
    BY <2>3, UpdateAudit
  <2>4. CASE \E s \in {"SUCCESS", "PARTIAL", "FAILED"} : Report(s)
    <3>1. run'.pc = "idle"
      BY <2>4 DEF Report, Idle
    <3> QED BY <3>1 DEF AuditInv, SeenInv, CountInv, RetriedInv
  <2> QED BY <1>4, <2>1, <2>2, <2>3, <2>4 DEF Process
<1>5. CASE Crash
  <2>1. run'.pc = "idle"
    BY <1>5 DEF Crash, Idle
  <2> QED BY <2>1 DEF AuditInv, SeenInv, CountInv, RetriedInv
<1>6. UNCHANGED vars => UNCHANGED <<source, core, todo, run>>
  BY DEF vars
<1> QED BY <1>1, <1>2, <1>3, <1>4, <1>5, <1>6 DEF Next

\* A run that reports SUCCESS counted its records: an article that was examined
\* and lost on the way, or an item that a RETRY did not get back, shows.
THEOREM SuccessIsCompleteHolds == Spec => SuccessIsComplete
<1>1. ASSUME BaseInv, LedgerInv, AuditInv, Report("SUCCESS")
      PROVE  run.d.seen \subseteq InCore /\ run.items \cap DOMAIN todo = {}
  <2>1. /\ run.pc \in {"process", "todo"} /\ RunStatus = "SUCCESS"
        /\ run.pc = "process" => run.mode = "REPROCESS"
    BY <1>1 DEF Report
  <2> DEFINE records == ToSet(run.records)
             safely == IF run.mode = "RETRY" THEN Len(run.records) >= Cardinality(run.items)
                       ELSE CompletedSafely(run.d, run.produced)
             failed == \E rec \in records : Failed(rec)
             worked == run.d.known \/ \E rec \in records : rec.state = "done" \/ rec.file # <<>>
  <2>2. RunStatus = CASE safely /\ ~failed -> "SUCCESS"
                      [] ~(safely /\ ~failed) /\ worked -> "PARTIAL"
                      [] OTHER -> "FAILED"
    BY DEF RunStatus
  <2>3. safely /\ ~failed
    <3> HIDE DEF safely, failed, worked
    <3> QED BY <2>1, <2>2
  <2>4. run.records \in Seq(Record) /\ run.mode \in Mode
    BY <1>1, <2>1, RunIs DEF BaseInv
  <2>5. ToSet(run.records) = {run.records[i] : i \in 1..Len(run.records)}
    BY <2>4 DEF ToSet
  <2>6. \A i \in 1..Len(run.records) : ~Failed(run.records[i])
    BY <2>3, <2>5
  <2>7. CASE run.mode = "REPROCESS"
    BY <1>1, <2>1, <2>7 DEF BaseInv, RunInv, RunFits
  <2>8. CASE run.mode # "REPROCESS"
    <3>1. \A i \in 1..Len(run.records) : run.records[i].state = "done"
      BY <1>1, <2>1, <2>6, <2>8 DEF BaseInv, StageInv, StateFits, Failed
    <3>2. CASE run.mode = "RETRY"
      <4>1. run.d.seen = {}
        BY <1>1, <2>1, <3>2 DEF BaseInv, RunInv, RunFits
      <4>2. Len(run.records) >= Cardinality(run.items)
        BY <2>3, <3>2
      <4> QED BY <1>1, <2>1, <2>8, <3>1, <3>2, <4>1, <4>2 DEF AuditInv, RetriedInv
    <3>3. CASE run.mode \in {"INITIAL", "INCREMENTAL"}
      <4>1. run.items = {}
        BY <1>1, <2>1, <3>3 DEF BaseInv, RunInv, RunFits
      <4>2. ~run.d.failed /\ run.d.selected \subseteq run.produced
        BY <2>3, <3>3 DEF CompletedSafely
      <4>3. \A a : HasRecord(a) => a \in InCore
        BY <1>1, <2>1, <3>1 DEF HasRecord, BaseInv, RecordInv, RecordFits
      <4>4. \A a \in run.produced : HasRecord(a)
        BY <1>1, <2>1, <3>3 DEF LedgerInv, CoverInv
      <4>5. \A a \in run.d.seen : a \in InCore \/ run.d.failed \/ a \in run.d.selected \/ HasRecord(a)
        BY <1>1, <2>1 DEF AuditInv, SeenInv
      <4> QED BY <4>1, <4>2, <4>3, <4>4, <4>5
    <3> QED BY <2>4, <2>8, <3>2, <3>3 DEF Mode
  <2> QED BY <2>7, <2>8
<1>2. BaseInv /\ LedgerInv /\ AuditInv /\ [Next]_vars =>
        [Report("SUCCESS") => /\ run.d.seen \subseteq InCore
                              /\ run.items \cap DOMAIN todo = {}]_vars
  BY <1>1
<1>3. Spec => []AuditInv
  BY AuditInit, AuditStep, LedgerCorrect, PTL DEF Spec
<1> QED BY <1>2, <1>3, LedgerCorrect, PTL DEF Spec, SuccessIsComplete

(***************************************************************************)
(* A version rests on its file                                             *)
(***************************************************************************)
\* A run other than REPROCESS that has not yet written the to-do list.
Working == run.pc \in {"discover", "persist", "process"} /\ run.mode # "REPROCESS"

\* The run has a record of the article whose key is known: its fetch may have
\* overwritten the file of an earlier one.
Keyed(i, a) == run.records[i].art = a /\ run.records[i].keyed
Detailed(a) == \E i \in 1..Len(run.records) : Keyed(i, a)

\* The fields kept with an item are those of its file. An item whose file a
\* later fetch overwrote belongs to an article that the run has in its records.
SavedInv ==
  \A k \in DOMAIN todo :
    /\ Strategy = "api" => todo[k].content = None
    /\ Strategy # "api" /\ todo[k].path # None =>
         \/ todo[k].content = disk[todo[k].path][k[2]] \/ k[2] \in forgiven
         \/ Working /\ Detailed(k[2])

\* The fields of a record are those of its file, or it came from an item whose
\* article was forgiven, or a later record of the run takes its place.
ContentFits(i) ==
  LET r == run.records[i] IN
  /\ Strategy = "api" => r.content = None
  /\ Strategy # "api" /\ Working /\ r.path # None =>
       \/ r.content = disk[r.path][r.art]
       \/ r.art \in forgiven /\ \A j \in 1..(i - 1) : ~Keyed(j, r.art)
       \/ \E j \in (i + 1)..Len(run.records) : Keyed(j, r.art)

ContentInv ==
  run.pc # "idle" /\ run.mode # "REPROCESS" =>
    \A i \in 1..Len(run.records) : ContentFits(i)

\* An article is fetched once in a run, unless the list has an item for its entry
\* in a manifest beside another one.
OnceInv ==
  Strategy # "api" /\ run.pc # "idle" /\ run.mode # "REPROCESS" =>
    /\ \A i, j \in 1..Len(run.records) : \A a :
         i # j /\ Keyed(i, a) /\ Keyed(j, a) => <<"entry", a>> \in run.items
    /\ \A a \in run.requests : Detailed(a) => <<"entry", a>> \in run.items
    /\ run.mode = "RETRY" => \A a \in run.entries : <<"entry", a>> \in run.items
    /\ run.mode # "RETRY" =>
         \A a : a \in run.requests \/ Detailed(a) => a \in run.d.selected

\* The registered file is the one that the record names.
FileFits(r) ==
  r.state \in {"stored", "duplicate"} =>
    IF run.mode = "REPROCESS" THEN r.content = r.file.content
    ELSE r.path # None /\ r.file.content = disk[r.path][r.art]

FileInv ==
  run.pc \in {"persist", "process"} =>
    \A i \in 1..Len(run.records) : FileFits(run.records[i])

EvidenceInv == SavedInv /\ ContentInv /\ OnceInv /\ FileInv

\* Files and items stay, records keep what they were made from, and nothing is
\* requested again but for a manifest item.
LEMMA EvidenceStays ==
  ASSUME BaseInv, EvidenceInv, UNCHANGED <<source, disk, todo>>, forgiven \subseteq forgiven',
         run.pc \in {"discover", "persist", "process"},
         run'.pc \in {"discover", "persist", "process"}, run'.mode = run.mode,
         run'.items = run.items, run.mode = "RETRY" => run'.entries \subseteq run.entries,
         run.d.selected \subseteq run'.d.selected,
         \A a \in run'.requests :
           \/ a \in run.requests
           \/ run.mode = "RETRY" /\ <<"entry", a>> \in run.items
           \/ run.mode # "RETRY" /\ a \notin run.d.selected /\ a \in run'.d.selected,
         Len(run'.records) = Len(run.records),
         \A i \in 1..Len(run.records) :
           /\ run'.records[i].art = run.records[i].art
           /\ run'.records[i].content = run.records[i].content
           /\ run'.records[i].path = run.records[i].path
           /\ Strategy # "api" /\ run.mode # "REPROCESS" =>
                run'.records[i].keyed = run.records[i].keyed,
         FileInv'
  PROVE  EvidenceInv'
<1>1. Strategy' = Strategy /\ (Working' <=> Working)
  BY DEF Strategy, Working
<1>2. Strategy # "api" /\ run.mode # "REPROCESS" =>
        /\ \A i \in 1..Len(run.records) : \A a : Keyed(i, a)' <=> Keyed(i, a)
        /\ \A a : Detailed(a)' <=> Detailed(a)
  <2> SUFFICES ASSUME Strategy # "api", run.mode # "REPROCESS"
               PROVE  /\ \A i \in 1..Len(run.records) : \A a : Keyed(i, a)' <=> Keyed(i, a)
                      /\ \A a : Detailed(a)' <=> Detailed(a)
    OBVIOUS
  <2>1. \A i \in 1..Len(run.records) : \A a : Keyed(i, a)' <=> Keyed(i, a)
    BY DEF Keyed
  <2> QED BY <2>1 DEF Detailed
<1>3. SavedInv'
  <2> SUFFICES ASSUME NEW k \in DOMAIN todo
               PROVE  /\ Strategy = "api" => todo[k].content = None
                      /\ Strategy # "api" /\ todo[k].path # None =>
                           \/ todo[k].content = disk[todo[k].path][k[2]] \/ k[2] \in forgiven'
                           \/ Working' /\ Detailed(k[2])'
    BY <1>1 DEF SavedInv
  <2> QED BY <1>1, <1>2 DEF EvidenceInv, SavedInv, Working
<1>4. ContentInv'
  <2> SUFFICES ASSUME run.mode # "REPROCESS", NEW i \in 1..Len(run.records)
               PROVE  ContentFits(i)'
    BY DEF ContentInv
  <2>1. ContentFits(i)
    BY DEF EvidenceInv, ContentInv
  <2>2. Len(run.records) \in Nat
    BY RunIs DEF BaseInv
  <2>3. CASE Strategy = "api"
    BY <1>1, <2>1, <2>3 DEF ContentFits
  <2>4. CASE Strategy # "api"
    <3>1. \A j \in 1..(i - 1) : \A a : Keyed(j, a)' <=> Keyed(j, a)
      BY <1>2, <2>2, <2>4
    <3>2. \A j \in (i + 1)..Len(run.records) : \A a : Keyed(j, a)' <=> Keyed(j, a)
      BY <1>2, <2>2, <2>4
    <3> QED BY <1>1, <2>1, <2>4, <3>1, <3>2 DEF ContentFits
  <2> QED BY <2>3, <2>4
<1>5. OnceInv'
  <2> SUFFICES ASSUME Strategy # "api", run.mode # "REPROCESS"
               PROVE  OnceInv'
    BY <1>1 DEF OnceInv
  <2>1. /\ \A i, j \in 1..Len(run.records) : \A a :
             i # j /\ Keyed(i, a) /\ Keyed(j, a) => <<"entry", a>> \in run.items
        /\ \A a \in run.requests : Detailed(a) => <<"entry", a>> \in run.items
        /\ run.mode = "RETRY" => \A a \in run.entries : <<"entry", a>> \in run.items
        /\ run.mode # "RETRY" =>
             \A a : a \in run.requests \/ Detailed(a) => a \in run.d.selected
    BY DEF EvidenceInv, OnceInv
  <2>2. \A i, j \in 1..Len(run'.records) : \A a :
          i # j /\ Keyed(i, a)' /\ Keyed(j, a)' => <<"entry", a>> \in run'.items
    BY <1>2, <2>1
  <2>3. \A a \in run'.requests : Detailed(a)' => <<"entry", a>> \in run'.items
    BY <1>2, <2>1
  <2>4. run'.mode = "RETRY" => \A a \in run'.entries : <<"entry", a>> \in run'.items
    BY <2>1
  <2>5. run'.mode # "RETRY" =>
          \A a : a \in run'.requests \/ Detailed(a)' => a \in run'.d.selected
    BY <1>2, <2>1
  <2> QED BY <2>2, <2>3, <2>4, <2>5 DEF OnceInv
<1> QED BY <1>3, <1>4, <1>5 DEF EvidenceInv

\* Between the runs only the world changes.
LEMMA IdleEvidence ==
  ASSUME BaseInv, EvidenceInv, UNCHANGED <<source, disk, todo, run, forgiven>>
  PROVE  EvidenceInv'
<1>1. /\ Strategy' = Strategy /\ (Working' <=> Working)
      /\ \A i, a : Keyed(i, a)' <=> Keyed(i, a)
  BY DEF Strategy, Working, Keyed
<1>2. \A a : Detailed(a)' <=> Detailed(a)
  BY <1>1 DEF Detailed
<1>3. \A r : (FileFits(r)' <=> FileFits(r))
  BY DEF FileFits
<1>4. SavedInv'
  BY <1>1, <1>2 DEF EvidenceInv, SavedInv
<1>5. \A i : ContentFits(i)' <=> ContentFits(i)
  BY <1>1 DEF ContentFits
<1>6. ContentInv' /\ FileInv'
  BY <1>3, <1>5 DEF EvidenceInv, ContentInv, FileInv
<1>7. OnceInv'
  BY <1>1, <1>2 DEF EvidenceInv, OnceInv
<1> QED BY <1>4, <1>6, <1>7 DEF EvidenceInv

LEMMA StartEvidence ==
  ASSUME BaseInv, EvidenceInv, NEW mode \in Mode, Start(mode)
  PROVE  EvidenceInv'
<1>1. /\ run.pc = "idle" /\ UNCHANGED <<source, disk, todo, forgiven>>
      /\ run'.pc = "discover" /\ run'.requests = {} /\ run'.records = <<>>
      /\ run'.mode # "RETRY"
  BY StartIs
<1>2. Strategy' = Strategy /\ ~Working
  BY <1>1 DEF Strategy, Working
<1>3. Len(run'.records) = 0 /\ \A a : ~Detailed(a)'
  BY <1>1 DEF Detailed
<1>4. SavedInv'
  BY <1>1, <1>2 DEF EvidenceInv, SavedInv
<1>5. ContentInv' /\ FileInv' /\ OnceInv'
  BY <1>1, <1>3 DEF ContentInv, FileInv, OnceInv
<1> QED BY <1>4, <1>5 DEF EvidenceInv

LEMMA ReprocessEvidence ==
  ASSUME BaseInv, EvidenceInv, NEW unread, StartReprocess(unread)
  PROVE  EvidenceInv'
<1>1. /\ run.pc = "idle" /\ UNCHANGED <<source, disk, todo, forgiven>>
      /\ run'.pc = "process" /\ run'.mode = "REPROCESS"
  BY ReprocessIs
<1>2. \A i \in 1..Len(run'.records) :
        LET r == run'.records[i]
        IN  r.state = "failed" \/ (r.state = "duplicate" /\ r.content = r.file.content)
  BY ReprocessIs
<1>3. Strategy' = Strategy /\ ~Working
  BY <1>1 DEF Strategy, Working
<1>4. SavedInv'
  BY <1>1, <1>3 DEF EvidenceInv, SavedInv
<1>5. FileInv'
  BY <1>1, <1>2 DEF FileInv, FileFits
<1>6. ContentInv' /\ OnceInv'
  BY <1>1 DEF ContentInv, OnceInv
<1> QED BY <1>4, <1>5, <1>6 DEF EvidenceInv

\* Without saved API files an item of a file or of a page is named by the article.
LEMMA RetryEvidence ==
  ASSUME BaseInv, EvidenceInv, StartRetry
  PROVE  EvidenceInv'
<1> DEFINE saved == SetToSeq(ItemsOf("process"))
<1>1. /\ run.pc = "idle" /\ UNCHANGED <<source, disk, todo, forgiven>>
      /\ run'.pc = "discover" /\ run'.mode = "RETRY" /\ run'.items = DOMAIN todo
      /\ \A i, j \in 1..Len(saved) : saved[i] = saved[j] => i = j
      /\ run'.requests = {k[2] : k \in ItemsOf("fetch")}
      /\ run'.entries = {k[2] : k \in ItemsOf("json_manifest_entry")}
      /\ Len(run'.records) = Len(saved) /\ Len(saved) \in Nat
  <2>1. saved \in Seq(ItemsOf("process"))
    BY RetryIs
  <2>2. Len(saved) \in Nat
    BY <2>1
  <2> QED BY <2>2, RetryIs
<1>2. \A i \in 1..Len(saved) :
        /\ saved[i] \in DOMAIN todo /\ todo[saved[i]].kind = "process"
        /\ run'.records[i].art = saved[i][2] /\ run'.records[i].content = todo[saved[i]].content
        /\ run'.records[i].path = todo[saved[i]].path
  BY RetryIs
<1> HIDE DEF saved
<1>3. Strategy' = Strategy /\ ~Working
  BY <1>1 DEF Strategy, Working
<1>4. SavedInv'
  BY <1>1, <1>3 DEF EvidenceInv, SavedInv
<1>6. ASSUME Strategy # "api", NEW k \in DOMAIN todo, NEW l \in DOMAIN todo, k[2] = l[2],
             todo[k].kind # "json_manifest_entry", todo[l].kind # "json_manifest_entry"
      PROVE  k = l
  <2>1. DOMAIN todo \in SUBSET Key
    BY ItemMapsAre DEF BaseInv, TypeInv
  <2>2. /\ k[1] # "path" /\ k[1] # "entry" /\ l[1] # "path" /\ l[1] # "entry"
    BY <1>6 DEF BaseInv, ItemInv, ItemFits
  <2>3. k = <<"record", k[2]>> /\ l = <<"record", l[2]>>
    BY <2>1, <2>2 DEF Key
  <2> QED BY <1>6, <2>3
<1>7. ASSUME Strategy # "api", NEW i \in 1..Len(run'.records), NEW j \in 1..Len(run'.records),
             run'.records[i].art = run'.records[j].art
      PROVE  i = j
  <2>1. saved[i] = saved[j]
    BY <1>1, <1>2, <1>6, <1>7
  <2> QED BY <1>1, <1>7, <2>1
<1>8. ContentInv'
  <2> SUFFICES ASSUME NEW i \in 1..Len(run'.records)
               PROVE  ContentFits(i)'
    BY DEF ContentInv
  <2> DEFINE k == saved[i]
  <2>1. /\ k \in DOMAIN todo /\ run'.records[i].art = k[2]
        /\ run'.records[i].content = todo[k].content /\ run'.records[i].path = todo[k].path
    BY <1>1, <1>2
  <2> HIDE DEF k
  <2>2. /\ Strategy = "api" => todo[k].content = None
        /\ Strategy # "api" /\ todo[k].path # None =>
             todo[k].content = disk[todo[k].path][k[2]] \/ k[2] \in forgiven
    BY <1>3, <2>1 DEF EvidenceInv, SavedInv
  <2>3. Strategy # "api" => \A j \in 1..(i - 1) : ~Keyed(j, run.records[i].art)'
    <3> SUFFICES ASSUME Strategy # "api", NEW j \in 1..(i - 1)
                 PROVE  run'.records[j].art # run'.records[i].art
      BY DEF Keyed
    <3>1. j \in 1..Len(run'.records) /\ j # i
      BY <1>1
    <3> QED BY <1>7, <3>1
  <2> QED BY <1>1, <1>3, <2>1, <2>2, <2>3 DEF ContentFits
<1>9. OnceInv'
  <2> SUFFICES ASSUME Strategy # "api" PROVE OnceInv'
    BY <1>3 DEF OnceInv
  <2>1. \A i, j \in 1..Len(run'.records) : \A a : Keyed(i, a)' /\ Keyed(j, a)' => i = j
    BY <1>7 DEF Keyed
  <2>2. ASSUME NEW a \in run'.requests, Detailed(a)' PROVE FALSE
    <3>1. PICK i \in 1..Len(run'.records) : run'.records[i].art = a
      BY <2>2 DEF Detailed, Keyed
    <3>2. PICK k \in ItemsOf("fetch") : k[2] = a
      BY <1>1
    <3>3. k \in DOMAIN todo /\ todo[k].kind = "fetch"
      BY <3>2 DEF ItemsOf
    <3>4. k = saved[i]
      BY <1>1, <1>2, <1>6, <3>1, <3>2, <3>3
    <3> QED BY <1>1, <1>2, <3>1, <3>3, <3>4
  <2>3. ASSUME NEW a \in run'.entries PROVE <<"entry", a>> \in DOMAIN todo
    <3>1. PICK k \in ItemsOf("json_manifest_entry") : k[2] = a
      BY <1>1
    <3>2. k \in DOMAIN todo /\ k[1] = "entry" /\ k \in Key
      BY <3>1, ItemMapsAre DEF ItemsOf, BaseInv, TypeInv, ItemInv, ItemFits
    <3>3. k = <<"entry", a>>
      BY <3>1, <3>2 DEF Key
    <3> QED BY <3>2, <3>3
  <2> QED BY <1>1, <2>1, <2>2, <2>3 DEF OnceInv
<1>10. FileInv'
  BY <1>1 DEF FileInv
<1> QED BY <1>4, <1>8, <1>9, <1>10 DEF EvidenceInv

LEMMA ListingEvidence ==
  ASSUME BaseInv, EvidenceInv, NEW u \in SUBSET Article, NEW v \in SUBSET Article,
         ListPage(u, v) \/ PageLost
  PROVE  EvidenceInv'
<1>1. /\ UNCHANGED <<source, disk, todo>> /\ forgiven \subseteq forgiven'
      /\ run.pc = "discover" /\ run'.pc = "discover" /\ run'.mode = run.mode
      /\ run'.items = run.items
      /\ run.d.selected \subseteq run'.d.selected /\ run'.records = run.records
  BY ListPageIs, PageLostIs
<1>2. run'.requests = run.requests \cup (run'.d.selected \ run.d.selected)
        \/ run'.requests = run.requests
  BY ListPageIs, PageLostIs
<1>3. run.mode # "RETRY"
  BY ListPageIs, PageLostIs
<1>4. \A a \in run'.requests :
        a \in run.requests \/ (a \notin run.d.selected /\ a \in run'.d.selected)
  BY <1>2
<1>5. FileInv'
  BY <1>1 DEF FileInv
<1> QED BY <1>1, <1>3, <1>4, <1>5, EvidenceStays

LEMMA CollectPageEvidence ==
  ASSUME BaseInv, EvidenceInv, NEW unchecked, CollectPage(unchecked)
  PROVE  EvidenceInv'
<1>1. /\ run.pc = "discover" /\ run'.pc = "discover" /\ run'.mode = run.mode
      /\ run.mode # "RETRY" /\ run.mode # "REPROCESS" /\ Strategy = "api"
      /\ UNCHANGED <<source, todo>>
  BY CollectPageIs
<1>2. \A i \in 1..Len(run'.records) :
        \/ i \in 1..Len(run.records) /\ run'.records[i] = run.records[i]
        \/ run'.records[i].content = None
  BY CollectPageIs
<1>3. Strategy' = "api"
  BY <1>1 DEF Strategy
<1>4. SavedInv'
  BY <1>1, <1>3 DEF EvidenceInv, SavedInv
<1>5. ContentInv'
  <2>1. \A i \in 1..Len(run.records) : run.records[i].content = None
    BY <1>1 DEF EvidenceInv, ContentInv, ContentFits
  <2>2. \A i \in 1..Len(run'.records) : run'.records[i].content = None
    BY <1>2, <2>1
  <2> QED BY <1>3, <2>2 DEF ContentInv, ContentFits
<1>6. OnceInv' /\ FileInv'
  BY <1>1, <1>3 DEF OnceInv, FileInv
<1> QED BY <1>4, <1>5, <1>6 DEF EvidenceInv

\* The page of an article is overwritten when its record is made.
LEMMA AnswersEvidence ==
  ASSUME BaseInv, EvidenceInv, NEW a \in Article, NEW rec, Answers(a, rec),
         \A p \in Day, b \in Article : b # a => disk'[p][b] = disk[p][b],
         \/ rec.keyed /\ a \in run.requests /\ run'.requests = run.requests \ {a}
         \/ ~rec.keyed /\ disk' = disk,
         rec.path # None => rec.path = day /\ rec.content = disk'[day][a]
  PROVE  EvidenceInv'
<1> DEFINE n == Len(run.records)
<1>1. /\ UNCHANGED <<source, todo, forgiven>> /\ run'.items = run.items
      /\ run.pc = "discover" /\ run'.pc = run.pc /\ run'.mode = run.mode /\ run'.d = run.d
      /\ rec.art = a
      /\ run'.requests \subseteq run.requests /\ run'.entries \subseteq run.entries
      /\ Len(run'.records) = n + 1
      /\ run'.records[n + 1] = rec
      /\ \A i \in 1..n : run'.records[i] = run.records[i]
  BY DEF Answers
<1>2. run.mode # "REPROCESS" /\ Strategy # "api" /\ n \in Nat
  <2>1. RunFits(Strategy, run) /\ run.mode # "REPROCESS"
    BY <1>1, DiscoveringIs
  <2>2. Strategy # "api"
    <3>1. run.requests # {} \/ run.entries # {}
      BY DEF Answers
    <3> QED BY <2>1, <3>1 DEF RunFits
  <2> QED BY <1>1, <2>1, <2>2, RunIs DEF BaseInv
<1> HIDE DEF n
<1>3. /\ Strategy' = Strategy /\ Working /\ Working'
      /\ \A i \in 1..n : \A b : Keyed(i, b)' <=> Keyed(i, b)
      /\ \A i, b : i = n + 1 => (Keyed(i, b)' <=> b = a /\ rec.keyed)
  <2>1. \A i \in 1..n : \A b : Keyed(i, b)' <=> Keyed(i, b)
    BY <1>1 DEF Keyed
  <2>2. \A i, b : i = n + 1 => (Keyed(i, b)' <=> b = a /\ rec.keyed)
    BY <1>1 DEF Keyed
  <2> QED BY <1>1, <1>2, <2>1, <2>2 DEF Strategy, Working
<1>4. \A i \in 1..Len(run'.records) : i \in 1..n \/ i = n + 1
  BY <1>1, <1>2
<1>5. \A b : Detailed(b)' <=> Detailed(b) \/ (b = a /\ rec.keyed)
  <2> TAKE b
  <2>1. Detailed(b)' <=> \E i \in 1..(n + 1) : Keyed(i, b)'
    BY <1>1 DEF Detailed
  <2>2. Detailed(b) <=> \E i \in 1..n : Keyed(i, b)
    BY DEF Detailed, n
  <2>3. n + 1 \in 1..(n + 1) /\ \A i \in 1..n : i \in 1..(n + 1)
    BY <1>2
  <2> QED BY <1>1, <1>3, <1>4, <2>1, <2>2, <2>3
<1>6. SavedInv'
  <2> SUFFICES ASSUME NEW k \in DOMAIN todo, todo[k].path # None
               PROVE  \/ todo[k].content = disk'[todo[k].path][k[2]] \/ k[2] \in forgiven
                      \/ Working /\ Detailed(k[2])'
    BY <1>1, <1>2, <1>3 DEF SavedInv
  <2>1. todo[k].path \in Day /\ k[2] \in Article
    <3>1. todo[k] \in Item /\ k \in Key
      BY ItemMapsAre DEF BaseInv, TypeInv
    <3> QED BY <3>1 DEF Item, Key
  <2>2. \/ todo[k].content = disk[todo[k].path][k[2]] \/ k[2] \in forgiven \/ Detailed(k[2])
    BY <1>2 DEF EvidenceInv, SavedInv
  <2> QED BY <1>3, <1>5, <2>1, <2>2
<1>7. ContentInv'
  <2> SUFFICES ASSUME NEW i \in 1..Len(run'.records)
               PROVE  ContentFits(i)'
    BY DEF ContentInv
  <2>1. CASE i = n + 1
    <3>1. rec.path # None => rec.content = disk'[rec.path][rec.art]
      BY <1>1
    <3> QED BY <1>1, <1>2, <1>3, <2>1, <3>1 DEF ContentFits
  <2>2. CASE i \in 1..n
    <3>1. ContentFits(i) /\ run'.records[i] = run.records[i]
      BY <1>1, <1>2, <2>2 DEF EvidenceInv, ContentInv, n
    <3>2. PICK r, b, p : r = run.records[i] /\ b = r.art /\ p = r.path
      OBVIOUS
    <3>3. b \in Article /\ p \in Day \cup {None}
      BY <1>1, <2>2, <3>2, RunIs DEF BaseInv, Record, n
    <3>4. ASSUME p # None
          PROVE  \/ r.content = disk'[p][b]
                 \/ b \in forgiven /\ \A j \in 1..(i - 1) : ~Keyed(j, b)'
                 \/ \E j \in (i + 1)..Len(run'.records) : Keyed(j, b)'
      <4>1. CASE r.content = disk[p][b]
        <5>1. CASE b # a \/ disk' = disk
          BY <3>3, <3>4, <4>1, <5>1
        <5>2. CASE b = a /\ rec.keyed
          <6>1. PICK j : j = n + 1
            OBVIOUS
          <6>2. j \in (i + 1)..Len(run'.records) /\ Keyed(j, b)'
            BY <1>1, <1>2, <1>3, <2>2, <5>2, <6>1
          <6> QED BY <6>2
        <5> QED BY <5>1, <5>2
      <4>2. CASE b \in forgiven /\ \A j \in 1..(i - 1) : ~Keyed(j, b)
        <5>1. \A j \in 1..(i - 1) : j \in 1..n
          BY <1>2, <2>2
        <5> QED BY <1>3, <4>2, <5>1
      <4>3. CASE \E j \in (i + 1)..n : Keyed(j, b)
        <5>1. \A j \in (i + 1)..n : j \in 1..n /\ j \in (i + 1)..Len(run'.records)
          BY <1>1, <1>2, <2>2
        <5>2. PICK j \in (i + 1)..n : Keyed(j, b)
          BY <4>3
        <5>3. Keyed(j, b)'
          BY <1>3, <5>1, <5>2
        <5> QED BY <5>1, <5>3
      <4> QED BY <1>2, <1>3, <3>1, <3>2, <3>4, <4>1, <4>2, <4>3 DEF ContentFits, n
    <3>5. run'.records[i] = r
      BY <3>1, <3>2
    <3> QED BY <1>1, <1>2, <1>3, <3>2, <3>4, <3>5 DEF ContentFits
  <2> QED BY <1>4, <2>1, <2>2
<1>8. OnceInv'
  <2>1. /\ \A i, j \in 1..n : \A b : i # j /\ Keyed(i, b) /\ Keyed(j, b) => <<"entry", b>> \in run.items
        /\ \A b \in run.requests : Detailed(b) => <<"entry", b>> \in run.items
        /\ run.mode = "RETRY" => \A b \in run.entries : <<"entry", b>> \in run.items
        /\ run.mode # "RETRY" =>
             \A b : b \in run.requests \/ Detailed(b) => b \in run.d.selected
    BY <1>1, <1>2 DEF EvidenceInv, OnceInv, n
  <2>2. \A i \in 1..n : \A b : Keyed(i, b) => Detailed(b)
    BY DEF Detailed, n
  <2>3. ASSUME NEW i \in 1..Len(run'.records), NEW j \in 1..Len(run'.records), NEW b,
               i # j, Keyed(i, b)', Keyed(j, b)'
        PROVE  <<"entry", b>> \in run'.items
    <3>1. CASE i \in 1..n /\ j \in 1..n
      BY <1>1, <1>3, <2>1, <2>3, <3>1
    <3>2. CASE i = n + 1
      <4>1. j \in 1..n
        BY <1>4, <2>3, <3>2
      <4>2. Detailed(b) /\ b = a /\ rec.keyed
        BY <1>3, <2>2, <2>3, <3>2, <4>1
      <4> QED BY <1>1, <2>1, <4>2
    <3>3. CASE j = n + 1
      <4>1. i \in 1..n
        BY <1>4, <2>3, <3>3
      <4>2. Detailed(b) /\ b = a /\ rec.keyed
        BY <1>3, <2>2, <2>3, <3>3, <4>1
      <4> QED BY <1>1, <2>1, <4>2
    <3> QED BY <1>4, <3>1, <3>2, <3>3
  <2>4. \A b \in run'.requests : Detailed(b)' => <<"entry", b>> \in run'.items
    BY <1>1, <1>5, <2>1
  <2>5. run'.mode = "RETRY" => \A b \in run'.entries : <<"entry", b>> \in run'.items
    BY <1>1, <2>1
  <2>6. run'.mode # "RETRY" =>
          \A b : b \in run'.requests \/ Detailed(b)' => b \in run'.d.selected
    BY <1>1, <1>5, <2>1
  <2> QED BY <2>3, <2>4, <2>5, <2>6 DEF OnceInv
<1>9. FileInv'
  BY <1>1 DEF FileInv
<1> QED BY <1>6, <1>7, <1>8, <1>9 DEF EvidenceInv

LEMMA DetailEvidence ==
  ASSUME BaseInv, EvidenceInv, NEW a \in Article,
         FetchDetail(a) \/ DetailFailed(a) \/ DetailMissing(a) \/ RetryEntry(a)
  PROVE  EvidenceInv'
<1>0. run.pc = "discover" => (run.requests # {} => Strategy # "api")
  BY DiscoveringIs DEF RunFits
<1>5. \A r \in Run : \A q, s, t : [r EXCEPT !.requests = q, !.produced = s, !.records = t].requests = q
  BY DEF Run
<1>6. run.pc = "discover" => run \in Run
  BY RunIs DEF BaseInv
<1>1. CASE FetchDetail(a)
  <2>1. /\ a \in run.requests
        /\ \A p \in Day, b \in Article :
             disk'[p][b] = IF p = day /\ b = a THEN site.content[a] ELSE disk[p][b]
    BY <1>1, FetchIs
  <2>2. PICK rec : /\ Answers(a, rec) /\ rec.keyed = (Strategy # "api")
                   /\ rec.path # None => rec.path = day /\ rec.content = site.content[a]
    BY <1>1, FetchIs
  <2>3. day \in Day
    BY DEF BaseInv, TypeInv
  <2>4. run.pc = "discover" /\ rec.keyed
    BY <1>0, <2>1, <2>2 DEF Answers
  <2>5. \E s, t : run' = [run EXCEPT !.requests = run.requests \ {a}, !.produced = s, !.records = t]
    BY <1>1, Zenon DEF FetchDetail
  <2>6. run'.requests = run.requests \ {a}
    BY <1>5, <1>6, <2>4, <2>5
  <2> QED BY <2>1, <2>2, <2>3, <2>4, <2>6, AnswersEvidence
<1>2. CASE DetailFailed(a)
  <2>1. a \in run.requests /\ disk' = disk
    BY <1>2, FailedIs
  <2>2. PICK rec : Answers(a, rec) /\ rec.keyed = (Strategy # "api") /\ rec.path = None
    BY <1>2, FailedIs
  <2>3. run.pc = "discover" /\ rec.keyed
    BY <1>0, <2>1, <2>2 DEF Answers
  <2>4. \E s, t : run' = [run EXCEPT !.requests = run.requests \ {a}, !.produced = s, !.records = t]
    BY <1>2, Zenon DEF DetailFailed
  <2>5. run'.requests = run.requests \ {a}
    BY <1>5, <1>6, <2>3, <2>4
  <2> QED BY <2>1, <2>2, <2>3, <2>5, AnswersEvidence
<1>3. CASE DetailMissing(a)
  <2>1. /\ UNCHANGED <<source, disk, todo>> /\ forgiven \subseteq forgiven'
        /\ run.pc = "discover" /\ run'.pc = "discover" /\ run'.mode = run.mode
        /\ run'.items = run.items /\ run'.entries = run.entries
        /\ run'.d = run.d /\ run'.records = run.records /\ run'.requests = run.requests \ {a}
    BY <1>3, MissingIs
  <2>2. FileInv'
    BY <2>1 DEF FileInv
  <2> QED BY <2>1, <2>2, EvidenceStays
<1>4. CASE RetryEntry(a)
  <2>1. /\ run.mode = "RETRY" /\ run.pc = "discover" /\ a \in run.entries /\ disk' = disk
        /\ \/ /\ UNCHANGED <<source, todo, forgiven>>
              /\ run'.pc = "discover" /\ run'.mode = run.mode /\ run'.d = run.d
              /\ run'.items = run.items /\ run'.records = run.records
              /\ run'.requests = run.requests \cup {a} /\ run'.entries = run.entries \ {a}
           \/ \E rec : Answers(a, rec) /\ ~rec.keyed /\ rec.path = None
    BY <1>4, RetryEntryIs, Zenon
  <2>2. CASE \E rec : Answers(a, rec) /\ ~rec.keyed /\ rec.path = None
    BY <2>1, <2>2, AnswersEvidence
  <2>3. CASE /\ UNCHANGED <<source, todo, forgiven>>
             /\ run'.pc = "discover" /\ run'.mode = run.mode /\ run'.d = run.d
             /\ run'.items = run.items /\ run'.records = run.records
             /\ run'.requests = run.requests \cup {a} /\ run'.entries = run.entries \ {a}
    <3>1. Strategy # "api"
      BY <2>1, DiscoveringIs DEF RunFits
    <3>2. <<"entry", a>> \in run.items
      BY <2>1, <3>1 DEF EvidenceInv, OnceInv
    <3>3. FileInv'
      BY <2>3 DEF FileInv
    <3> QED BY <2>1, <2>3, <3>2, <3>3, EvidenceStays
  <2> QED BY <2>1, <2>2, <2>3
<1> QED BY <1>1, <1>2, <1>3, <1>4

LEMMA RecordsEvidence ==
  ASSUME BaseInv, EvidenceInv, Persist \/ ProcessRecord \/ ProcessFails \/ PassOver
  PROVE  EvidenceInv'
<1>1. PICK rec :
        /\ Turns(rec)
        /\ rec.keyed = Here.keyed \/ (rec.keyed /\ Here.state \in {"stored", "duplicate"})
        /\ \/ rec = Here
           \/ rec.state \in {"failed", "done"}
           \/ /\ run.pc = "persist" /\ Here.state = "fetched"
              /\ rec.file.content = disk[Here.path][Here.art]
  <2>1. CASE Persist
    BY <2>1, PersistIs
  <2>2. CASE ProcessRecord
    BY <2>2, ProcessRecordIs
  <2>3. CASE ProcessFails \/ PassOver
    BY <2>3, PassesIs
  <2> QED BY <2>1, <2>2, <2>3
<1>2. /\ UNCHANGED <<source, disk, todo, forgiven>> /\ run.pc \in {"persist", "process"}
      /\ run.next \in 1..Len(run.records) /\ run'.items = run.items /\ run'.entries = run.entries
      /\ run'.pc = run.pc /\ run'.mode = run.mode /\ run'.d = run.d /\ run'.requests = run.requests
      /\ Len(run'.records) = Len(run.records) /\ run'.records[run.next] = rec
      /\ rec.art = run.records[run.next].art /\ rec.content = run.records[run.next].content
      /\ rec.path = run.records[run.next].path
      /\ \A i \in 1..Len(run.records) : i # run.next => run'.records[i] = run.records[i]
  BY <1>1 DEF Turns, Here
<1>3. \A i \in 1..Len(run.records) :
        /\ run'.records[i].art = run.records[i].art
        /\ run'.records[i].content = run.records[i].content
        /\ run'.records[i].path = run.records[i].path
  BY <1>2
<1>4. FileInv'
  <2> SUFFICES ASSUME NEW i \in 1..Len(run'.records), NEW r, r = run'.records[i]
               PROVE  FileFits(r)'
    BY DEF FileInv
  <2>1. CASE r = run.records[i]
    <3>1. FileFits(r)
      BY <1>2, <2>1 DEF EvidenceInv, FileInv
    <3> QED BY <1>2, <3>1 DEF FileFits
  <2>2. CASE r = rec /\ rec.state \in {"failed", "done"}
    BY <2>2 DEF FileFits
  <2>3. CASE /\ i = run.next /\ r = rec /\ run.pc = "persist" /\ Here.state = "fetched"
             /\ rec.file.content = disk[Here.path][Here.art]
    <3>1. run.mode # "REPROCESS"
      BY <2>3 DEF BaseInv, RunInv, RunFits
    <3>2. Here.path # None
      BY <1>2, <2>3, HereIs DEF RecordFits
    <3> QED BY <1>2, <2>3, <3>1, <3>2 DEF FileFits, Here
  <2> QED BY <1>1, <1>2, <2>1, <2>2, <2>3 DEF Here
<1>5. ASSUME Strategy # "api", run.mode # "REPROCESS", NEW i \in 1..Len(run.records)
      PROVE  run'.records[i].keyed = run.records[i].keyed
  <2>1. CASE i # run.next
    BY <1>2, <2>1
  <2>2. CASE i = run.next
    <3>1. RecordFits(Strategy, Here, run.mode, Listed, InCore, raw, disk) /\ Here \in Record
      BY <1>2, HereIs
    <3>2. Here.state \in {"stored", "duplicate"} => Here.keyed
      BY <1>5, <3>1 DEF RecordFits
    <3>3. rec.keyed \in BOOLEAN /\ Here.keyed \in BOOLEAN
      BY <1>1, <3>1 DEF Turns, Record
    <3>4. rec.keyed = Here.keyed
      <4>1. CASE rec.keyed = Here.keyed
        BY <4>1
      <4>2. CASE rec.keyed /\ Here.state \in {"stored", "duplicate"}
        BY <3>2, <3>3, <4>2
      <4> QED BY <1>1, <4>1, <4>2
    <3> QED BY <1>2, <2>2, <3>4 DEF Here
  <2> QED BY <2>1, <2>2
<1> QED BY <1>2, <1>3, <1>4, <1>5, EvidenceStays

LEMMA StageEvidence ==
  ASSUME BaseInv, EvidenceInv, Acquired \/ Persisted
  PROVE  EvidenceInv'
<1>1. /\ UNCHANGED <<source, disk, todo, forgiven>>
      /\ run'.mode = run.mode /\ run'.d = run.d /\ run'.requests = run.requests
      /\ run'.records = run.records /\ run'.items = run.items /\ run'.entries = run.entries
      /\ \/ run.pc = "discover" /\ run'.pc = "persist"
         \/ run.pc = "persist" /\ run'.pc = "process"
  BY StageBase
<1>2. FileInv'
  <2> SUFFICES ASSUME NEW i \in 1..Len(run.records), NEW r, r = run.records[i]
               PROVE  FileFits(r)'
    BY <1>1 DEF FileInv
  <2>1. CASE run.pc = "discover"
    BY <2>1 DEF BaseInv, StageInv, StateFits, FileFits
  <2>2. CASE run.pc = "persist"
    BY <1>1, <2>2 DEF EvidenceInv, FileInv, FileFits
  <2> QED BY <1>1, <2>1, <2>2
<1> QED BY <1>1, <1>2, EvidenceStays

\* An item that stays belongs to no record; a new one has the fields of its
\* record and its file. An excuse that goes is that of an article in Core.
LEMMA UpdateEvidence ==
  ASSUME BaseInv, EvidenceInv, UpdateTodo
  PROVE  EvidenceInv'
<1> DEFINE n == Len(run.records)
<1>1. /\ run.pc = "process" /\ run.mode # "REPROCESS" /\ UNCHANGED <<source, disk>>
      /\ run'.pc = "todo" /\ run'.mode = run.mode /\ run'.d = run.d
      /\ run'.requests = run.requests /\ run'.records = run.records
      /\ run'.items = run.items /\ run'.entries = run.entries
      /\ forgiven' = forgiven \
           {run.records[i].art : i \in {j \in 1..n : run.records[j].state = "done"}}
  BY UpdateIs
<1>2. /\ Strategy' = Strategy /\ Working /\ ~Working' /\ n \in Nat
      /\ \A i, a : Keyed(i, a)' <=> Keyed(i, a)
  BY <1>1, RunIs DEF BaseInv, Strategy, Working, Keyed
<1>3. \A a : Detailed(a)' <=> Detailed(a)
  BY <1>1, <1>2 DEF Detailed
<1>4. \A i \in 1..n :
        /\ run.records[i] \in Record /\ ContentFits(i)
        /\ run.records[i].state \in {"done", "failed", "entry_failed"}
        /\ run.records[i].state # "done" => Retriable(run.records[i])
        /\ RecordFits(Strategy, run.records[i], run.mode, Listed, InCore, raw, disk)
  BY <1>1, RunIs, UpdateIs DEF BaseInv, RecordInv, EvidenceInv, ContentInv
<1>5. \A i \in 1..n : run.records[i].state = "done" => Keyed(i, run.records[i].art)
  BY <1>4 DEF RecordFits, Keyed
<1>6. \A i \in 1..n : \A a : Keyed(i, a) => Touches(run.records[i], <<"record", a>>)
  BY DEF Keyed, Touches, KeySet, FirstKey
<1> HIDE DEF n
<1>7. ASSUME NEW a, \A j \in 1..n : ~Keyed(j, a), a \in forgiven
      PROVE  a \in forgiven'
  BY <1>1, <1>5, <1>7
<1>8. ASSUME NEW k \in DOMAIN todo'
      PROVE  /\ Strategy = "api" => todo'[k].content = None
             /\ Strategy # "api" /\ todo'[k].path # None =>
                  todo'[k].content = disk[todo'[k].path][k[2]] \/ k[2] \in forgiven'
  <2>1. CASE /\ k \in DOMAIN todo /\ todo'[k] = todo[k]
             /\ \A i \in 1..n : ~Touches(run.records[i], k)
    <3>1. /\ Strategy = "api" => todo[k].content = None
          /\ Strategy # "api" /\ todo[k].path # None =>
               \/ todo[k].content = disk[todo[k].path][k[2]] \/ k[2] \in forgiven
               \/ Detailed(k[2])
      BY <2>1 DEF EvidenceInv, SavedInv
    <3>2. ASSUME Strategy # "api", todo[k].path # None
          PROVE  \A j \in 1..n : ~Keyed(j, k[2])
      <4>1. k = <<"record", k[2]>>
        <5>1. k \in Key
          BY <2>1, ItemMapsAre DEF BaseInv, TypeInv
        <5>2. k[1] # "path" /\ k[1] # "entry"
          BY <2>1, <3>2 DEF BaseInv, ItemInv, ItemFits
        <5> QED BY <5>1, <5>2 DEF Key
      <4> QED BY <1>6, <2>1, <4>1
    <3> QED BY <1>7, <2>1, <3>1, <3>2 DEF Detailed, n
  <2>2. CASE todo'[k] = EntryItem(k[2])
    BY <2>2 DEF EntryItem
  <2>3. ASSUME NEW i \in 1..n, run.records[i].state # "done",
               k = FirstKey(run.records[i]), todo'[k] = RetryItem(run.records[i]),
               \A j \in (i + 1)..n : ~Touches(run.records[j], k)
        PROVE  /\ Strategy = "api" => todo'[k].content = None
               /\ Strategy # "api" /\ todo'[k].path # None =>
                    todo'[k].content = disk[todo'[k].path][k[2]] \/ k[2] \in forgiven'
    <3> DEFINE rec == run.records[i]
    <3>1. /\ rec \in Record /\ Retriable(rec) /\ ContentFits(i)
          /\ RecordFits(Strategy, rec, run.mode, Listed, InCore, raw, disk)
      BY <1>4, <2>3
    <3>2. k[2] = rec.art /\ todo'[k].content = rec.content /\ todo'[k].path = rec.path
      <4>1. /\ RetryItem(rec).content = rec.content /\ RetryItem(rec).path = rec.path
        BY <3>1, RetryItemIs
      <4>2. FirstKey(rec)[2] = rec.art
        BY DEF FirstKey
      <4> QED BY <2>3, <4>1, <4>2
    <3>3. Strategy = "api" => rec.content = None
      BY <3>1 DEF ContentFits
    <3>4. ASSUME Strategy # "api", rec.path # None
          PROVE  rec.content = disk[rec.path][rec.art] \/ rec.art \in forgiven'
      <4>1. rec.keyed
        BY <1>1, <3>1, <3>4 DEF RecordFits
      <4>2. k = <<"record", rec.art>>
        BY <2>3, <4>1 DEF FirstKey
      <4>3. \A j \in (i + 1)..n : ~Keyed(j, rec.art)
        <5>1. \A j \in (i + 1)..n : j \in 1..n
          BY <1>2
        <5> QED BY <1>6, <2>3, <4>2, <5>1
      <4>4. \/ rec.content = disk[rec.path][rec.art]
            \/ rec.art \in forgiven /\ \A j \in 1..(i - 1) : ~Keyed(j, rec.art)
        BY <1>2, <3>1, <3>4, <4>3 DEF ContentFits, n
      <4>5. ASSUME rec.art \in forgiven, \A j \in 1..(i - 1) : ~Keyed(j, rec.art)
            PROVE  rec.art \in forgiven'
        <5>1. ASSUME NEW j \in 1..n, run.records[j].art = rec.art, run.records[j].state = "done"
              PROVE  FALSE
          <6>1. Keyed(j, rec.art) /\ j # i
            BY <1>5, <2>3, <5>1
          <6>2. j \in 1..(i - 1) \/ j \in (i + 1)..n
            BY <1>2, <5>1, <6>1
          <6> QED BY <4>3, <4>5, <6>1, <6>2
        <5> QED BY <1>1, <4>5, <5>1
      <4> QED BY <4>4, <4>5
    <3> HIDE DEF rec
    <3> QED BY <3>2, <3>3, <3>4
  <2> QED BY <2>1, <2>2, <2>3, UpdateIs DEF n
<1>9. SavedInv'
  BY <1>1, <1>2, <1>8 DEF SavedInv
<1>10. ContentInv'
  <2> SUFFICES ASSUME NEW i \in 1..n PROVE ContentFits(i)'
    BY <1>1 DEF ContentInv, n
  <2> QED BY <1>1, <1>2, <1>4 DEF ContentFits
<1>11. OnceInv'
  <2> SUFFICES ASSUME Strategy # "api" PROVE OnceInv'
    BY <1>2 DEF OnceInv
  <2> QED BY <1>1, <1>2, <1>3 DEF EvidenceInv, OnceInv
<1>12. FileInv'
  BY <1>1 DEF FileInv
<1> QED BY <1>9, <1>10, <1>11, <1>12 DEF EvidenceInv

LEMMA EndEvidence ==
  ASSUME BaseInv, EvidenceInv, Crash \/ \E s \in {"SUCCESS", "PARTIAL", "FAILED"} : Report(s)
  PROVE  EvidenceInv'
<1>1. /\ run'.pc = "idle" /\ UNCHANGED <<source, disk, todo>>
  BY DEF Crash, Report, Idle
<1>2. Strategy' = Strategy
  BY <1>1 DEF Strategy
<1>3. ASSUME NEW k \in DOMAIN todo
      PROVE  /\ Strategy = "api" => todo[k].content = None
             /\ Strategy # "api" /\ todo[k].path # None =>
                  todo[k].content = disk[todo[k].path][k[2]] \/ k[2] \in forgiven'
  <2>1. /\ Strategy = "api" => todo[k].content = None
        /\ Strategy # "api" /\ todo[k].path # None =>
             \/ todo[k].content = disk[todo[k].path][k[2]] \/ k[2] \in forgiven
             \/ Working
    BY DEF EvidenceInv, SavedInv
  <2>2. CASE Crash
    <3>1. k[2] \in Listed
      BY DEF BaseInv, ItemInv, ItemFits
    <3> QED BY <2>1, <2>2, <3>1 DEF Crash
  <2>3. CASE \E s \in {"SUCCESS", "PARTIAL", "FAILED"} : Report(s)
    <3>1. ~Working /\ forgiven' = forgiven
      BY <2>3 DEF Report, Working
    <3> QED BY <2>1, <3>1
  <2> QED BY <2>2, <2>3
<1>4. SavedInv'
  BY <1>1, <1>2, <1>3 DEF SavedInv
<1>5. ContentInv' /\ OnceInv' /\ FileInv'
  BY <1>1 DEF ContentInv, OnceInv, FileInv
<1> QED BY <1>4, <1>5 DEF EvidenceInv

LEMMA EvidenceInit == Init => EvidenceInv
<1> SUFFICES ASSUME Init PROVE EvidenceInv
  OBVIOUS
<1>1. run.pc = "idle" /\ DOMAIN todo = {}
  BY DEF Init, Idle
<1> QED BY <1>1 DEF EvidenceInv, SavedInv, ContentInv, OnceInv, FileInv

LEMMA EvidenceStep == BaseInv /\ EvidenceInv /\ [Next]_vars => EvidenceInv'
<1> SUFFICES ASSUME BaseInv, EvidenceInv, [Next]_vars PROVE EvidenceInv'
  OBVIOUS
<1>1. Environment \/ UNCHANGED vars => UNCHANGED <<source, disk, todo, run, forgiven>>
  BY DEF Environment, Publish, EditPage, SpoilEntry, NextDay, NewRelease, vars
<1>2. CASE Acquire
  <2>1. ASSUME NEW mode \in Mode, Start(mode) PROVE EvidenceInv'
    BY <2>1, StartEvidence
  <2>2. CASE StartRetry
    BY <2>2, RetryEvidence
  <2>3. ASSUME NEW unread \in SUBSET Article, StartReprocess(unread) PROVE EvidenceInv'
    BY <2>3, ReprocessEvidence
  <2>4. ASSUME NEW u \in SUBSET Article, NEW v \in SUBSET Article, ListPage(u, v) \/ PageLost
        PROVE  EvidenceInv'
    BY <2>4, ListingEvidence
  <2>5. CASE PageLost
    BY <2>4, <2>5
  <2>6. ASSUME NEW unchecked \in SUBSET Article, CollectPage(unchecked) PROVE EvidenceInv'
    BY <2>6, CollectPageEvidence
  <2>7. ASSUME NEW a \in Article,
               FetchDetail(a) \/ DetailFailed(a) \/ DetailMissing(a) \/ RetryEntry(a)
        PROVE  EvidenceInv'
    BY <2>7, DetailEvidence
  <2>8. CASE Acquired
    BY <2>8, StageEvidence
  <2> QED BY <1>2, <2>1, <2>2, <2>3, <2>4, <2>5, <2>6, <2>7, <2>8 DEF Acquire
<1>3. CASE Process
  <2>1. CASE Persist \/ ProcessRecord \/ ProcessFails \/ PassOver
    BY <2>1, RecordsEvidence
  <2>2. CASE Persisted
    BY <2>2, StageEvidence
  <2>3. CASE UpdateTodo
    BY <2>3, UpdateEvidence
  <2>4. CASE \E s \in {"SUCCESS", "PARTIAL", "FAILED"} : Report(s)
    BY <2>4, EndEvidence
  <2> QED BY <1>3, <2>1, <2>2, <2>3, <2>4 DEF Process
<1>4. CASE Crash
  BY <1>4, EndEvidence
<1> QED BY <1>1, <1>2, <1>3, <1>4, IdleEvidence DEF Next

\* Only the transaction of a record changes Core.
LEMMA CoreChanges ==
  ASSUME BaseInv, [Next]_vars, core' # core
  PROVE  ProcessRecord
<1>1. CASE Environment
  BY <1>1 DEF Environment, Publish, EditPage, SpoilEntry, NextDay, NewRelease
<1>2. CASE Acquire
  <2>1. ASSUME NEW mode \in Mode, Start(mode) PROVE core' = core
    BY <2>1, StartIs
  <2>2. CASE StartRetry
    BY <2>2 DEF StartRetry
  <2>3. ASSUME NEW unread \in SUBSET Article, StartReprocess(unread) PROVE core' = core
    BY <2>3, Zenon DEF StartReprocess
  <2>4. ASSUME NEW unnamed \in SUBSET Article, NEW unread \in SUBSET Article,
               ListPage(unnamed, unread)
        PROVE  core' = core
    BY <2>4, Zenon DEF ListPage
  <2>5. CASE PageLost
    BY <2>5, PageLostIs
  <2>6. ASSUME NEW unchecked \in SUBSET Article, CollectPage(unchecked) PROVE core' = core
    BY <2>6, Zenon DEF CollectPage
  <2>7. ASSUME NEW a \in Article,
               FetchDetail(a) \/ DetailFailed(a) \/ DetailMissing(a) \/ RetryEntry(a)
        PROVE  core' = core
    BY <2>7, Zenon DEF FetchDetail, DetailFailed, DetailMissing, RetryEntry
  <2>8. CASE Acquired
    BY <2>8, StageBase
  <2> QED BY <1>2, <2>1, <2>2, <2>3, <2>4, <2>5, <2>6, <2>7, <2>8 DEF Acquire
<1>3. CASE Process
  <2>1. CASE Persist
    BY <2>1, Zenon DEF Persist
  <2>2. CASE Persisted
    BY <2>2, StageBase
  <2>3. CASE ProcessFails \/ PassOver
    BY <2>3, Zenon DEF ProcessFails, PassOver
  <2>4. CASE UpdateTodo
    BY <2>4, UpdateIs
  <2>5. ASSUME NEW s \in {"SUCCESS", "PARTIAL", "FAILED"}, Report(s) PROVE core' = core
    BY <2>5 DEF Report
  <2> QED BY <1>3, <2>1, <2>2, <2>3, <2>4, <2>5 DEF Process
<1>4. CASE Crash
  BY <1>4 DEF Crash
<1>5. CASE UNCHANGED vars
  BY <1>5 DEF vars
<1> QED BY <1>1, <1>2, <1>3, <1>4, <1>5 DEF Next

\* process_media_record parses the fields it was given or the registered file:
\* both are the state of the page on the disk.
THEOREM EvidenceCorrect == Spec => [](BaseInv /\ EvidenceInv)
<1>1. Init => EvidenceInv
  BY EvidenceInit
<1>2. BaseInv /\ EvidenceInv /\ [Next]_vars => EvidenceInv'
  BY EvidenceStep
<1> QED BY <1>1, <1>2, BaseCorrect, PTL DEF Spec

\* insert_media_version names the raw file from which the content of the version
\* was made, whichever run fetched it.
THEOREM EvidenceMatchesHolds == Spec => EvidenceMatches
<1>1. ASSUME BaseInv, EvidenceInv, [Next]_vars, NEW a \in Article, Len(core'[a]) > Len(core[a])
      PROVE  \/ a \in forgiven \/ <<"entry", a>> \in DOMAIN todo
             \/ Current(a)'.file.content = Current(a)'.content
  <2>1. ProcessRecord
    <3>1. core' # core
      BY <1>1 DEF BaseInv, TypeInv
    <3> QED BY <1>1, <3>1, CoreChanges
  <2>2. /\ run.pc = "process" /\ run.next <= Len(run.records)
        /\ Here.state \in {"stored", "duplicate"} /\ ParseAs(Here) \in Edit
    BY <1>1, <2>1, ProcessRecordIs
  <2>3. a = Here.art
    <3>1. a # Here.art => core'[a] = core[a]
      BY <1>1, <2>1, ProcessRecordIs
    <3> QED BY <1>1, <3>1 DEF BaseInv, TypeInv
  <2>4. Current(a)'.content = ParseAs(Here) /\ Current(a)'.file = Here.file
    <3>1. core' # core
      BY <1>1 DEF BaseInv, TypeInv
    <3> QED BY <1>1, <2>1, <2>3, <3>1, ProcessRecordIs
  <2>5. run.next \in 1..Len(run.records) /\ Here \in Record /\ Here = run.records[run.next]
    BY <1>1, <2>2, HereIs DEF Here
  <2>6. FileFits(Here)
    BY <1>1, <2>2, <2>5 DEF EvidenceInv, FileInv
  <2>7. CASE run.mode = "REPROCESS"
    <3>1. Here.content = Here.file.content
      BY <2>2, <2>6, <2>7 DEF FileFits
    <3>2. Here.file \in raw /\ Here.file.content # None
      BY <1>1, <2>1, ProcessRecordIs DEF BaseInv, TypeInv, File, Edit, None
    <3> QED BY <2>4, <3>1, <3>2 DEF ParseAs
  <2>8. CASE run.mode # "REPROCESS"
    <3>1. Here.path # None /\ Here.file.content = disk[Here.path][Here.art]
      BY <2>2, <2>6, <2>8 DEF FileFits
    <3>2. ContentFits(run.next) /\ Working
      BY <1>1, <2>2, <2>5, <2>8 DEF EvidenceInv, ContentInv, Working
    <3>3. CASE Here.content = None
      BY <2>4, <3>1, <3>3 DEF ParseAs
    <3>4. CASE Here.content # None
      <4>1. Strategy # "api"
        BY <2>5, <3>2, <3>4 DEF ContentFits
      <4>2. CASE \E j \in (run.next + 1)..Len(run.records) : Keyed(j, a)
        <5>1. PICK j \in (run.next + 1)..Len(run.records) : Keyed(j, a)
          BY <4>2
        <5>2. j \in 1..Len(run.records) /\ j # run.next
          BY <2>5
        <5>3. Keyed(run.next, a)
          <6>1. RecordFits(Strategy, Here, run.mode, Listed, InCore, raw, disk)
            BY <1>1, <2>2, HereIs
          <6> QED BY <2>2, <2>3, <2>5, <2>8, <4>1, <6>1 DEF RecordFits, Keyed
        <5>4. <<"entry", a>> \in run.items
          BY <1>1, <2>2, <2>5, <2>8, <4>1, <5>1, <5>2, <5>3 DEF EvidenceInv, OnceInv
        <5>5. run.items = {} \/ run.items = DOMAIN todo
          <6>1. run.mode \in {"INITIAL", "INCREMENTAL", "RETRY"}
            BY <1>1, <2>2, <2>8, RunIs DEF BaseInv, Run, Mode
          <6> QED BY <1>1, <2>2, <6>1 DEF BaseInv, RunInv, RunFits
        <5> QED BY <5>4, <5>5
      <4>3. CASE Here.content = disk[Here.path][Here.art] \/ Here.art \in forgiven
        BY <2>3, <2>4, <3>1, <3>4, <4>3 DEF ParseAs
      <4> QED BY <2>3, <2>5, <3>1, <3>2, <4>1, <4>2, <4>3 DEF ContentFits
    <3> QED BY <3>3, <3>4
  <2> QED BY <2>7, <2>8
<1>2. BaseInv /\ EvidenceInv /\ [Next]_vars =>
        [\A a \in Article : Len(core'[a]) > Len(core[a]) =>
           LET v == core'[a][Len(core'[a])]
           IN  a \in forgiven \/ <<"entry", a>> \in DOMAIN todo \/ v.file.content = v.content]_vars
  <2>1. \A a \in Article : Current(a)' = core'[a][Len(core'[a])]
    BY DEF Current
  <2> QED BY <1>1, <2>1
<1> QED BY <1>2, EvidenceCorrect, PTL DEF Spec, EvidenceMatches

(***************************************************************************)
(* Core does not go backwards                                              *)
(***************************************************************************)
DoneFor(a) ==
  \E i \in 1..Len(run.records) : run.records[i].art = a /\ run.records[i].state = "done"

\* The records of article a behind record i: one is done, none names the article.
DoneAfter(i, a) ==
  \E j \in 1..Len(run.records) :
    j > i /\ run.records[j].art = a /\ run.records[j].state = "done"
Newest(i, a) ==
  \A j \in 1..Len(run.records) : j > i /\ run.records[j].art = a => ~run.records[j].keyed

\* Record i is not the first of the article.
Twice(i, a) == \E h \in 1..Len(run.records) : h < i /\ run.records[h].art = a

\* Core shows no later state of the article than c; its file is no later.
Beyond(a, c)  == a \in InCore => Current(a).content <= c
Abreast(a, c) == a \in InCore => Current(a).file.content <= c

\* A run that was cut short left the article to be settled.
Excused(a) == a \in forgiven /\ ~DoneFor(a)

\* What a version says is no later than its file, and its file no later than
\* the page.
VersionInv ==
  Strategy # "api" =>
    \A a \in InCore : /\ Current(a).content <= Current(a).file.content
                      /\ Current(a).file.content <= site.content[a]

\* The record of a file that was read again is of the file behind the version.
RereadInv ==
  run.pc = "process" /\ run.mode = "REPROCESS" =>
    \A i \in 1..Len(run.records) :
      run.records[i].state = "duplicate" =>
        run.records[i].file = Current(run.records[i].art).file

\* How old record i is, r being its value: the fields are no later than the
\* file, the records of an article come in their order, and Core is past a record
\* only when the record is done or a later one is. The last record of an article
\* that has more than one was fetched in this run: no saved file is later.
AgeFits(i, r) ==
  /\ r.content <= disk[r.path][r.art]
  /\ \A j \in 1..Len(run.records) :
       j > i /\ run.records[j].art = r.art /\ run.records[j].path # None =>
         r.content <= run.records[j].content
  /\ r.state = "done" \/ Beyond(r.art, r.content) \/ Excused(r.art) \/ DoneAfter(i, r.art)
  /\ Newest(i, r.art) => r.state = "done" \/ Abreast(r.art, r.content) \/ Excused(r.art)
  /\ Newest(i, r.art) /\ Twice(i, r.art) =>
       /\ \A p \in Day : disk[p][r.art] <= r.content
       /\ r.state = "done" \/ Abreast(r.art, r.content)

AgeInv ==
  Strategy # "api" /\ Working =>
    \A i \in 1..Len(run.records) :
      run.records[i].path # None => AgeFits(i, run.records[i])

\* An item is no older than the version of its article, until the run that has
\* brought the article to Core settles it.
ItemAge(k, item) ==
  item.path # None =>
    /\ item.content <= disk[item.path][k[2]]
    /\ \/ Abreast(k[2], item.content) \/ k[2] \in forgiven
       \/ run.pc = "process" /\ run.mode # "REPROCESS" /\ DoneFor(k[2])

ItemAgeInv == Strategy # "api" => \A k \in DOMAIN todo : ItemAge(k, todo[k])

OrderedInv == VersionInv /\ RereadInv /\ AgeInv /\ ItemAgeInv

\* Every state of a page is a number.
LEMMA AgesAre ==
  ASSUME TypeInv
  PROVE  /\ \A a \in Article : site.content[a] \in Nat
         /\ \A p \in Day, a \in Article : disk[p][a] \in Nat
         /\ \A a \in InCore : Current(a).content \in Nat /\ Current(a).file.content \in Nat
         /\ \A k \in DOMAIN todo : /\ k[2] \in Article /\ todo[k].content \in Nat
                                   /\ todo[k].path # None => todo[k].path \in Day
         /\ run.pc # "idle" =>
              \A i \in 1..Len(run.records) :
                /\ run.records[i].art \in Article /\ run.records[i].content \in Nat
                /\ run.records[i].path # None => run.records[i].path \in Day
<1>1. Edit \subseteq Nat /\ None \in Nat
  BY DEF Edit, None
<1>2. /\ \A a \in Article : site.content[a] \in Edit
      /\ \A p \in Day, a \in Article : disk[p][a] \in Edit \cup {None}
  BY DEF TypeInv
<1>3. \A a \in InCore : Current(a).content \in Edit /\ Current(a).file.content \in Edit
  BY CoreIs
<1>4. ASSUME NEW k \in DOMAIN todo
      PROVE  /\ k[2] \in Article /\ todo[k].content \in Edit \cup {None}
             /\ todo[k].path \in Day \cup {None}
  <2>1. todo[k] \in Item /\ k \in Key
    BY ItemMapsAre DEF TypeInv
  <2> QED BY <2>1 DEF Item, Key
<1>5. ASSUME run.pc # "idle", NEW i \in 1..Len(run.records)
      PROVE  /\ run.records[i].art \in Article /\ run.records[i].content \in Edit \cup {None}
             /\ run.records[i].path \in Day \cup {None}
  <2>1. run.records[i] \in Record
    BY <1>5, RunIs
  <2> QED BY <2>1 DEF Record
<1> QED BY <1>1, <1>2, <1>3, <1>4, <1>5

\* The stage of a run changes, or a record that is not done by it: the files, Core
\* and the list stay, and no excuse is lost.
LEMMA OrderStays ==
  ASSUME BaseInv, OrderedInv, UNCHANGED <<source, disk, core, todo>>,
         \A a \in InCore : site.content[a] <= site'.content[a],
         \A a \in Article : site'.content[a] \in Nat,
         forgiven \subseteq forgiven',
         run.pc \in {"discover", "persist", "process"},
         run'.pc \in {"discover", "persist", "process"}, run'.mode = run.mode,
         run.pc = "process" => run'.pc = "process",
         run.mode = "REPROCESS" => run.pc = "process",
         Len(run'.records) = Len(run.records),
         \A i \in 1..Len(run.records) :
           /\ run'.records[i].art = run.records[i].art
           /\ run'.records[i].content = run.records[i].content
           /\ run'.records[i].path = run.records[i].path
           /\ Strategy # "api" /\ run.mode # "REPROCESS" =>
                run'.records[i].keyed = run.records[i].keyed
           /\ run'.records[i].state = "done" <=> run.records[i].state = "done"
           /\ run.mode = "REPROCESS" =>
                run'.records[i] = run.records[i] \/ run'.records[i].state # "duplicate"
  PROVE  OrderedInv'
<1>1. /\ Strategy' = Strategy /\ (Working' <=> Working) /\ InCore' = InCore
      /\ \A a : Current(a)' = Current(a)
      /\ \A a : DoneFor(a)' <=> DoneFor(a)
      /\ \A a, c : (Beyond(a, c)' <=> Beyond(a, c)) /\ (Abreast(a, c)' <=> Abreast(a, c))
  BY DEF Strategy, Working, InCore, Current, DoneFor, Beyond, Abreast
<1>2. \A a : Excused(a) => Excused(a)'
  BY <1>1 DEF Excused
<1>3. VersionInv'
  <2> SUFFICES ASSUME Strategy # "api", NEW a \in InCore
               PROVE  /\ Current(a).content <= Current(a).file.content
                      /\ Current(a).file.content <= site'.content[a]
    BY <1>1 DEF VersionInv
  <2>1. /\ a \in Article /\ site.content[a] \in Nat /\ site'.content[a] \in Nat
        /\ Current(a).content \in Nat /\ Current(a).file.content \in Nat
    BY AgesAre DEF BaseInv, InCore
  <2>2. /\ Current(a).content <= Current(a).file.content
        /\ Current(a).file.content <= site.content[a]
    BY DEF OrderedInv, VersionInv
  <2> QED BY <2>1, <2>2
<1>4. RereadInv'
  BY <1>1 DEF OrderedInv, RereadInv
<1>5. AgeInv'
  <2> SUFFICES ASSUME Strategy # "api", Working, NEW i \in 1..Len(run.records),
                      NEW r, r = run'.records[i], r.path # None
               PROVE  AgeFits(i, r)'
    BY <1>1 DEF AgeInv
  <2> DEFINE q == run.records[i]
  <2>1. AgeFits(i, q)
    BY DEF OrderedInv, AgeInv
  <2>2. /\ r.art = q.art /\ r.content = q.content /\ r.path = q.path
        /\ r.state = "done" <=> q.state = "done"
    OBVIOUS
  <2> HIDE DEF q
  <2>3. /\ \A a : (Newest(i, a)' <=> Newest(i, a)) /\ (Twice(i, a)' <=> Twice(i, a))
        /\ \A a : DoneAfter(i, a)' <=> DoneAfter(i, a)
    BY DEF Newest, Twice, DoneAfter, Working
  <2> QED BY <1>1, <1>2, <2>1, <2>2, <2>3 DEF AgeFits
<1>6. ItemAgeInv'
  BY <1>1 DEF OrderedInv, ItemAgeInv, ItemAge
<1> QED BY <1>3, <1>4, <1>5, <1>6 DEF OrderedInv

\* What only the publisher, the day and the release change.
LEMMA IdleOrder ==
  ASSUME BaseInv, OrderedInv, UNCHANGED <<source, disk, core, todo, run, forgiven>>,
         \A a \in InCore : site.content[a] <= site'.content[a],
         \A a \in Article : site'.content[a] \in Nat
  PROVE  OrderedInv'
<1>1. /\ Strategy' = Strategy /\ (Working' <=> Working) /\ InCore' = InCore
      /\ \A a : Current(a)' = Current(a)
      /\ \A a : DoneFor(a)' <=> DoneFor(a)
      /\ \A a, c : (Beyond(a, c)' <=> Beyond(a, c)) /\ (Abreast(a, c)' <=> Abreast(a, c))
  BY DEF Strategy, Working, InCore, Current, DoneFor, Beyond, Abreast
<1>2. /\ \A a : Excused(a)' <=> Excused(a)
      /\ \A i, a : (Newest(i, a)' <=> Newest(i, a)) /\ (Twice(i, a)' <=> Twice(i, a))
      /\ \A i, a : DoneAfter(i, a)' <=> DoneAfter(i, a)
  BY <1>1 DEF Excused, Newest, Twice, DoneAfter
<1>3. VersionInv'
  <2> SUFFICES ASSUME Strategy # "api", NEW a \in InCore
               PROVE  /\ Current(a).content <= Current(a).file.content
                      /\ Current(a).file.content <= site'.content[a]
    BY <1>1 DEF VersionInv
  <2>1. /\ a \in Article /\ site.content[a] \in Nat /\ site'.content[a] \in Nat
        /\ Current(a).content \in Nat /\ Current(a).file.content \in Nat
    BY AgesAre DEF BaseInv, InCore
  <2>2. /\ Current(a).content <= Current(a).file.content
        /\ Current(a).file.content <= site.content[a]
    BY DEF OrderedInv, VersionInv
  <2> QED BY <2>1, <2>2
<1>4. RereadInv'
  BY <1>1 DEF OrderedInv, RereadInv
<1>5. \A i, r : AgeFits(i, r)' <=> AgeFits(i, r)
  BY <1>1, <1>2 DEF AgeFits
<1>6. AgeInv'
  BY <1>1, <1>5 DEF OrderedInv, AgeInv
<1>7. ItemAgeInv'
  BY <1>1 DEF OrderedInv, ItemAgeInv, ItemAge
<1> QED BY <1>3, <1>4, <1>6, <1>7 DEF OrderedInv

LEMMA EnvironmentOrder ==
  ASSUME BaseInv, OrderedInv, Environment \/ UNCHANGED vars
  PROVE  OrderedInv'
<1>1. UNCHANGED <<source, disk, core, todo, run, forgiven>>
  BY DEF Environment, Publish, EditPage, SpoilEntry, NextDay, NewRelease, vars
<1>2. site.content \in [Article -> Nat]
  BY AgesAre DEF BaseInv, TypeInv
<1>3. site \in [listing : Seq(Article), invalid : SUBSET Article, content : [Article -> Edit]]
  BY DEF BaseInv, TypeInv
<1>4. \/ site'.content = site.content
      \/ \E a \in Article : site'.content = [site.content EXCEPT ![a] = site.content[a] + 1]
  <2>1. ASSUME NEW a \in Article, Publish(a) PROVE site'.content = site.content
    BY <2>1, PublishIs DEF BaseInv
  <2>2. ASSUME NEW a \in Article, EditPage(a)
        PROVE  site'.content = [site.content EXCEPT ![a] = site.content[a] + 1]
    BY <1>3, <2>2 DEF EditPage
  <2>3. ASSUME NEW a \in Article, SpoilEntry(a) PROVE site'.content = site.content
    BY <1>3, <2>3 DEF SpoilEntry
  <2>4. NextDay \/ NewRelease \/ UNCHANGED vars => site' = site
    BY DEF NextDay, NewRelease, vars
  <2> QED BY <2>1, <2>2, <2>3, <2>4 DEF Environment
<1>5. \A a \in Article : site.content[a] <= site'.content[a] /\ site'.content[a] \in Nat
  <2> DEFINE old == site.content
             new == site'.content
  <2>1. /\ old \in [Article -> Nat]
        /\ new = old \/ \E a \in Article : new = [old EXCEPT ![a] = old[a] + 1]
    BY <1>2, <1>4
  <2> HIDE DEF old, new
  <2>2. \A a \in Article : old[a] <= new[a] /\ new[a] \in Nat
    BY <2>1
  <2> QED BY <2>2 DEF old, new
<1> QED BY <1>1, <1>5, IdleOrder DEF InCore

LEMMA StartOrder ==
  ASSUME BaseInv, OrderedInv, NEW mode \in Mode, Start(mode)
  PROVE  OrderedInv'
<1>1. /\ run.pc = "idle" /\ UNCHANGED <<source, site, disk, core, todo, forgiven>>
      /\ run'.pc = "discover" /\ run'.records = <<>>
  BY StartIs
<1>2. /\ Strategy' = Strategy /\ InCore' = InCore /\ Len(run'.records) = 0
      /\ \A a : Current(a)' = Current(a)
      /\ \A a, c : Abreast(a, c)' <=> Abreast(a, c)
  BY <1>1 DEF Strategy, InCore, Current, Abreast
<1>3. VersionInv'
  BY <1>1, <1>2 DEF OrderedInv, VersionInv
<1>4. RereadInv' /\ AgeInv'
  BY <1>1, <1>2 DEF RereadInv, AgeInv
<1>5. ItemAgeInv'
  BY <1>1, <1>2 DEF OrderedInv, ItemAgeInv, ItemAge
<1> QED BY <1>3, <1>4, <1>5 DEF OrderedInv

LEMMA ReprocessOrder ==
  ASSUME BaseInv, OrderedInv, NEW unread, StartReprocess(unread)
  PROVE  OrderedInv'
<1>1. /\ run.pc = "idle" /\ UNCHANGED <<source, site, disk, core, todo, forgiven>>
      /\ run'.pc = "process" /\ run'.mode = "REPROCESS"
  BY ReprocessIs
<1>2. \A i \in 1..Len(run'.records) : run'.records[i].file = Current(run'.records[i].art).file
  BY ReprocessIs
<1>3. /\ Strategy' = Strategy /\ InCore' = InCore /\ ~Working'
      /\ \A a : Current(a)' = Current(a)
      /\ \A a, c : Abreast(a, c)' <=> Abreast(a, c)
  BY <1>1 DEF Strategy, InCore, Current, Abreast, Working
<1>4. VersionInv'
  BY <1>1, <1>3 DEF OrderedInv, VersionInv
<1>5. RereadInv' /\ AgeInv'
  BY <1>2, <1>3 DEF RereadInv, AgeInv
<1>6. ItemAgeInv'
  BY <1>1, <1>3 DEF OrderedInv, ItemAgeInv, ItemAge
<1> QED BY <1>4, <1>5, <1>6 DEF OrderedInv

LEMMA EndOrder ==
  ASSUME BaseInv, OrderedInv, Crash \/ \E s \in {"SUCCESS", "PARTIAL", "FAILED"} : Report(s)
  PROVE  OrderedInv'
<1>1. /\ run'.pc = "idle" /\ UNCHANGED <<source, site, disk, core, todo>>
  BY DEF Crash, Report, Idle
<1>2. /\ Strategy' = Strategy /\ InCore' = InCore /\ ~Working'
      /\ \A a : Current(a)' = Current(a)
      /\ \A a, c : Abreast(a, c)' <=> Abreast(a, c)
  BY <1>1 DEF Strategy, InCore, Current, Abreast, Working
<1>3. VersionInv'
  BY <1>1, <1>2 DEF OrderedInv, VersionInv
<1>4. RereadInv' /\ AgeInv'
  BY <1>1, <1>2 DEF RereadInv, AgeInv
<1>5. ASSUME Strategy # "api", NEW k \in DOMAIN todo PROVE ItemAge(k, todo[k])'
  <2>1. ItemAge(k, todo[k])
    BY <1>5 DEF OrderedInv, ItemAgeInv
  <2>2. CASE Crash
    <3>1. k[2] \in forgiven'
      BY <2>2 DEF Crash, BaseInv, ItemInv, ItemFits
    <3> QED BY <1>1, <2>1, <3>1 DEF ItemAge
  <2>3. CASE \E s \in {"SUCCESS", "PARTIAL", "FAILED"} : Report(s)
    <3>1. /\ ~(run.pc = "process" /\ run.mode # "REPROCESS")
          /\ forgiven' = forgiven
      BY <2>3 DEF Report
    <3> QED BY <1>1, <1>2, <2>1, <3>1 DEF ItemAge
  <2> QED BY <2>2, <2>3
<1>6. ItemAgeInv'
  BY <1>1, <1>2, <1>5 DEF ItemAgeInv
<1> QED BY <1>3, <1>4, <1>6 DEF OrderedInv

\* Without saved API files an article has one saved item, and nothing is done yet.
LEMMA RetryOrder ==
  ASSUME BaseInv, OrderedInv, StartRetry
  PROVE  OrderedInv'
<1> DEFINE saved == SetToSeq(ItemsOf("process"))
<1>1. /\ run.pc = "idle" /\ UNCHANGED <<source, site, disk, core, todo, forgiven>>
      /\ run'.pc = "discover" /\ run'.mode = "RETRY"
      /\ \A i, j \in 1..Len(saved) : saved[i] = saved[j] => i = j
      /\ Len(run'.records) = Len(saved)
  BY RetryIs
<1>2. \A i \in 1..Len(saved) :
        /\ saved[i] \in DOMAIN todo /\ todo[saved[i]].kind = "process"
        /\ run'.records[i].art = saved[i][2] /\ run'.records[i].content = todo[saved[i]].content
        /\ run'.records[i].path = todo[saved[i]].path /\ run'.records[i].state = "fetched"
  BY RetryIs
<1> HIDE DEF saved
<1>3. /\ Strategy' = Strategy /\ InCore' = InCore
      /\ \A a : Current(a)' = Current(a)
      /\ \A a, c : (Beyond(a, c)' <=> Beyond(a, c)) /\ (Abreast(a, c)' <=> Abreast(a, c))
  BY <1>1 DEF Strategy, InCore, Current, Beyond, Abreast
<1>4. VersionInv'
  BY <1>1, <1>3 DEF OrderedInv, VersionInv
<1>5. RereadInv'
  BY <1>1 DEF RereadInv
<1>6. ItemAgeInv'
  BY <1>1, <1>3 DEF OrderedInv, ItemAgeInv, ItemAge
<1>7. ASSUME Strategy # "api", NEW i \in 1..Len(saved), NEW j \in 1..Len(saved),
             saved[i][2] = saved[j][2]
      PROVE  i = j
  <2>1. \A k \in DOMAIN todo : todo[k].kind = "process" => k = <<"record", k[2]>>
    <3>1. DOMAIN todo \in SUBSET Key
      BY ItemMapsAre DEF BaseInv, TypeInv
    <3>2. ASSUME NEW k \in DOMAIN todo, todo[k].kind = "process"
          PROVE  k[1] # "path" /\ k[1] # "entry"
      BY <1>7, <3>2 DEF BaseInv, ItemInv, ItemFits
    <3> QED BY <3>1, <3>2 DEF Key
  <2>2. saved[i] = saved[j]
    BY <1>2, <1>7, <2>1
  <2> QED BY <1>1, <1>7, <2>2
<1>8. AgeInv'
  <2> SUFFICES ASSUME Strategy # "api", NEW i \in 1..Len(saved),
                      NEW r, r = run'.records[i], r.path # None
               PROVE  AgeFits(i, r)'
    BY <1>1, <1>3 DEF AgeInv
  <2>1. \A j \in 1..Len(saved) : run'.records[j].art = r.art => j = i
    BY <1>2, <1>7
  <2>2. \A a : ~DoneFor(a)'
    BY <1>1, <1>2 DEF DoneFor
  <2> DEFINE k == saved[i]
  <2>3. k \in DOMAIN todo /\ r.art = k[2] /\ r.content = todo[k].content /\ r.path = todo[k].path
    BY <1>2
  <2> HIDE DEF k
  <2>4. /\ r.content <= disk[r.path][r.art]
        /\ Abreast(r.art, r.content) \/ r.art \in forgiven
    <3>1. ItemAge(k, todo[k])
      BY <2>3 DEF OrderedInv, ItemAgeInv
    <3> QED BY <1>1, <2>3, <3>1 DEF ItemAge
  <2>5. Abreast(r.art, r.content) => Beyond(r.art, r.content)
    <3> SUFFICES ASSUME r.art \in InCore, Abreast(r.art, r.content)
                 PROVE  Current(r.art).content <= r.content
      BY DEF Beyond
    <3>1. /\ Current(r.art).content \in Nat /\ Current(r.art).file.content \in Nat
          /\ r.content \in Nat
      BY <2>3, AgesAre DEF BaseInv
    <3>2. /\ Current(r.art).content <= Current(r.art).file.content
          /\ Current(r.art).file.content <= r.content
      BY DEF OrderedInv, VersionInv, Abreast
    <3> QED BY <3>1, <3>2
  <2>6. ~Twice(i, r.art)' /\ \A j \in 1..Len(saved) : j > i => run'.records[j].art # r.art
    <3>1. \A j \in 1..Len(saved) : run'.records[j].art = r.art => ~(j > i) /\ ~(j < i)
      BY <2>1
    <3> QED BY <1>1, <3>1 DEF Twice
  <2> QED BY <1>1, <1>3, <2>2, <2>4, <2>5, <2>6 DEF AgeFits, Excused
<1> QED BY <1>4, <1>5, <1>6, <1>8 DEF OrderedInv

\* Listing, requests that bring no record, and the changes of stage.
LEMMA StageOrder ==
  ASSUME BaseInv, OrderedInv,
         \/ PageLost \/ Acquired \/ Persisted
         \/ \E u, v \in SUBSET Article : ListPage(u, v)
         \/ \E a \in Article : DetailMissing(a)
  PROVE  OrderedInv'
<1>1. /\ UNCHANGED <<source, site, disk, core, todo>> /\ forgiven \subseteq forgiven'
      /\ run.pc \in {"discover", "persist"} /\ run'.pc \in {"discover", "persist", "process"}
      /\ run'.mode = run.mode /\ run'.records = run.records
  <2>1. CASE PageLost
    BY <2>1, PageLostIs
  <2>2. CASE Acquired \/ Persisted
    BY <2>2, StageBase
  <2>3. ASSUME NEW u \in SUBSET Article, NEW v \in SUBSET Article, ListPage(u, v)
        PROVE  <1>1!:
    BY <2>3, ListPageIs
  <2>4. ASSUME NEW a \in Article, DetailMissing(a)
        PROVE  <1>1!:
    BY <2>4, MissingIs
  <2> QED BY <2>1, <2>2, <2>3, <2>4
<1>2. run.mode # "REPROCESS"
  BY <1>1 DEF BaseInv, RunInv, RunFits
<1>3. \A a \in Article : site.content[a] \in Nat /\ site.content[a] <= site.content[a]
  BY AgesAre DEF BaseInv
<1>4. InCore \subseteq Article
  BY DEF InCore
<1> QED BY <1>1, <1>2, <1>3, <1>4, OrderStays

\* A page that was fetched is the latest: the older records of its article come
\* before it and no file is newer.
LEMMA AnswersOrder ==
  ASSUME BaseInv, OrderedInv, NEW a \in Article, NEW rec, Answers(a, rec),
         \A p \in Day, b \in Article :
           disk'[p][b] = disk[p][b] \/ (b = a /\ disk'[p][b] = site.content[a]),
         rec.path # None => rec.content = site.content[a] /\ disk'[rec.path][a] = site.content[a],
         rec.keyed \/ disk' = disk \/ Strategy = "api", rec.state # "done"
  PROVE  OrderedInv'
<1>1. /\ UNCHANGED <<source, site, core, todo, forgiven>>
      /\ run.pc = "discover" /\ run'.pc = run.pc /\ run'.mode = run.mode
      /\ rec \in Record /\ rec.art = a
      /\ Len(run'.records) = Len(run.records) + 1
      /\ run'.records[Len(run.records) + 1] = rec
      /\ \A i \in 1..Len(run.records) : run'.records[i] = run.records[i]
      /\ Len(run.records) \in Nat
  BY RunIs DEF Answers, BaseInv
<1>2. /\ Strategy' = Strategy /\ (Working' <=> Working) /\ InCore' = InCore
      /\ \A b : Current(b)' = Current(b)
      /\ \A b, c : (Beyond(b, c)' <=> Beyond(b, c)) /\ (Abreast(b, c)' <=> Abreast(b, c))
  BY <1>1 DEF Strategy, Working, InCore, Current, Beyond, Abreast
<1>3. \A i \in 1..Len(run'.records) :
        \/ i \in 1..Len(run.records) /\ run'.records[i] = run.records[i]
        \/ i = Len(run.records) + 1 /\ run'.records[i] = rec
  BY <1>1
<1>4. \A i \in 1..Len(run.records) : run.records[i].state # "done"
  BY <1>1 DEF BaseInv, StageInv, StateFits
<1>5. \A b : ~DoneFor(b)' /\ ~DoneFor(b)
  BY <1>3, <1>4 DEF DoneFor
<1>6. \A p \in Day, b \in Article :
        /\ disk[p][b] \in Nat /\ disk'[p][b] \in Nat /\ site.content[b] \in Nat
        /\ disk[p][b] <= disk'[p][b] /\ disk'[p][b] <= site.content[b]
  <2> SUFFICES ASSUME NEW p \in Day, NEW b \in Article
               PROVE  /\ disk[p][b] \in Nat /\ disk'[p][b] \in Nat /\ site.content[b] \in Nat
                      /\ disk[p][b] <= disk'[p][b] /\ disk'[p][b] <= site.content[b]
    OBVIOUS
  <2>1. disk[p][b] \in Nat /\ site.content[b] \in Nat /\ disk[p][b] <= site.content[b]
    BY AgesAre DEF BaseInv, SiteInv
  <2>2. disk'[p][b] = disk[p][b] \/ disk'[p][b] = site.content[b]
    OBVIOUS
  <2> QED BY <2>1, <2>2
<1>7. VersionInv'
  BY <1>1, <1>2 DEF OrderedInv, VersionInv
<1>8. RereadInv'
  BY <1>1 DEF RereadInv
<1>9. ItemAgeInv'
  <2> SUFFICES ASSUME Strategy # "api", NEW k \in DOMAIN todo, todo[k].path # None
               PROVE  ItemAge(k, todo[k])'
    BY <1>1, <1>2 DEF ItemAgeInv, ItemAge
  <2>1. k[2] \in Article /\ todo[k].content \in Nat /\ todo[k].path \in Day
    BY AgesAre DEF BaseInv
  <2>2. ItemAge(k, todo[k])
    BY DEF OrderedInv, ItemAgeInv
  <2>3. todo[k].content <= disk'[todo[k].path][k[2]]
    <3> DEFINE old == disk[todo[k].path][k[2]]
               new == disk'[todo[k].path][k[2]]
    <3>1. old \in Nat /\ new \in Nat /\ old <= new /\ todo[k].content <= old
      BY <1>6, <2>1, <2>2 DEF ItemAge
    <3> HIDE DEF old, new
    <3>2. todo[k].content <= new
      BY <2>1, <3>1
    <3> QED BY <3>2 DEF new
  <2> QED BY <1>1, <1>2, <2>2, <2>3 DEF ItemAge
<1>10. AgeInv'
  <2> SUFFICES ASSUME Strategy # "api", Working, NEW i \in 1..Len(run'.records),
                      NEW r, r = run'.records[i], r.path # None
               PROVE  AgeFits(i, r)'
    BY <1>1, <1>2 DEF AgeInv
  <2>1. CASE i = Len(run.records) + 1 /\ r = rec
    <3>1. /\ r.art = a /\ r.content = site.content[a] /\ disk'[r.path][a] = site.content[a]
          /\ site.content[a] \in Nat
      BY <1>1, <2>1, AgesAre DEF BaseInv
    <3>2. \A j \in 1..Len(run'.records) : ~(j > i)
      BY <1>1, <2>1
    <3>3. \A p \in Day : disk'[p][a] <= site.content[a]
      BY <1>6
    <3>4. Beyond(a, r.content) /\ Abreast(a, r.content)
      <4> SUFFICES ASSUME a \in InCore
                   PROVE  /\ Current(a).content <= site.content[a]
                          /\ Current(a).file.content <= site.content[a]
        BY <3>1 DEF Beyond, Abreast
      <4>1. /\ Current(a).content \in Nat /\ Current(a).file.content \in Nat
            /\ Current(a).content <= Current(a).file.content
            /\ Current(a).file.content <= site.content[a]
        BY AgesAre DEF BaseInv, OrderedInv, VersionInv
      <4> QED BY <3>1, <4>1
    <3> QED BY <1>2, <3>1, <3>2, <3>3, <3>4 DEF AgeFits
  <2>2. CASE i \in 1..Len(run.records) /\ r = run.records[i]
    <3>1. AgeFits(i, r)
      BY <2>2 DEF OrderedInv, AgeInv
    <3>2. r.art \in Article /\ r.content \in Nat /\ r.path \in Day
      BY <1>1, <2>2, AgesAre DEF BaseInv
    <3>3. /\ disk[r.path][r.art] \in Nat /\ disk'[r.path][r.art] \in Nat
          /\ disk[r.path][r.art] <= disk'[r.path][r.art]
          /\ disk[r.path][r.art] <= site.content[r.art] /\ site.content[r.art] \in Nat
      <4>1. disk[r.path][r.art] <= site.content[r.art]
        BY <3>2 DEF BaseInv, SiteInv
      <4> QED BY <1>6, <3>2, <4>1
    <3>4. r.content <= disk'[r.path][r.art] /\ r.content <= site.content[r.art]
      <4> DEFINE old == disk[r.path][r.art]
                 new == disk'[r.path][r.art]
                 top == site.content[r.art]
      <4>1. /\ old \in Nat /\ new \in Nat /\ top \in Nat /\ old <= new /\ old <= top
            /\ r.content <= old
        BY <3>1, <3>3 DEF AgeFits
      <4> HIDE DEF old, new, top
      <4>2. r.content <= new /\ r.content <= top
        BY <3>2, <4>1
      <4> QED BY <4>2 DEF new, top
    <3>5. \A j \in 1..Len(run'.records) :
            j > i /\ run'.records[j].art = r.art /\ run'.records[j].path # None =>
              r.content <= run'.records[j].content
      BY <1>1, <1>3, <3>1, <3>4 DEF AgeFits
    <3>6. /\ Beyond(r.art, r.content) \/ r.art \in forgiven
          /\ Newest(i, r.art) => Abreast(r.art, r.content) \/ r.art \in forgiven
          /\ Newest(i, r.art) /\ Twice(i, r.art) =>
               (\A p \in Day : disk[p][r.art] <= r.content) /\ Abreast(r.art, r.content)
      BY <1>4, <2>2, <3>1 DEF AgeFits, Excused, DoneAfter
    <3>7. /\ Newest(i, r.art)' => Newest(i, r.art)
          /\ Twice(i, r.art)' => Twice(i, r.art)
      BY <1>1, <1>3, <2>2 DEF Newest, Twice
    <3>8. Newest(i, r.art)' => r.art # a \/ ~rec.keyed
      <4>1. Len(run.records) + 1 \in 1..Len(run'.records) /\ Len(run.records) + 1 > i
        BY <1>1, <2>2
      <4> QED BY <1>1, <4>1 DEF Newest
    <3>9. Newest(i, r.art)' => \A p \in Day : disk'[p][r.art] = disk[p][r.art]
      BY <3>2, <3>8
    <3> QED BY <1>1, <1>2, <1>5, <3>4, <3>5, <3>6, <3>7, <3>9 DEF AgeFits, Excused
  <2> QED BY <1>3, <2>1, <2>2
<1> QED BY <1>7, <1>8, <1>9, <1>10 DEF OrderedInv

LEMMA DetailOrder ==
  ASSUME BaseInv, OrderedInv, NEW a \in Article,
         FetchDetail(a) \/ DetailFailed(a) \/ DetailMissing(a) \/ RetryEntry(a)
  PROVE  OrderedInv'
<1>1. CASE FetchDetail(a)
  <2>1. \A p \in Day, b \in Article :
          disk'[p][b] = IF p = day /\ b = a THEN site.content[a] ELSE disk[p][b]
    BY <1>1, FetchIs
  <2>2. PICK rec : /\ Answers(a, rec) /\ rec.keyed = (Strategy # "api")
                   /\ rec.path # None => rec.path = day /\ rec.content = site.content[a]
                   /\ rec.state \in {"fetched", "failed"}
    BY <1>1, FetchIs
  <2>3. day \in Day
    BY DEF BaseInv, TypeInv
  <2> QED BY <2>1, <2>2, <2>3, AnswersOrder
<1>2. CASE DetailFailed(a)
  <2>1. disk' = disk /\ \E rec : Answers(a, rec) /\ rec.path = None /\ rec.state = "failed"
    BY <1>2, FailedIs
  <2> QED BY <2>1, AnswersOrder
<1>3. CASE DetailMissing(a)
  BY <1>3, StageOrder
<1>4. CASE RetryEntry(a) /\ \E rec : Answers(a, rec) /\ rec.path = None /\ rec.state = "entry_failed"
  <2>1. disk' = disk
    BY <1>4, RetryEntryIs
  <2> QED BY <1>4, <2>1, AnswersOrder
<1>5. CASE /\ RetryEntry(a)
           /\ ~\E rec : Answers(a, rec) /\ rec.path = None /\ rec.state = "entry_failed"
  <2>1. /\ run.pc = "discover" /\ disk' = disk
        /\ UNCHANGED <<source, site, core, todo, forgiven>>
        /\ run'.pc = "discover" /\ run'.mode = run.mode /\ run'.records = run.records
    BY <1>5, RetryEntryIs, Zenon
  <2>2. run.mode # "REPROCESS"
    BY <2>1, DiscoveringIs
  <2>3. \A b \in Article : site.content[b] \in Nat /\ site.content[b] <= site.content[b]
    BY AgesAre DEF BaseInv
  <2>4. InCore \subseteq Article
    BY DEF InCore
  <2> QED BY <2>1, <2>2, <2>3, <2>4, OrderStays
<1> QED BY <1>1, <1>2, <1>3, <1>4, <1>5

\* A record that is registered, fails or has failed.
LEMMA PassesOrder ==
  ASSUME BaseInv, OrderedInv, Persist \/ ProcessFails \/ PassOver
  PROVE  OrderedInv'
<1>1. core' = core /\ run.next <= Len(run.records) /\ run.pc \in {"persist", "process"}
  BY PersistIs, PassesIs
<1>2. PICK rec :
        /\ Turns(rec)
        /\ \/ rec = Here
           \/ /\ run.pc = "persist" /\ rec.keyed = Here.keyed
              /\ Here.state = "fetched" /\ rec.state \in {"failed", "stored", "duplicate"}
           \/ /\ run.pc = "process" /\ Here.state \in {"stored", "duplicate"}
              /\ rec.state = "failed" /\ rec.keyed \in {TRUE, Here.keyed}
  <2>1. CASE Persist
    BY <2>1, PersistIs
  <2>2. CASE ProcessFails \/ PassOver
    BY <2>2, PassesIs
  <2> QED BY <2>1, <2>2
<1>3. /\ UNCHANGED <<source, site, disk, todo, forgiven>>
      /\ run'.pc = run.pc /\ run'.mode = run.mode
      /\ Len(run'.records) = Len(run.records) /\ run'.records[run.next] = rec
      /\ rec.art = Here.art /\ rec.content = Here.content /\ rec.path = Here.path
      /\ \A i \in 1..Len(run.records) : i # run.next => run'.records[i] = run.records[i]
  BY <1>2 DEF Turns
<1>4. /\ Here = run.records[run.next] /\ RecordFits(Strategy, Here, run.mode, Listed, InCore, raw, disk)
  BY <1>1, HereIs DEF Here
<1>5. run.mode = "REPROCESS" => run.pc = "process"
  BY <1>1 DEF BaseInv, RunInv, RunFits
<1>6. /\ Strategy # "api" /\ run.mode # "REPROCESS" => rec.keyed = Here.keyed
      /\ rec.state = "done" <=> Here.state = "done"
      /\ run.mode = "REPROCESS" => rec = Here \/ rec.state # "duplicate"
  BY <1>2, <1>4, <1>5 DEF RecordFits
<1>7. \A i \in 1..Len(run.records) :
        /\ run'.records[i].art = run.records[i].art
        /\ run'.records[i].content = run.records[i].content
        /\ run'.records[i].path = run.records[i].path
        /\ Strategy # "api" /\ run.mode # "REPROCESS" =>
             run'.records[i].keyed = run.records[i].keyed
        /\ run'.records[i].state = "done" <=> run.records[i].state = "done"
        /\ run.mode = "REPROCESS" =>
             run'.records[i] = run.records[i] \/ run'.records[i].state # "duplicate"
  BY <1>3, <1>4, <1>6
<1>8. \A b \in Article : site.content[b] \in Nat /\ site.content[b] <= site.content[b]
  BY AgesAre DEF BaseInv
<1>9. InCore \subseteq Article
  BY DEF InCore
<1> QED BY <1>1, <1>3, <1>5, <1>7, <1>8, <1>9, OrderStays

\* The transaction of a fetched or saved record: the records behind it are no older.
LEMMA FreshOrder ==
  ASSUME BaseInv, EvidenceInv, OrderedInv, ProcessRecord, Strategy # "api",
         run.mode # "REPROCESS"
  PROVE  OrderedInv'
<1>1. /\ run.pc = "process" /\ run.next <= Len(run.records)
      /\ Here.state \in {"stored", "duplicate"} /\ ParseAs(Here) \in Edit
      /\ InCore' = InCore \cup {Here.art}
  BY ProcessRecordIs
<1>2. PICK rec : Turns(rec) /\ rec.state = "done" /\ rec.keyed /\ rec.file = Here.file
  BY ProcessRecordIs
<1>3. /\ UNCHANGED <<source, site, disk, todo, forgiven>>
      /\ run'.pc = run.pc /\ run'.mode = run.mode
      /\ Len(run'.records) = Len(run.records) /\ run'.records[run.next] = rec
      /\ rec.art = Here.art /\ rec.content = Here.content /\ rec.path = Here.path
      /\ \A i \in 1..Len(run.records) : i # run.next => run'.records[i] = run.records[i]
  BY <1>2 DEF Turns
<1>h. PICK a \in Article, c \in Nat, p0 \in Day, n0 \in 1..Len(run.records) :
        /\ a = Here.art /\ c = Here.content /\ p0 = Here.path /\ n0 = run.next
        /\ Here = run.records[n0] /\ c = ParseAs(Here) /\ Here.keyed
        /\ Here.file.content = disk[p0][a] /\ AgeFits(n0, Here)
  <2>1. /\ run.next \in 1..Len(run.records) /\ Here = run.records[run.next]
        /\ RecordFits(Strategy, Here, run.mode, Listed, InCore, raw, disk)
    BY <1>1, HereIs DEF Here
  <2>2. FileFits(Here) /\ Working
    BY <1>1, <2>1 DEF EvidenceInv, FileInv, Working
  <2>3. Here.path # None /\ Here.file.content = disk[Here.path][Here.art]
    BY <1>1, <2>2 DEF FileFits
  <2>4. Here.content # None /\ Here.keyed
    BY <1>1, <2>1, <2>3 DEF RecordFits
  <2>5. AgeFits(run.next, Here)
    BY <2>1, <2>2, <2>3 DEF OrderedInv, AgeInv
  <2>6. Here.art \in Article /\ Here.content \in Nat /\ Here.path \in Day
    BY <1>1, <2>1, <2>3, AgesAre DEF BaseInv
  <2>7. Here.content = ParseAs(Here)
    BY <2>4 DEF ParseAs
  <2> QED BY <2>1, <2>3, <2>4, <2>5, <2>6, <2>7
<1>4. /\ c <= disk[p0][a] /\ disk[p0][a] \in Nat /\ site.content[a] \in Nat
      /\ disk[p0][a] <= site.content[a]
  BY <1>h, AgesAre DEF AgeFits, BaseInv, SiteInv
<1>5. /\ \A b \in Article : b # a => Current(b)' = Current(b)
      /\ \/ a \in InCore /\ Current(a)' = Current(a) /\ Current(a).content = c
         \/ Current(a)'.content = c /\ Current(a)'.file.content = disk[p0][a]
  BY <1>h, ProcessRecordIs
<1>6. a \in InCore' /\ \A b : b # a => (b \in InCore' <=> b \in InCore)
  BY <1>1, <1>h
<1>7. /\ Strategy' = Strategy /\ Working /\ Working'
      /\ \A b \in Article : b # a =>
           \A x : (Beyond(b, x)' <=> Beyond(b, x)) /\ (Abreast(b, x)' <=> Abreast(b, x))
  BY <1>1, <1>3, <1>5, <1>6 DEF Strategy, Working, Beyond, Abreast
<1>8. VersionInv'
  <2> SUFFICES ASSUME NEW b \in InCore'
               PROVE  /\ Current(b)'.content <= Current(b)'.file.content
                      /\ Current(b)'.file.content <= site.content[b]
    BY <1>3 DEF VersionInv
  <2>1. b \in Article
    BY DEF InCore
  <2>2. b \in InCore => /\ Current(b).content <= Current(b).file.content
                        /\ Current(b).file.content <= site.content[b]
    BY DEF OrderedInv, VersionInv
  <2> QED BY <1>4, <1>5, <1>6, <2>1, <2>2
<1>9. RereadInv'
  BY <1>3 DEF RereadInv
<1>10. /\ \A b : b # a => (DoneFor(b)' <=> DoneFor(b))
       /\ DoneFor(a)'
  BY <1>2, <1>3, <1>h DEF DoneFor
<1>11. ItemAgeInv'
  <2> SUFFICES ASSUME NEW k \in DOMAIN todo PROVE ItemAge(k, todo[k])'
    BY <1>3 DEF ItemAgeInv
  <2>1. ItemAge(k, todo[k]) /\ k[2] \in Article
    BY AgesAre DEF OrderedInv, ItemAgeInv, BaseInv
  <2>2. CASE k[2] = a
    BY <1>1, <1>3, <1>10, <2>1, <2>2 DEF ItemAge
  <2>3. CASE k[2] # a
    BY <1>1, <1>3, <1>7, <1>10, <2>1, <2>3 DEF ItemAge
  <2> QED BY <2>2, <2>3
<1>12. AgeInv'
  <2> SUFFICES ASSUME NEW i \in 1..Len(run.records), NEW r, r = run'.records[i], r.path # None
               PROVE  AgeFits(i, r)'
    BY <1>3 DEF AgeInv
  <2> DEFINE q == run.records[i]
  <2>1. /\ r.art = q.art /\ r.content = q.content /\ r.path = q.path
        /\ i # n0 => r = q
        /\ AgeFits(i, q) /\ q.art \in Article /\ q.content \in Nat /\ q.path \in Day
    <3>1. r.art = q.art /\ r.content = q.content /\ r.path = q.path /\ (i # n0 => r = q)
      BY <1>3, <1>h
    <3>2. AgeFits(i, q)
      BY <1>7, <3>1 DEF OrderedInv, AgeInv
    <3> QED BY <1>1, <3>1, <3>2, AgesAre DEF BaseInv
  <2>i. q = run.records[i]
    OBVIOUS
  <2> HIDE DEF q
  <2>2. \A j \in 1..Len(run.records) :
          /\ run'.records[j].art = run.records[j].art
          /\ run'.records[j].content = run.records[j].content
          /\ run'.records[j].path = run.records[j].path
          /\ run'.records[j].keyed <=> run.records[j].keyed
    BY <1>2, <1>3, <1>h
  <2>3. \A j \in 1..Len(run'.records) :
          j > i /\ run'.records[j].art = r.art /\ run'.records[j].path # None =>
            r.content <= run'.records[j].content
    BY <1>3, <2>1, <2>2 DEF AgeFits
  <2>4. /\ Newest(i, r.art)' <=> Newest(i, r.art)
        /\ Twice(i, r.art)' <=> Twice(i, r.art)
    BY <1>3, <2>2 DEF Newest, Twice
  <2>5. /\ r.content <= disk[r.path][r.art]
        /\ Newest(i, r.art) /\ Twice(i, r.art) => \A p \in Day : disk[p][r.art] <= r.content
    BY <2>1 DEF AgeFits
  <2>6. CASE q.art # a
    <3>1. DoneAfter(i, r.art) => DoneAfter(i, r.art)'
      BY <1>3, <1>h, <2>1, <2>6 DEF DoneAfter
    <3>2. Excused(r.art) => Excused(r.art)'
      BY <1>3, <1>10, <2>1, <2>6 DEF Excused
    <3>3. r = q
      BY <1>h, <2>1, <2>6, <2>i
    <3> QED BY <1>3, <1>7, <2>1, <2>3, <2>4, <2>5, <2>6, <3>1, <3>2, <3>3 DEF AgeFits
  <2>7. CASE i = n0
    <3>1. r.state = "done"
      BY <1>2, <1>3, <1>h, <2>7
    <3> QED BY <1>3, <2>3, <2>4, <2>5, <3>1 DEF AgeFits
  <2>8. CASE q.art = a /\ i < n0
    <3>1. n0 > i /\ run'.records[n0].art = r.art /\ run'.records[n0].state = "done"
            /\ run.records[n0].keyed /\ run.records[n0].art = r.art
      BY <1>2, <1>3, <1>h, <2>1, <2>8
    <3>2. DoneAfter(i, r.art)'
      BY <1>3, <3>1 DEF DoneAfter
    <3>3. ~Newest(i, r.art)
      BY <3>1 DEF Newest
    <3> QED BY <1>3, <2>3, <2>4, <2>5, <3>2, <3>3 DEF AgeFits
  <2>9. CASE q.art = a /\ n0 < i
    <3>1. r = q /\ r.state # "done"
      BY <1>1, <1>h, <2>1, <2>9, <2>i DEF BaseInv, StageInv, StateFits
    <3>2. c <= r.content /\ r.content \in Nat
      <4>1. /\ i > n0 /\ run.records[i].art = Here.art /\ run.records[i].path # None
        BY <1>h, <2>1, <2>9, <2>i
      <4>2. Here.content <= run.records[i].content
        BY <1>h, <4>1 DEF AgeFits
      <4> QED BY <1>h, <2>1, <2>i, <4>2
    <3>3. Beyond(a, r.content)'
      BY <1>5, <3>2 DEF Beyond
    <3>4. Twice(i, a)
      BY <1>h, <2>9 DEF Twice
    <3>5. Newest(i, a) => /\ disk[p0][a] <= r.content
                          /\ Abreast(a, r.content)
      BY <1>h, <2>1, <2>9, <3>1, <3>4 DEF AgeFits
    <3>6. Newest(i, a) => Abreast(a, r.content)'
      BY <1>5, <3>5 DEF Abreast
    <3> QED BY <1>3, <2>1, <2>3, <2>4, <2>5, <2>9, <3>1, <3>3, <3>6 DEF AgeFits
  <2>10. i = n0 \/ i < n0 \/ n0 < i
    BY <1>h
  <2> QED BY <2>6, <2>7, <2>8, <2>9, <2>10
<1> QED BY <1>8, <1>9, <1>11, <1>12 DEF OrderedInv

\* The transaction of a file that was read again keeps the file of the version.
LEMMA RereadOrder ==
  ASSUME BaseInv, EvidenceInv, OrderedInv, ProcessRecord, run.mode = "REPROCESS"
  PROVE  OrderedInv'
<1>1. /\ run.pc = "process" /\ run.next <= Len(run.records)
      /\ Here.state \in {"stored", "duplicate"} /\ Here.file \in raw
      /\ InCore' = InCore \cup {Here.art}
  BY ProcessRecordIs
<1>2. PICK rec : Turns(rec) /\ rec.state = "done"
  BY ProcessRecordIs
<1>3. /\ UNCHANGED <<source, site, disk, todo, forgiven>>
      /\ run'.pc = run.pc /\ run'.mode = run.mode
      /\ Len(run'.records) = Len(run.records) /\ run'.records[run.next] = rec
      /\ \A i \in 1..Len(run.records) : i # run.next => run'.records[i] = run.records[i]
  BY <1>2 DEF Turns
<1>h. PICK a \in Article : a = Here.art /\ a \in InCore /\ Here.file = Current(a).file
                             /\ ParseAs(Here) = Current(a).file.content
  <2>1. /\ run.next \in 1..Len(run.records) /\ Here = run.records[run.next]
        /\ RecordFits(Strategy, Here, run.mode, Listed, InCore, raw, disk)
    BY <1>1, HereIs DEF Here
  <2>2. Here.art \in InCore /\ Here.state = "duplicate"
    BY <1>1, <2>1 DEF RecordFits
  <2>3. Here.content = Here.file.content
    BY <1>1, <2>1 DEF EvidenceInv, FileInv, FileFits
  <2>4. Here.file = Current(Here.art).file
    BY <1>1, <2>1, <2>2 DEF OrderedInv, RereadInv
  <2>5. Here.content # None
    BY <1>1, <2>3 DEF BaseInv, TypeInv, File, Edit, None
  <2>6. InCore \subseteq Article
    BY DEF InCore
  <2> QED BY <2>2, <2>3, <2>4, <2>5, <2>6 DEF ParseAs
<1>4. /\ InCore' = InCore
      /\ \A b \in InCore : /\ Current(b)'.file = Current(b).file
                           /\ \/ Current(b)' = Current(b)
                              \/ Current(b)'.content = Current(b).file.content
  <2>1. \A b \in Article : b # a => Current(b)' = Current(b)
    BY <1>h, ProcessRecordIs
  <2>2. \/ Current(a)' = Current(a)
        \/ Current(a)'.content = Current(a).file.content /\ Current(a)'.file = Current(a).file
    BY <1>h, ProcessRecordIs
  <2> QED BY <1>1, <1>h, <2>1, <2>2 DEF InCore
<1>5. /\ Strategy' = Strategy /\ ~Working'
      /\ \A b, x : Abreast(b, x)' <=> Abreast(b, x)
  BY <1>1, <1>3, <1>4 DEF Strategy, Working, Abreast
<1>6. VersionInv'
  <2> SUFFICES ASSUME Strategy # "api", NEW b \in InCore
               PROVE  /\ Current(b)'.content <= Current(b)'.file.content
                      /\ Current(b)'.file.content <= site.content[b]
    BY <1>3, <1>4, <1>5 DEF VersionInv
  <2>1. /\ Current(b).content <= Current(b).file.content
        /\ Current(b).file.content <= site.content[b] /\ Current(b).file.content \in Nat
    BY AgesAre DEF OrderedInv, VersionInv, BaseInv
  <2> QED BY <1>4, <2>1
<1>7. RereadInv'
  <2> SUFFICES ASSUME NEW i \in 1..Len(run.records), NEW r, r = run'.records[i],
                      r.state = "duplicate"
               PROVE  r.file = Current(r.art)'.file
    BY <1>3 DEF RereadInv
  <2>1. i # run.next /\ r = run.records[i]
    BY <1>2, <1>3
  <2>2. r.art \in InCore
    BY <1>1, <2>1 DEF BaseInv, RecordInv, RecordFits
  <2>3. r.file = Current(r.art).file
    BY <1>1, <2>1 DEF OrderedInv, RereadInv
  <2> QED BY <1>4, <2>2, <2>3
<1>8. AgeInv'
  BY <1>5 DEF AgeInv
<1>9. ItemAgeInv'
  BY <1>3, <1>5 DEF OrderedInv, ItemAgeInv, ItemAge
<1> QED BY <1>6, <1>7, <1>8, <1>9 DEF OrderedInv

LEMMA ProcessOrder ==
  ASSUME BaseInv, EvidenceInv, OrderedInv, ProcessRecord
  PROVE  OrderedInv'
<1>1. CASE run.mode = "REPROCESS"
  BY <1>1, RereadOrder
<1>2. CASE run.mode # "REPROCESS" /\ Strategy # "api"
  BY <1>2, FreshOrder
<1>3. CASE run.mode # "REPROCESS" /\ Strategy = "api"
  <2>1. UNCHANGED source /\ run'.mode = run.mode
    BY ProcessRecordIs DEF Turns
  <2>2. Strategy' = "api"
    BY <1>3, <2>1 DEF Strategy
  <2> QED BY <1>3, <2>1, <2>2 DEF OrderedInv, VersionInv, RereadInv, AgeInv, ItemAgeInv
<1> QED BY <1>1, <1>2, <1>3

\* The items that a run leaves: those of no record, and those of the last record
\* of an article that did not reach Core.
LEMMA UpdateOrder ==
  ASSUME BaseInv, OrderedInv, UpdateTodo
  PROVE  OrderedInv'
<1>1. /\ run.pc = "process" /\ run.mode # "REPROCESS"
      /\ UNCHANGED <<source, site, disk, core>>
      /\ run'.pc = "todo" /\ run'.mode = run.mode /\ run'.records = run.records
      /\ forgiven' = forgiven \
           {run.records[i].art : i \in {j \in 1..Len(run.records) : run.records[j].state = "done"}}
  BY UpdateIs
<1>2. /\ Strategy' = Strategy /\ InCore' = InCore /\ Working /\ ~Working'
      /\ \A b : Current(b)' = Current(b)
      /\ \A b, x : Abreast(b, x)' <=> Abreast(b, x)
  BY <1>1 DEF Strategy, InCore, Current, Abreast, Working
<1>3. \A a : a \in forgiven /\ ~DoneFor(a) => a \in forgiven'
  BY <1>1 DEF DoneFor
<1>4. VersionInv'
  BY <1>1, <1>2 DEF OrderedInv, VersionInv
<1>5. RereadInv' /\ AgeInv'
  BY <1>1, <1>2 DEF RereadInv, AgeInv
<1>6. \A i \in 1..Len(run.records) :
        /\ run.records[i] \in Record
        /\ run.records[i].state \in {"done", "failed", "entry_failed"}
        /\ run.records[i].state # "done" => Retriable(run.records[i])
        /\ RecordFits(Strategy, run.records[i], run.mode, Listed, InCore, raw, disk)
  BY <1>1, RunIs, UpdateIs DEF BaseInv, RecordInv
<1>7. ASSUME Strategy # "api", NEW k \in DOMAIN todo', todo'[k].path # None
      PROVE  /\ todo'[k].content <= disk[todo'[k].path][k[2]]
             /\ Abreast(k[2], todo'[k].content) \/ k[2] \in forgiven'
  <2>1. CASE /\ k \in DOMAIN todo /\ todo'[k] = todo[k]
             /\ \A i \in 1..Len(run.records) : ~Touches(run.records[i], k)
    <3>1. ItemAge(k, todo[k])
      BY <1>7, <2>1 DEF OrderedInv, ItemAgeInv
    <3>2. ~DoneFor(k[2])
      <4> SUFFICES ASSUME NEW i \in 1..Len(run.records), run.records[i].art = k[2],
                          run.records[i].state = "done"
                   PROVE  FALSE
        BY DEF DoneFor
      <4>1. k = <<"record", k[2]>>
        <5>1. k \in Key
          BY <2>1, ItemMapsAre DEF BaseInv, TypeInv
        <5>2. k[1] # "path" /\ k[1] # "entry"
          BY <1>7, <2>1 DEF BaseInv, ItemInv, ItemFits
        <5> QED BY <5>1, <5>2 DEF Key
      <4>2. run.records[i].keyed
        BY <1>6 DEF RecordFits
      <4>3. Touches(run.records[i], k)
        BY <4>1, <4>2 DEF Touches, KeySet
      <4> QED BY <2>1, <4>3
    <3> QED BY <1>3, <1>7, <2>1, <3>1, <3>2 DEF ItemAge
  <2>2. CASE todo'[k] = EntryItem(k[2])
    BY <1>7, <2>2 DEF EntryItem, None
  <2>3. ASSUME NEW i \in 1..Len(run.records), run.records[i].state # "done",
               k = FirstKey(run.records[i]), todo'[k] = RetryItem(run.records[i]),
               \A j \in (i + 1)..Len(run.records) : ~Touches(run.records[j], k)
        PROVE  /\ todo'[k].content <= disk[todo'[k].path][k[2]]
               /\ Abreast(k[2], todo'[k].content) \/ k[2] \in forgiven'
    <3> DEFINE rec == run.records[i]
    <3>1. rec \in Record /\ Retriable(rec) /\ rec.state # "done"
      BY <1>6, <2>3
    <3>2. /\ k[2] = rec.art /\ todo'[k].content = rec.content /\ todo'[k].path = rec.path
      <4>1. RetryItem(rec).content = rec.content /\ RetryItem(rec).path = rec.path
        BY <3>1, RetryItemIs
      <4>2. FirstKey(rec)[2] = rec.art
        BY DEF FirstKey
      <4> QED BY <2>3, <4>1, <4>2
    <3>3. rec.path # None /\ k = <<"record", rec.art>>
      <4>1. rec.path # None
        BY <1>7, <3>2
      <4>2. rec.keyed
        BY <1>1, <1>6, <1>7, <2>3, <4>1 DEF RecordFits
      <4> QED BY <2>3, <4>1, <4>2 DEF FirstKey
    <3>4. AgeFits(i, rec)
      BY <1>2, <1>7, <3>3 DEF OrderedInv, AgeInv
    <3>5. Newest(i, rec.art)
      <4> SUFFICES ASSUME NEW j \in 1..Len(run.records), j > i,
                          run.records[j].art = rec.art, run.records[j].keyed
                   PROVE  FALSE
        BY DEF Newest
      <4>1. Touches(run.records[j], k)
        BY <3>3 DEF Touches, KeySet, FirstKey
      <4>2. j \in (i + 1)..Len(run.records)
        BY <1>1, RunIs DEF BaseInv
      <4> QED BY <2>3, <4>1, <4>2
    <3> HIDE DEF rec
    <3> QED BY <1>3, <3>1, <3>2, <3>4, <3>5 DEF AgeFits, Excused
  <2> QED BY <2>1, <2>2, <2>3, UpdateIs
<1>8. ItemAgeInv'
  BY <1>1, <1>2, <1>7 DEF ItemAgeInv, ItemAge
<1> QED BY <1>4, <1>5, <1>8 DEF OrderedInv

LEMMA OrderedInit == Init => OrderedInv
<1> SUFFICES ASSUME Init PROVE OrderedInv
  OBVIOUS
<1>1. run.pc = "idle" /\ DOMAIN todo = {} /\ InCore = {}
  BY DEF Init, Idle, InCore
<1> QED BY <1>1 DEF OrderedInv, VersionInv, RereadInv, AgeInv, ItemAgeInv, Working

LEMMA OrderedStep == BaseInv /\ EvidenceInv /\ OrderedInv /\ [Next]_vars => OrderedInv'
<1> SUFFICES ASSUME BaseInv, EvidenceInv, OrderedInv, [Next]_vars PROVE OrderedInv'
  OBVIOUS
<1>1. CASE Environment \/ UNCHANGED vars
  BY <1>1, EnvironmentOrder
<1>2. CASE Acquire
  <2>1. ASSUME NEW mode \in Mode, Start(mode) PROVE OrderedInv'
    BY <2>1, StartOrder
  <2>2. CASE StartRetry
    BY <2>2, RetryOrder
  <2>3. ASSUME NEW unread \in SUBSET Article, StartReprocess(unread) PROVE OrderedInv'
    BY <2>3, ReprocessOrder
  <2>4. CASE (\E u, v \in SUBSET Article : ListPage(u, v)) \/ PageLost \/ Acquired
    BY <2>4, StageOrder
  <2>5. ASSUME NEW unchecked \in SUBSET Article, CollectPage(unchecked) PROVE OrderedInv'
    <3>1. Strategy = "api" /\ UNCHANGED source /\ run'.pc = "discover"
      BY <2>5, CollectPageIs
    <3>2. Strategy' = "api"
      BY <3>1 DEF Strategy
    <3> QED BY <3>1, <3>2 DEF OrderedInv, VersionInv, RereadInv, AgeInv, ItemAgeInv
  <2>6. ASSUME NEW a \in Article,
               FetchDetail(a) \/ DetailFailed(a) \/ DetailMissing(a) \/ RetryEntry(a)
        PROVE  OrderedInv'
    BY <2>6, DetailOrder
  <2> QED BY <1>2, <2>1, <2>2, <2>3, <2>4, <2>5, <2>6 DEF Acquire
<1>3. CASE Process
  <2>1. CASE Persist \/ ProcessFails \/ PassOver
    BY <2>1, PassesOrder
  <2>2. CASE ProcessRecord
    BY <2>2, ProcessOrder
  <2>3. CASE Persisted
    BY <2>3, StageOrder
  <2>4. CASE UpdateTodo
    BY <2>4, UpdateOrder
  <2>5. CASE \E s \in {"SUCCESS", "PARTIAL", "FAILED"} : Report(s)
    BY <2>5, EndOrder
  <2> QED BY <1>3, <2>1, <2>2, <2>3, <2>4, <2>5 DEF Process
<1>4. CASE Crash
  BY <1>4, EndOrder
<1> QED BY <1>1, <1>2, <1>3, <1>4 DEF Next

\* What the to-do list and the records of a run keep of an article is no older than
\* what Core has of it, apart from what a run cut short left behind.
THEOREM OrderedCorrect == Spec => [](BaseInv /\ EvidenceInv /\ OrderedInv)
<1>1. Init => OrderedInv
  BY OrderedInit
<1>2. BaseInv /\ EvidenceInv /\ OrderedInv /\ [Next]_vars => OrderedInv'
  BY OrderedStep
<1> QED BY <1>1, <1>2, EvidenceCorrect, PTL DEF Spec

\* The upsert compares content only, not time: the order in which records reach it
\* keeps an older state of a page from replacing a newer one.
THEOREM NeverBackwardsHolds == Spec => NeverBackwards
<1>1. ASSUME BaseInv, EvidenceInv, OrderedInv, [Next]_vars, NEW a \in InCore,
             a \notin forgiven, Strategy # "api"
      PROVE  Current(a)'.content >= Current(a).content
  <2>a. a \in Article /\ Current(a).content \in Nat /\ Current(a).file.content \in Nat
    BY <1>1, AgesAre DEF BaseInv, InCore
  <2>1. CASE core' = core
    <3>1. Current(a)' = Current(a)
      BY <2>1 DEF Current
    <3> QED BY <2>a, <3>1
  <2>2. CASE core' # core
    <3>1. ProcessRecord
      BY <1>1, <2>2, CoreChanges
    <3>2. CASE a # Here.art
      <4>1. Current(a)' = Current(a)
        BY <1>1, <2>a, <3>1, <3>2, ProcessRecordIs
      <4> QED BY <2>a, <4>1
    <3>3. CASE a = Here.art
      <4>1. /\ run.pc = "process" /\ run.next <= Len(run.records)
            /\ Here.state \in {"stored", "duplicate"} /\ ParseAs(Here) \in Edit
            /\ Current(a)'.content = ParseAs(Here)
        BY <1>1, <2>a, <2>2, <3>1, <3>3, ProcessRecordIs
      <4>2. /\ run.next \in 1..Len(run.records) /\ Here = run.records[run.next]
            /\ RecordFits(Strategy, Here, run.mode, Listed, InCore, raw, disk)
        BY <1>1, <4>1, HereIs DEF Here
      <4>3. FileFits(Here)
        BY <1>1, <4>1, <4>2 DEF EvidenceInv, FileInv
      <4>4. CASE run.mode = "REPROCESS"
        <5>1. Here.content = Here.file.content /\ Here.state = "duplicate"
          BY <4>1, <4>2, <4>3, <4>4 DEF FileFits, RecordFits
        <5>2. Here.file = Current(a).file
          BY <1>1, <3>3, <4>1, <4>2, <4>4, <5>1 DEF OrderedInv, RereadInv
        <5>3. ParseAs(Here) = Current(a).file.content
          BY <1>1, <5>1, <5>2, CoreIs DEF ParseAs, BaseInv, Edit, None
        <5>4. Current(a).content <= Current(a).file.content
          BY <1>1 DEF OrderedInv, VersionInv
        <5> QED BY <2>a, <4>1, <5>3, <5>4
      <4>5. CASE run.mode # "REPROCESS"
        <5>1. Here.path # None /\ Here.content # None /\ Working
          BY <1>1, <4>1, <4>2, <4>3, <4>5 DEF FileFits, RecordFits, Working
        <5>2. ParseAs(Here) = Here.content /\ Here.content \in Nat
          BY <1>1, <4>1, <4>2, <5>1, AgesAre DEF ParseAs, BaseInv
        <5>3. AgeFits(run.next, Here)
          BY <1>1, <4>2, <5>1 DEF OrderedInv, AgeInv
        <5>4. ~DoneAfter(run.next, a)
          <6> SUFFICES ASSUME NEW j \in 1..Len(run.records), j > run.next,
                              run.records[j].state = "done"
                       PROVE  FALSE
            BY DEF DoneAfter
          <6>1. j >= run.next
            BY <4>2
          <6> QED BY <1>1, <4>1, <6>1 DEF BaseInv, StageInv, StateFits
        <5>5. Current(a).content <= Here.content
          BY <1>1, <3>3, <4>1, <5>3, <5>4 DEF AgeFits, Excused, Beyond
        <5> QED BY <2>a, <4>1, <5>2, <5>5
      <4> QED BY <4>4, <4>5
    <3> QED BY <3>2, <3>3
  <2> QED BY <2>1, <2>2
<1>2. BaseInv /\ EvidenceInv /\ OrderedInv /\ [Next]_vars =>
        [\A a \in InCore : a \in forgiven \/ Strategy = "api" \/
           core'[a][Len(core'[a])].content >= Current(a).content]_vars
  <2>1. \A a \in InCore : Current(a)' = core'[a][Len(core'[a])]
    BY DEF Current
  <2> QED BY <1>1, <2>1
<1> QED BY <1>2, OrderedCorrect, PTL DEF Spec, NeverBackwards

=============================================================================
