---------------------------- MODULE Rooms_proofs ----------------------------
(***************************************************************************)
(* Proofs about the two servers that pass on what one page does to others: *)
(* PubSub, for any rooms, locations, numbers of nodes, topics and          *)
(* subscribers, and PartySync, for any browsers, ids and numbers of calls. *)
(***************************************************************************)
EXTENDS PubSub, PartySync, FiniteSetTheorems, WellFoundedInduction, TLAPS

-----------------------------------------------------------------------------
(***************************************************************************)
(* PubSub: who is called, and how often a subscriber is sent a message.    *)
(***************************************************************************)

(***************************************************************************)
(* How nodes are shared out.                                               *)
(***************************************************************************)
LEMMA Smallest ==
  ASSUME NEW T \in SUBSET Nat, T /= {}
  PROVE  \E n \in T : \A m \in T : n <= m
<1> DEFINE R == OpToRel(<, Nat)
<1>1. IsWellFoundedOn(R, Nat)
  BY NatLessThanWellFounded
<1>2. R = {pair \in Nat \X Nat : pair[1] < pair[2]}
  BY DEF OpToRel
<1> HIDE DEF R
<1>3. PICK n \in T : \A m \in T : <<m, n>> \notin R
  BY <1>1, WFMin
<1>4. ASSUME NEW m \in T PROVE n <= m
  <2>1. m \in Nat /\ n \in Nat /\ <<m, n>> \notin R
    BY <1>3
  <2>2. ~ (m < n)
    BY <1>2, <2>1
  <2>3. QED BY <2>1, <2>2
<1>5. QED BY <1>4

LEMMA Induction ==
  ASSUME NEW T \in SUBSET Nat, 0 \in T, \A n \in T : n + 1 \in T
  PROVE  T = Nat
<1>1. SUFFICES ASSUME Nat \ T /= {} PROVE FALSE
  OBVIOUS
<1>2. PICK n \in Nat \ T : \A m \in Nat \ T : n <= m
  BY <1>1, Smallest
<1>3. n /= 0 /\ n - 1 \in Nat
  BY <1>2
<1>4. n - 1 \in T
  BY <1>2, <1>3
<1>5. QED BY <1>2, <1>3, <1>4

(* h adds the numbers of w, as far as place n.                             *)
Adds(h, w, n) ==
  /\ h \in [0 .. n -> Nat] /\ h[0] = 0
  /\ \A i \in 1 .. n : h[i] = h[i - 1] + w[i]

LEMMA SomethingAdds ==
  ASSUME NEW w \in [Place -> Nat]
  PROVE  \A n \in 0 .. Len(Location) : \E h : Adds(h, w, n)
<1> DEFINE T == {n \in Nat : n <= Len(Location) => \E h : Adds(h, w, n)}
<1>1. Len(Location) \in Nat
  BY PubSubAssumption
<1>2. 0 \in T
  <2> DEFINE h == [i \in 0 .. 0 |-> 0]
  <2>1. h \in [0 .. 0 -> Nat] /\ h[0] = 0 /\ \A i \in 1 .. 0 : FALSE
    OBVIOUS
  <2> HIDE DEF h
  <2>2. Adds(h, w, 0)
    BY <2>1 DEF Adds
  <2>3. QED BY <2>2
<1>3. ASSUME NEW n \in T PROVE n + 1 \in T
  <2>1. SUFFICES ASSUME n + 1 <= Len(Location) PROVE \E h : Adds(h, w, n + 1)
    OBVIOUS
  <2>2. n \in Nat /\ n + 1 \in Place
    BY <2>1 DEF Place
  <2>3. PICK h : Adds(h, w, n)
    BY <1>1, <2>1, <2>2
  <2> DEFINE m == n + 1
             x == h[n] + w[m]
             g == [i \in 0 .. m |-> IF i = m THEN x ELSE h[i]]
  <2>4. h \in [0 .. n -> Nat] /\ h[0] = 0 /\ \A i \in 1 .. n : h[i] = h[i - 1] + w[i]
    BY <2>3 DEF Adds
  <2>5. x \in Nat /\ m \in Nat /\ m /= 0 /\ m - 1 = n
    BY <2>2, <2>4
  <2>6. \A i \in 0 .. m : i /= m => i \in 0 .. n
    BY <2>2
  <2>7. g \in [0 .. m -> Nat] /\ g[m] = x /\ \A i \in 0 .. n : g[i] = h[i]
    BY <2>2, <2>4, <2>5, <2>6
  <2> HIDE DEF g
  <2>8. ASSUME NEW i \in 1 .. m PROVE g[i] = g[i - 1] + w[i]
    <3>1. i - 1 \in 0 .. n
      BY <2>2
    <3>2. CASE i = m
      BY <2>5, <2>7, <3>1, <3>2
    <3>3. CASE i /= m
      <4>1. i \in 1 .. n /\ i \in 0 .. n
        BY <2>2, <3>3
      <4>2. QED BY <2>4, <2>7, <3>1, <4>1
    <3>4. QED BY <3>2, <3>3
  <2>9. g[0] = 0
    <3>1. 0 \in 0 .. n
      BY <2>2
    <3>2. QED BY <2>4, <2>7, <3>1
  <2>10. Adds(g, w, m)
    BY <2>7, <2>8, <2>9 DEF Adds
  <2>11. QED BY <2>10
<1>4. T = Nat
  <2> HIDE DEF T
  <2>1. \A n \in T : n + 1 \in T
    BY <1>3
  <2>2. T \in SUBSET Nat
    BY DEF T
  <2>3. QED BY <1>2, <2>1, <2>2, Induction
<1>5. QED BY <1>1, <1>4

(* The total of numbers is a number, and no less than each.                *)
LEMMA TotalIs ==
  ASSUME NEW w \in [Place -> Nat]
  PROVE  Total(w) \in Nat /\ \A i \in Place : w[i] <= Total(w)
<1> DEFINE n == Len(Location)
           Sums(h) == h = [i \in 0 .. n |-> IF i = 0 THEN 0 ELSE h[i - 1] + w[i]]
           f == CHOOSE h : Sums(h)
<1>1. n \in Nat
  BY PubSubAssumption
<1>2. Total(w) = f[n]
  BY DEF Total
<1>3. PICK g : Adds(g, w, n)
  BY <1>1, SomethingAdds
<1>4. /\ g \in [0 .. n -> Nat] /\ g[0] = 0
      /\ \A i \in 1 .. n : g[i] = g[i - 1] + w[i]
  BY <1>3 DEF Adds
<1>5. Sums(g)
  <2>1. g = [i \in 0 .. n |-> g[i]]
    BY <1>4
  <2>2. ASSUME NEW i \in 0 .. n PROVE g[i] = IF i = 0 THEN 0 ELSE g[i - 1] + w[i]
    <3>1. i /= 0 => i \in 1 .. n
      BY <1>1
    <3>2. QED BY <1>4, <3>1
  <2>3. QED BY <2>1, <2>2
<1>6. Sums(f)
  BY <1>5
<1> HIDE DEF f, n
<1>7. f = [i \in 0 .. n |-> IF i = 0 THEN 0 ELSE f[i - 1] + w[i]]
  BY <1>6
<1>8. \A i \in 1 .. n : w[i] \in Nat /\ i \in Place
  BY DEF Place, n
<1> DEFINE T == {m \in Nat : m <= n => f[m] \in Nat /\ \A i \in 1 .. m : w[i] <= f[m]}
<1>9. 0 \in T
  <2>1. 0 \in 0 .. n /\ \A i \in 1 .. 0 : FALSE
    BY <1>1
  <2>2. f[0] = 0
    BY <1>7, <2>1
  <2>3. QED BY <2>1, <2>2
<1>10. ASSUME NEW m \in T PROVE m + 1 \in T
  <2>1. SUFFICES ASSUME m + 1 <= n
                 PROVE  f[m + 1] \in Nat /\ \A i \in 1 .. m + 1 : w[i] <= f[m + 1]
    OBVIOUS
  <2>2. m \in Nat /\ m <= n /\ m + 1 \in 0 .. n /\ m + 1 \in 1 .. n /\ (m + 1) - 1 = m /\ m + 1 /= 0
    BY <1>1, <2>1
  <2>3. f[m] \in Nat /\ \A i \in 1 .. m : w[i] <= f[m]
    BY <2>2
  <2>4. f[m + 1] = f[m] + w[m + 1]
    BY <1>7, <2>2
  <2>5. w[m + 1] \in Nat
    BY <1>8, <2>2
  <2>6. ASSUME NEW i \in 1 .. m + 1 PROVE w[i] <= f[m + 1]
    <3>1. CASE i = m + 1
      BY <2>3, <2>4, <2>5, <3>1
    <3>2. CASE i /= m + 1
      <4>1. i \in 1 .. m /\ i \in 1 .. n
        BY <1>1, <2>2, <3>2
      <4>2. w[i] \in Nat /\ w[i] <= f[m]
        BY <1>8, <2>3, <4>1
      <4>3. QED BY <2>3, <2>4, <2>5, <4>2
    <3>3. QED BY <3>1, <3>2
  <2>7. QED BY <2>3, <2>4, <2>5, <2>6
<1>11. T = Nat
  <2> HIDE DEF T
  <2>1. \A m \in T : m + 1 \in T
    BY <1>10
  <2>2. T \in SUBSET Nat
    BY DEF T
  <2>3. QED BY <1>9, <2>1, <2>2, Induction
<1>12. f[n] \in Nat /\ \A i \in 1 .. n : w[i] <= f[n]
  BY <1>1, <1>11
<1>13. QED BY <1>2, <1>12 DEF Place, n

LEMMA WeightsAre ==
  ASSUME NEW weight \in Weights
  PROVE  /\ weight \in [Place -> Nat] /\ Total(weight) \in Nat \ {0}
         /\ \A i \in Place : weight[i] <= Total(weight)
<1>1. weight \in [Place -> 0 .. MaxWeight] /\ MaxWeight \in Nat /\ Total(weight) > 0
  BY PubSubAssumption DEF Weights
<1>2. weight \in [Place -> Nat]
  BY <1>1
<1>3. QED BY <1>1, <1>2, TotalIs

LEMMA Quotient ==
  ASSUME NEW a \in Nat, NEW d \in Nat \ {0}
  PROVE  a \div d \in Nat /\ d * (a \div d) <= a
OBVIOUS

LEMMA QuotientOfPart ==
  ASSUME NEW a \in Nat, NEW n \in Nat, NEW d \in Nat \ {0}, a <= d
  PROVE  (a * n) \div d \in Nat /\ (a * n) \div d <= n
<1> DEFINE x == a * n
           q == x \div d
<1>1. x \in Nat
  OBVIOUS
<1>2. q \in Nat /\ d * q <= x
  BY <1>1, Quotient
<1>3. x <= d * n
  <2>1. \E e \in Nat : d = a + e
    <3>1. d - a \in Nat /\ d = a + (d - a)
      OBVIOUS
    <3>2. QED BY <3>1
  <2>2. PICK e \in Nat : d = a + e
    BY <2>1
  <2>3. d * n = a * n + e * n /\ e * n \in Nat
    BY <2>2
  <2>4. QED BY <1>1, <2>3
<1> HIDE DEF x, q
<1>4. ASSUME q > n PROVE FALSE
  <2>1. PICK e \in Nat : q = n + 1 + e
    <3>1. q - (n + 1) \in Nat /\ q = n + 1 + (q - (n + 1))
      BY <1>2, <1>4
    <3>2. QED BY <3>1
  <2>2. d * q = d * n + d + d * e /\ d * e \in Nat /\ d * n \in Nat
    BY <2>1
  <2>3. QED BY <1>1, <1>2, <1>3, <2>2
<1>5. QED BY <1>2, <1>4 DEF x, q

(* Every location has a node, and there are not many more than asked for.  *)
LEMMA AllocationIs ==
  ASSUME NEW w \in Weights, NEW n \in 1 .. MaxNodes, NEW short \in SUBSET Place
  PROVE  Allocation(w, n, short) \in [Place -> 1 .. MaxNodes + Len(Location)]
<1> DEFINE share == [i \in Place |-> Share(w, n, i, short)]
           left == IF Total(share) < n THEN n - Total(share) ELSE 0
           L == Len(Location)
           extra(i) == (left + L - i) \div L
<1>1. n \in Nat \ {0} /\ n <= MaxNodes /\ MaxNodes \in Nat /\ L \in Nat \ {0} /\ MaxWeight \in Nat
  BY PubSubAssumption
<1>2. /\ w \in [Place -> Nat] /\ Total(w) \in Nat \ {0} /\ \A i \in Place : w[i] <= Total(w)
  BY WeightsAre
<1>3. ASSUME NEW i \in Place PROVE Rounded(w, n, i, short) \in 0 .. n
  <2> DEFINE quotient == (w[i] * n) \div Total(w)
             falls == i \in short /\ quotient > 0 /\ quotient * Total(w) = w[i] * n
  <2>1. quotient \in Nat /\ quotient <= n
    BY <1>1, <1>2, QuotientOfPart
  <2>2. Rounded(w, n, i, short) = (IF falls THEN quotient - 1 ELSE quotient) /\ (falls => quotient > 0)
    BY DEF Rounded
  <2> HIDE DEF quotient, falls
  <2>3. QED BY <1>1, <2>1, <2>2
<1>4. ASSUME NEW i \in Place PROVE Share(w, n, i, short) \in 1 .. n
  BY <1>1, <1>3 DEF Share, Larger
<1>5. share \in [Place -> Nat]
  BY <1>1, <1>4
<1>6. Total(share) \in Nat /\ \A i \in Place : share[i] <= Total(share)
  BY <1>5, TotalIs
<1>7. \A i \in Place : share[i] \in 1 .. n
  BY <1>4
<1> HIDE DEF share
<1>8. left \in Nat /\ (left = 0 \/ left = n - Total(share))
  BY <1>1, <1>6
<1>9. ASSUME NEW i \in Place PROVE share[i] + extra(i) \in 1 .. MaxNodes + L
  <2> DEFINE a == left + L - i
             q == a \div L
  <2>1. i \in 1 .. L /\ share[i] \in Nat \ {0} /\ share[i] <= n /\ share[i] <= Total(share)
    BY <1>1, <1>6, <1>7 DEF Place
  <2>2. a \in Nat /\ a <= left + L
    BY <1>1, <1>8, <2>1
  <2>3. q \in Nat /\ L * q <= a
    BY <1>1, <2>2, Quotient
  <2> HIDE DEF a, q, left
  <2>4. q <= L * q
    <3>1. PICK e \in Nat : L = 1 + e
      <4>1. L - 1 \in Nat /\ L = 1 + (L - 1)
        BY <1>1
      <4>2. QED BY <4>1
    <3>2. L * q = q + e * q /\ e * q \in Nat
      BY <2>3, <3>1
    <3>3. QED BY <2>3, <3>2
  <2>5. L * q \in Nat
    BY <1>1, <2>3
  <2>6. q <= left + L
    BY <1>1, <1>8, <2>2, <2>3, <2>4, <2>5
  <2>7. share[i] + q \in 1 .. MaxNodes + L
    BY <1>1, <1>6, <1>8, <2>1, <2>3, <2>6
  <2>8. QED BY <2>7 DEF a, q
<1>10. Allocation(w, n, short) = [i \in Place |-> share[i] + extra(i)]
  BY DEF Allocation, share
<1>11. QED BY <1>9, <1>10

(***************************************************************************)
(* Names.                                                                  *)
(***************************************************************************)
LEMMA LargerSeq ==
  ASSUME NEW S, NEW T, S \subseteq T, NEW q \in Seq(S)
  PROVE  q \in Seq(T)
OBVIOUS

(* The base of a node's name is its room.                                  *)
LEMMA BaseOfNode ==
  ASSUME NEW room \in Room, NEW l, NEW k
  PROVE  BaseName(room \o <<l, k>>) = room
<1> DEFINE T == Part \cup {l, k}
           n == Len(room)
           name == room \o <<l, k>>
<1>1. room \in Seq(Part)
  BY PubSubAssumption
<1>2. room \in Seq(T) /\ <<l, k>> \in Seq(T) /\ Len(<<l, k>>) = 2 /\ n \in Nat
  BY <1>1, LargerSeq
<1>3. name \in Seq(T) /\ Len(name) = n + 2 /\ \A i \in 1 .. n : name[i] = room[i]
  BY <1>2
<1> HIDE DEF name, n, T
<1>4. Len(name) - 2 = n
  BY <1>2, <1>3
<1>5. /\ SubSeq(name, 1, n) \in Seq(T) /\ Len(SubSeq(name, 1, n)) = n
      /\ \A i \in 1 .. n : SubSeq(name, 1, n)[i] = name[i]
  BY <1>2, <1>3
<1>6. SubSeq(name, 1, n) = room
  BY <1>2, <1>3, <1>5 DEF n
<1>7. QED BY <1>4, <1>6 DEF BaseName, name

Names(room) == {room \o node : node \in AllNodes}

LEMMA NodesArePairs == ASSUME NEW node \in AllNodes PROVE \E l, k : node = <<l, k>>
BY DEF AllNodes, NodesOf

LEMMA BaseNames ==
  ASSUME NEW room \in Room, NEW name \in Names(room)
  PROVE  BaseName(name) = room /\ OtherNodes(name) = Names(room) \ {name}
<1>1. PICK node \in AllNodes : name = room \o node
  BY DEF Names
<1>2. BaseName(name) = room
  BY <1>1, NodesArePairs, BaseOfNode
<1>3. QED BY <1>2 DEF OtherNodes, Names

LEMMA RoutesToNodes ==
  ASSUME NEW room \in Room, NEW origin \in 0 .. Len(Location), NEW name \in RouteFrom(origin, room)
  PROVE  name \in Names(room)
BY DEF RouteFrom, Names, AllNodes

(***************************************************************************)
(* How many copies publish() sends.                                        *)
(***************************************************************************)
MatchingIn(topics, topic) == {i \in DOMAIN topics : Matches(topics[i], topic)}

LEMMA CountOfMatching ==
  ASSUME NEW topics \in Topics, NEW topic
  PROVE  /\ Cardinality(MatchingIn(topics, topic)) \in Nat
         /\ (\E i \in DOMAIN topics : Matches(topics[i], topic)) =>
              Cardinality(MatchingIn(topics, topic)) > 0
<1> DEFINE M == MatchingIn(topics, topic)
<1>1. topics \in Seq(Seq(Part))
  BY PubSubAssumption
<1>2. DOMAIN topics = 1 .. Len(topics) /\ Len(topics) \in Nat
  BY <1>1
<1>3. IsFiniteSet(DOMAIN topics)
  BY <1>2, FS_Interval
<1>4. IsFiniteSet(M)
  BY <1>3, FS_Subset DEF MatchingIn
<1>5. Cardinality(M) \in Nat
  BY <1>4, FS_CardinalityType
<1>6. (\E i \in DOMAIN topics : Matches(topics[i], topic)) => M /= {}
  BY DEF MatchingIn
<1>7. Cardinality(M) = 0 <=> M = {}
  BY <1>4, FS_EmptySet
<1>8. QED BY <1>5, <1>6, <1>7

(***************************************************************************)
(* Subscribers, messages and calls.                                        *)
(***************************************************************************)
AnyName == UNION {Names(room) : room \in Room}

SubTyped == sub \in [Client -> [room : Room, name : AnyName, topics : Topics] \cup {None}]

AtTheirNodes == \A c \in Client : sub[c] /= None => sub[c].name \in Names(sub[c].room)

MessagesTyped ==
  /\ messages \in Seq([room : Room, topic : Topic]) /\ Len(messages) <= MaxMessages
  /\ got \in [Client -> [Message -> Nat]]
  /\ owed \in [Message -> SUBSET Client]

(* Calls are of messages that were published, to nodes of their rooms.     *)
CallsInRoom ==
  /\ calls \subseteq [to : AnyName, message : Message]
  /\ \A call \in calls : /\ call.message \in 1 .. Len(messages)
                         /\ call.to \in Names(messages[call.message].room)

PubSubTyped == SubTyped /\ AtTheirNodes /\ MessagesTyped /\ CallsInRoom

(* Who is owed a message is subscribed to it, and has it or is called.     *)
Owed ==
  \A m \in 1 .. Len(messages) : \A c \in owed[m] :
    /\ sub[c] /= None /\ sub[c].room = messages[m].room
    /\ \E i \in DOMAIN sub[c].topics : Matches(sub[c].topics[i], messages[m].topic)
    /\ got[c][m] > 0 \/ [to |-> sub[c].name, message |-> m] \in calls

(* Who was sent a message is not called for it any more.                   *)
Once ==
  \A c \in Client, m \in Message :
    /\ sub[c] = None \/ m \notin 1 .. Len(messages) => got[c][m] = 0
    /\ sub[c] /= None /\ got[c][m] > 0 => [to |-> sub[c].name, message |-> m] \notin calls

PubSubInv == PubSubTyped /\ Owed

(* What one call of publish() changes. *)
LEMMA PublishAdds ==
  ASSUME PubSubTyped, NEW name, NEW m \in Message, NEW topic, Publish(name, m, topic)
  PROVE  /\ got' \in [Client -> [Message -> Nat]]
         /\ \A c \in Client, l \in Message : l /= m \/ c \notin At(name) => got'[c][l] = got[c][l]
         /\ \A c \in At(name) : /\ sub[c].topics \in Topics
                                /\ got'[c][m] = got[c][m] + Cardinality(MatchingIn(sub[c].topics, topic))
         /\ \A c \in Client, l \in Message : got[c][l] > 0 => got'[c][l] > 0
<1>1. got \in [Client -> [Message -> Nat]] /\ SubTyped
  BY DEF PubSubTyped, MessagesTyped
<1>2. \A c \in At(name) : c \in Client /\ sub[c] \in [room : Room, name : AnyName, topics : Topics]
  BY <1>1 DEF At, SubTyped
<1>3. \A c \in At(name) : sub[c].topics \in Topics
  BY <1>2
<1> DEFINE more(c) == Cardinality(MatchingIn(sub[c].topics, topic))
<1>4. \A c \in At(name) : more(c) \in Nat
  BY <1>3, CountOfMatching
<1>5. got' = [c \in Client |-> IF c \in At(name) THEN [got[c] EXCEPT ![m] = @ + more(c)] ELSE got[c]]
  BY DEF Publish, Matching, MatchingIn
<1> HIDE DEF more
<1>6. ASSUME NEW c \in Client
      PROVE  /\ got'[c] \in [Message -> Nat]
             /\ \A l \in Message : l /= m \/ c \notin At(name) => got'[c][l] = got[c][l]
             /\ c \in At(name) => got'[c][m] = got[c][m] + more(c)
             /\ \A l \in Message : got[c][l] > 0 => got'[c][l] > 0
  <2>1. got[c] \in [Message -> Nat] /\ got[c][m] \in Nat
    BY <1>1
  <2>2. CASE c \in At(name)
    <3>1. got'[c] = [got[c] EXCEPT ![m] = got[c][m] + more(c)]
      BY <1>5, <2>2
    <3>2. got[c][m] + more(c) \in Nat /\ (got[c][m] > 0 => got[c][m] + more(c) > 0)
      BY <1>4, <2>1, <2>2
    <3> DEFINE total == got[c][m] + more(c)
    <3> HIDE DEF total
    <3>3. got'[c] = [got[c] EXCEPT ![m] = total] /\ total \in Nat /\ (got[c][m] > 0 => total > 0)
      BY <3>1, <3>2 DEF total
    <3>4. /\ got'[c] \in [Message -> Nat] /\ got'[c][m] = total
          /\ \A l \in Message : l /= m => got'[c][l] = got[c][l]
      BY <2>1, <3>3
    <3>5. \A l \in Message : got[c][l] > 0 => got'[c][l] > 0
      BY <3>3, <3>4
    <3>6. QED BY <2>2, <3>4, <3>5 DEF total
  <2>3. CASE c \notin At(name)
    BY <1>5, <2>1, <2>3
  <2>4. QED BY <2>2, <2>3
<1>7. got' \in [Client -> [Message -> Nat]]
  <2>1. got' = [c \in Client |-> got'[c]]
    BY <1>5
  <2>2. QED BY <1>6, <2>1
<1>8. \A c \in At(name) : c \in Client
  BY <1>2
<1>9. QED BY <1>3, <1>6, <1>7, <1>8 DEF more

LEMMA TypedInit == Init => PubSubTyped /\ Owed
<1> SUFFICES ASSUME Init PROVE PubSubTyped /\ Owed
  OBVIOUS
<1>1. /\ sub = [c \in Client |-> None] /\ messages = <<>> /\ calls = {}
      /\ got = [c \in Client |-> [m \in 1 .. MaxMessages |-> 0]]
      /\ owed = [m \in 1 .. MaxMessages |-> {}]
  BY DEF Init
<1>2. <<>> \in Seq([room : Room, topic : Topic])
  OBVIOUS
<1>3. Len(<<>>) = 0 /\ \A m \in 1 .. 0 : FALSE
  OBVIOUS
<1>4. MessagesTyped
  <2>1. [c \in Client |-> [m \in 1 .. MaxMessages |-> 0]] \in [Client -> [Message -> Nat]]
    BY DEF Message
  <2>2. [m \in 1 .. MaxMessages |-> {}] \in [Message -> SUBSET Client]
    BY DEF Message
  <2>3. QED BY <1>1, <1>2, <1>3, <2>1, <2>2, PubSubAssumption DEF MessagesTyped
<1>5. SubTyped /\ AtTheirNodes /\ CallsInRoom /\ Owed
  BY <1>1, <1>3 DEF SubTyped, AtTheirNodes, CallsInRoom, Owed
<1>6. QED BY <1>4, <1>5 DEF PubSubTyped

(* A message reaches a node of its room. *)
LEMMA BroadcastKeeps ==
  ASSUME PubSubInv, NEW room \in Room, NEW name \in Names(room), NEW topic \in Topic,
         BroadcastPubSubMessage(room, name, topic)
  PROVE  PubSubInv'
<1> DEFINE k == Len(messages)
           m == Len(messages) + 1
           message == [room |-> room, topic |-> topic]
<1>1. /\ SubTyped /\ AtTheirNodes /\ MessagesTyped /\ CallsInRoom /\ Owed /\ PubSubTyped
  BY DEF PubSubInv, PubSubTyped
<1>2. k \in Nat /\ m <= MaxMessages /\ MaxMessages \in Nat
  BY <1>1, PubSubAssumption DEF MessagesTyped, BroadcastPubSubMessage
<1>3. m \in Message /\ k \in Nat /\ m = k + 1
  BY <1>2 DEF Message
<1>4. /\ messages' = Append(messages, message) /\ Publish(name, m, topic)
      /\ calls' = calls \cup {[to |-> other, message |-> m] : other \in OtherNodes(name)}
      /\ owed' = [owed EXCEPT ![m] = Subscribed(room, topic)]
      /\ UNCHANGED <<asked, nodes, sub>>
  BY DEF BroadcastPubSubMessage
<1>5. /\ messages' \in Seq([room : Room, topic : Topic]) /\ Len(messages') = m
      /\ messages'[m] = message /\ \A l \in 1 .. k : messages'[l] = messages[l]
  BY <1>1, <1>4 DEF MessagesTyped
<1>6. OtherNodes(name) = Names(room) \ {name} /\ OtherNodes(name) \subseteq AnyName
  BY BaseNames DEF AnyName
<1>7. \A r : Names(r)' = Names(r)
  BY <1>4 DEF Names, AllNodes, NodesOf
<1>8. AnyName' = AnyName
  BY <1>7 DEF AnyName
<1>9. SubTyped' /\ AtTheirNodes'
  BY <1>1, <1>4, <1>7, <1>8 DEF SubTyped, AtTheirNodes
<1>10. Subscribed(room, topic) \subseteq Client
  BY DEF Subscribed
<1>11. /\ owed' \in [Message -> SUBSET Client] /\ owed'[m] = Subscribed(room, topic)
       /\ \A l \in Message \ {m} : owed'[l] = owed[l]
  BY <1>1, <1>3, <1>4, <1>10 DEF MessagesTyped
<1>12. /\ got' \in [Client -> [Message -> Nat]]
       /\ \A c \in Client, l \in Message : l /= m \/ c \notin At(name) => got'[c][l] = got[c][l]
       /\ \A c \in At(name) : /\ sub[c].topics \in Topics
                              /\ got'[c][m] = got[c][m] + Cardinality(MatchingIn(sub[c].topics, topic))
       /\ \A c \in Client, l \in Message : got[c][l] > 0 => got'[c][l] > 0
  BY <1>1, <1>3, <1>4, PublishAdds
<1> HIDE DEF k, m, message
<1>13. MessagesTyped'
  BY <1>2, <1>5, <1>11, <1>12 DEF MessagesTyped, m
<1>14. CallsInRoom'
  <2>1. calls' \subseteq [to : AnyName', message : Message]
    BY <1>1, <1>3, <1>4, <1>6, <1>8 DEF CallsInRoom
  <2>2. ASSUME NEW call \in calls'
        PROVE  call.message \in 1 .. Len(messages') /\ call.to \in Names(messages'[call.message].room)
    <3>1. CASE call \in calls
      <4>1. call.message \in 1 .. k /\ call.to \in Names(messages[call.message].room)
        BY <1>1, <3>1 DEF CallsInRoom, k
      <4>2. call.message \in 1 .. Len(messages') /\ messages'[call.message] = messages[call.message]
        BY <1>3, <1>5, <4>1
      <4>3. QED BY <4>1, <4>2
    <3>2. CASE call \notin calls
      <4>1. PICK other \in OtherNodes(name) : call = [to |-> other, message |-> m]
        BY <1>4, <2>2, <3>2
      <4>2. call.to = other /\ call.message = m /\ m \in 1 .. Len(messages')
        BY <1>3, <1>5, <4>1
      <4>3. messages'[call.message].room = room
        BY <1>5, <4>2 DEF message
      <4>4. QED BY <1>6, <4>1, <4>2, <4>3
    <3>3. QED BY <3>1, <3>2
  <2>3. AllNodes' = AllNodes
    BY <1>4 DEF AllNodes, NodesOf
  <2>4. QED BY <2>1, <2>2, <2>3 DEF CallsInRoom, Names
<1>15. ASSUME NEW l \in 1 .. m, NEW c \in owed'[l]
       PROVE  /\ sub[c] /= None /\ sub[c].room = messages'[l].room
              /\ \E i \in DOMAIN sub[c].topics : Matches(sub[c].topics[i], messages'[l].topic)
              /\ got'[c][l] > 0 \/ [to |-> sub[c].name, message |-> l] \in calls'
  <2>1. CASE l = m
    <3>1. c \in Subscribed(room, topic)
      BY <1>11, <1>15, <2>1
    <3>2. /\ c \in Client /\ sub[c] /= None /\ sub[c].room = room
          /\ \E i \in DOMAIN sub[c].topics : Matches(sub[c].topics[i], topic)
      BY <3>1 DEF Subscribed
    <3>3. messages'[l].room = room /\ messages'[l].topic = topic
      BY <1>5, <2>1 DEF message
    <3>4. CASE sub[c].name = name
      <4>1. c \in At(name)
        BY <3>2, <3>4 DEF At
      <4>2. Cardinality(MatchingIn(sub[c].topics, topic)) > 0
        BY <1>12, <3>2, <4>1, CountOfMatching
      <4>3. Cardinality(MatchingIn(sub[c].topics, topic)) \in Nat
        BY <1>12, <4>1, CountOfMatching
      <4>4. got[c][m] \in Nat
        BY <1>1, <1>3, <3>2 DEF MessagesTyped
      <4>5. got'[c][m] > 0
        BY <1>12, <4>1, <4>2, <4>3, <4>4
      <4>6. QED BY <2>1, <3>2, <3>3, <4>5
    <3>5. CASE sub[c].name /= name
      <4>1. sub[c].name \in OtherNodes(name)
        BY <1>1, <1>6, <3>2, <3>5 DEF AtTheirNodes
      <4>2. [to |-> sub[c].name, message |-> l] \in calls'
        BY <1>4, <2>1, <4>1
      <4>3. QED BY <3>2, <3>3, <4>2
    <3>6. QED BY <3>4, <3>5
  <2>2. CASE l /= m
    <3>1. l \in 1 .. k /\ l \in Message
      BY <1>2, <1>3, <2>2 DEF Message
    <3>2. c \in owed[l] /\ c \in Client
      BY <1>1, <1>11, <1>15, <2>2, <3>1 DEF MessagesTyped
    <3>3. /\ sub[c] /= None /\ sub[c].room = messages[l].room
          /\ \E i \in DOMAIN sub[c].topics : Matches(sub[c].topics[i], messages[l].topic)
          /\ got[c][l] > 0 \/ [to |-> sub[c].name, message |-> l] \in calls
      BY <1>1, <3>1, <3>2 DEF Owed, k
    <3>4. QED BY <1>4, <1>5, <1>12, <3>1, <3>2, <3>3
  <2>3. QED BY <2>1, <2>2
<1>16. Owed'
  <2>1. Len(messages') = m /\ sub' = sub
    BY <1>4, <1>5
  <2>2. QED BY <1>15, <2>1 DEF Owed
<1>17. QED BY <1>9, <1>13, <1>14, <1>16 DEF PubSubInv, PubSubTyped

(* What no action but a publication changes. *)
LEMMA CallsStay ==
  ASSUME PubSubTyped, UNCHANGED <<nodes, messages>>, calls' \subseteq calls
  PROVE  CallsInRoom' /\ AllNodes' = AllNodes /\ AnyName' = AnyName
<1>1. AllNodes' = AllNodes
  BY DEF AllNodes, NodesOf
<1>2. AnyName' = AnyName
  BY <1>1 DEF AnyName, Names
<1>3. CallsInRoom
  BY DEF PubSubTyped
<1>4. CallsInRoom'
  <2>1. calls' \subseteq [to : AnyName', message : Message]
    BY <1>2, <1>3 DEF CallsInRoom
  <2>2. ASSUME NEW call \in calls'
        PROVE  /\ call.message \in 1 .. Len(messages')
               /\ call.to \in Names(messages'[call.message].room)
    BY <1>3, <2>2 DEF CallsInRoom
  <2>3. QED BY <1>1, <2>1, <2>2 DEF CallsInRoom, Names
<1>5. QED BY <1>1, <1>2, <1>4

(* A call arrives, or fails. *)
LEMMA ArrivalKeeps ==
  ASSUME PubSubInv, NEW call \in calls, PublishArrives(call)
  PROVE  PubSubInv'
<1> DEFINE m == call.message
           topic == messages[m].topic
<1>1. /\ SubTyped /\ AtTheirNodes /\ MessagesTyped /\ CallsInRoom /\ Owed /\ PubSubTyped
      /\ Publish(call.to, m, topic) /\ calls' = calls \ {call}
      /\ UNCHANGED <<nodes, sub, messages, owed>>
  BY DEF PubSubInv, PubSubTyped, PublishArrives
<1>2. m \in Message /\ call \in [to : AnyName, message : Message]
  BY <1>1 DEF CallsInRoom
<1>3. CallsInRoom' /\ AllNodes' = AllNodes /\ AnyName' = AnyName
  BY <1>1, CallsStay
<1>4. SubTyped' /\ AtTheirNodes'
  BY <1>1, <1>3 DEF SubTyped, AtTheirNodes, Names
<1> HIDE DEF m, topic
<1>5. /\ got' \in [Client -> [Message -> Nat]]
      /\ \A c \in At(call.to) :
           /\ sub[c].topics \in Topics
           /\ got'[c][m] = got[c][m] + Cardinality(MatchingIn(sub[c].topics, topic))
      /\ \A c \in Client, l \in Message : got[c][l] > 0 => got'[c][l] > 0
  <2>1. PubSubTyped /\ m \in Message /\ Publish(call.to, m, topic)
    BY <1>1, <1>2
  <2> DEFINE name == call.to
  <2> HIDE DEF name
  <2>2. Publish(name, m, topic)
    BY <2>1 DEF name
  <2>3. /\ got' \in [Client -> [Message -> Nat]]
        /\ \A c \in At(name) :
             /\ sub[c].topics \in Topics
             /\ got'[c][m] = got[c][m] + Cardinality(MatchingIn(sub[c].topics, topic))
        /\ \A c \in Client, l \in Message : got[c][l] > 0 => got'[c][l] > 0
    BY <2>1, <2>2, PublishAdds
  <2>4. QED BY <2>3 DEF name
<1>6. MessagesTyped'
  BY <1>1, <1>5 DEF MessagesTyped
<1>7. ASSUME NEW l \in 1 .. Len(messages), NEW c \in owed[l]
      PROVE  /\ sub[c] /= None /\ sub[c].room = messages[l].room
             /\ \E i \in DOMAIN sub[c].topics : Matches(sub[c].topics[i], messages[l].topic)
             /\ got'[c][l] > 0 \/ [to |-> sub[c].name, message |-> l] \in calls'
  <2>1. /\ sub[c] /= None /\ sub[c].room = messages[l].room
        /\ \E i \in DOMAIN sub[c].topics : Matches(sub[c].topics[i], messages[l].topic)
        /\ got[c][l] > 0 \/ [to |-> sub[c].name, message |-> l] \in calls
    BY <1>1, <1>7 DEF Owed
  <2>2. l \in Message /\ c \in Client
    BY <1>1, <1>7, PubSubAssumption DEF MessagesTyped, Message
  <2>3. CASE call = [to |-> sub[c].name, message |-> l]
    <3>1. m = l /\ call.to = sub[c].name
      BY <2>3 DEF m
    <3>2. c \in At(call.to)
      BY <2>1, <2>2, <3>1 DEF At
    <3>3. Cardinality(MatchingIn(sub[c].topics, topic)) > 0
      BY <1>5, <2>1, <3>1, <3>2, CountOfMatching DEF topic
    <3>4. Cardinality(MatchingIn(sub[c].topics, topic)) \in Nat /\ got[c][m] \in Nat
      BY <1>1, <1>2, <1>5, <2>2, <3>2, CountOfMatching DEF MessagesTyped
    <3>5. got'[c][l] > 0
      BY <1>5, <3>1, <3>2, <3>3, <3>4
    <3>6. QED BY <2>1, <3>5
  <2>4. CASE call /= [to |-> sub[c].name, message |-> l]
    BY <1>1, <1>5, <2>1, <2>2, <2>4
  <2>5. QED BY <2>3, <2>4
<1>8. Owed'
  BY <1>1, <1>7 DEF Owed
<1>9. QED BY <1>3, <1>4, <1>6, <1>8 DEF PubSubInv, PubSubTyped

LEMMA FailureKeeps ==
  ASSUME PubSubInv, NEW call \in calls, PublishFails(call)
  PROVE  PubSubInv'
<1> DEFINE m == call.message
<1>1. /\ SubTyped /\ AtTheirNodes /\ MessagesTyped /\ CallsInRoom /\ Owed /\ PubSubTyped
      /\ owed' = [owed EXCEPT ![m] = @ \ At(call.to)] /\ calls' = calls \ {call}
      /\ UNCHANGED <<nodes, sub, messages, got>>
  BY DEF PubSubInv, PubSubTyped, PublishFails
<1>2. m \in Message
  BY <1>1 DEF CallsInRoom
<1>3. CallsInRoom' /\ AllNodes' = AllNodes /\ AnyName' = AnyName
  BY <1>1, CallsStay
<1>4. SubTyped' /\ AtTheirNodes'
  BY <1>1, <1>3 DEF SubTyped, AtTheirNodes, Names
<1>5. /\ owed' \in [Message -> SUBSET Client] /\ owed'[m] = owed[m] \ At(call.to)
      /\ \A l \in Message : owed'[l] \subseteq owed[l]
  BY <1>1, <1>2 DEF MessagesTyped
<1>6. MessagesTyped'
  BY <1>1, <1>5 DEF MessagesTyped
<1> HIDE DEF m
<1>7. ASSUME NEW l \in 1 .. Len(messages), NEW c \in owed'[l]
      PROVE  /\ sub[c] /= None /\ sub[c].room = messages[l].room
             /\ \E i \in DOMAIN sub[c].topics : Matches(sub[c].topics[i], messages[l].topic)
             /\ got[c][l] > 0 \/ [to |-> sub[c].name, message |-> l] \in calls'
  <2>1. l \in Message
    BY <1>1, PubSubAssumption DEF MessagesTyped, Message
  <2>2. c \in owed[l] /\ c \in Client
    BY <1>1, <1>5, <1>7, <2>1 DEF MessagesTyped
  <2>3. /\ sub[c] /= None /\ sub[c].room = messages[l].room
        /\ \E i \in DOMAIN sub[c].topics : Matches(sub[c].topics[i], messages[l].topic)
        /\ got[c][l] > 0 \/ [to |-> sub[c].name, message |-> l] \in calls
    BY <1>1, <2>2 DEF Owed
  <2>4. call /= [to |-> sub[c].name, message |-> l]
    <3>1. SUFFICES ASSUME call = [to |-> sub[c].name, message |-> l] PROVE FALSE
      OBVIOUS
    <3>2. m = l /\ c \in At(call.to)
      BY <2>2, <2>3, <3>1 DEF m, At
    <3>3. QED BY <1>5, <1>7, <3>2
  <2>5. QED BY <1>1, <2>3, <2>4
<1>8. Owed'
  BY <1>1, <1>7 DEF Owed
<1>9. QED BY <1>3, <1>4, <1>6, <1>8 DEF PubSubInv, PubSubTyped

(* A subscriber connects, asks for other topics, or leaves.                *)
LEMMA ConnectKeeps ==
  ASSUME PubSubInv, NEW c \in Client, NEW room \in Room, NEW topics \in Topics,
         OnConnect(c, room, topics)
  PROVE  PubSubInv'
<1>1. /\ SubTyped /\ AtTheirNodes /\ MessagesTyped /\ CallsInRoom /\ Owed /\ PubSubTyped
      /\ sub[c] = None
      /\ \E origin \in 0 .. Len(Location) : \E name \in RouteFrom(origin, room) :
           sub' = [sub EXCEPT ![c] = [room |-> room, name |-> name, topics |-> topics]]
      /\ UNCHANGED <<nodes, messages, calls, got, owed>>
  BY DEF PubSubInv, PubSubTyped, OnConnect
<1>2. PICK name \in Names(room) :
        sub' = [sub EXCEPT ![c] = [room |-> room, name |-> name, topics |-> topics]]
  BY <1>1, RoutesToNodes
<1>3. CallsInRoom' /\ AllNodes' = AllNodes /\ AnyName' = AnyName
  BY <1>1, CallsStay
<1>4. name \in AnyName
  BY DEF AnyName
<1> DEFINE new == [room |-> room, name |-> name, topics |-> topics]
<1>5. new \in [room : Room, name : AnyName, topics : Topics] /\ new.name \in Names(new.room)
  BY <1>4
<1> HIDE DEF new
<1>6. sub'[c] = new /\ \A e \in Client \ {c} : sub'[e] = sub[e]
  BY <1>1, <1>2 DEF SubTyped, new
<1>7. SubTyped'
  BY <1>1, <1>2, <1>3, <1>5 DEF SubTyped, new
<1>8. AtTheirNodes'
  <2>1. ASSUME NEW e \in Client, sub'[e] /= None PROVE sub'[e].name \in Names(sub'[e].room)
    <3>1. CASE e = c
      BY <1>5, <1>6, <3>1
    <3>2. CASE e /= c
      BY <1>1, <1>6, <2>1, <3>2 DEF AtTheirNodes
    <3>3. QED BY <3>1, <3>2
  <2>2. AllNodes' = AllNodes
    BY <1>3
  <2>3. QED BY <2>1, <2>2 DEF AtTheirNodes, Names
<1>9. \A l \in 1 .. Len(messages) : c \notin owed[l]
  BY <1>1 DEF Owed
<1>10. MessagesTyped'
  BY <1>1 DEF MessagesTyped
<1>11. \A l \in 1 .. Len(messages) : l \in Message
  BY <1>1, PubSubAssumption DEF MessagesTyped, Message
<1>12. Owed'
  <2>1. ASSUME NEW l \in 1 .. Len(messages), NEW e \in owed[l]
        PROVE  e \in Client \ {c}
    BY <1>1, <1>9, <1>11 DEF MessagesTyped
  <2>2. ASSUME NEW l \in 1 .. Len(messages), NEW e \in owed[l]
        PROVE  /\ sub'[e] /= None /\ sub'[e].room = messages[l].room
               /\ \E i \in DOMAIN sub'[e].topics : Matches(sub'[e].topics[i], messages[l].topic)
               /\ got[e][l] > 0 \/ [to |-> sub'[e].name, message |-> l] \in calls
    BY <1>1, <1>6, <2>1, <2>2 DEF Owed
  <2>3. QED BY <1>1, <2>2 DEF Owed
<1>13. QED BY <1>3, <1>7, <1>8, <1>10, <1>12 DEF PubSubInv, PubSubTyped

(* Who is owed nothing may change. *)
LEMMA OthersKeep ==
  ASSUME PubSubInv, NEW c \in Client, NoLonger(c), UNCHANGED <<nodes, messages, calls>>,
         \A e \in Client \ {c} : sub'[e] = sub[e] /\ got'[e] = got[e]
  PROVE  Owed' /\ CallsInRoom' /\ AllNodes' = AllNodes /\ AnyName' = AnyName
         /\ owed' \in [Message -> SUBSET Client]
<1>1. MessagesTyped /\ Owed /\ PubSubTyped
  BY DEF PubSubInv, PubSubTyped
<1>2. CallsInRoom' /\ AllNodes' = AllNodes /\ AnyName' = AnyName
  BY <1>1, CallsStay
<1>3. owed' \in [Message -> SUBSET Client] /\ \A l \in Message : owed'[l] = owed[l] \ {c}
  BY <1>1 DEF NoLonger, Message, MessagesTyped
<1>4. \A l \in 1 .. Len(messages) : l \in Message
  BY <1>1, PubSubAssumption DEF MessagesTyped, Message
<1>5. ASSUME NEW l \in 1 .. Len(messages), NEW e \in owed'[l]
      PROVE  e \in owed[l] /\ e \in Client \ {c}
  BY <1>1, <1>3, <1>4, <1>5 DEF MessagesTyped
<1>6. Owed'
  BY <1>1, <1>5 DEF Owed
<1>7. QED BY <1>2, <1>3, <1>6

LEMMA SetTopicsKeeps ==
  ASSUME PubSubInv, NEW c \in Client, NEW topics \in Topics, SetTopics(c, topics)
  PROVE  PubSubInv'
<1>1. /\ SubTyped /\ AtTheirNodes /\ MessagesTyped
      /\ sub[c] /= None /\ sub' = [sub EXCEPT ![c].topics = topics] /\ NoLonger(c)
      /\ UNCHANGED <<nodes, messages, calls, got>>
  BY DEF PubSubInv, PubSubTyped, SetTopics
<1>2. sub[c] \in [room : Room, name : AnyName, topics : Topics]
  BY <1>1 DEF SubTyped
<1> DEFINE new == [sub[c] EXCEPT !.topics = topics]
<1>3. /\ new \in [room : Room, name : AnyName, topics : Topics]
      /\ new.name = sub[c].name /\ new.room = sub[c].room
  BY <1>2
<1>4. sub' = [sub EXCEPT ![c] = new]
  BY <1>1
<1> HIDE DEF new
<1>5. /\ sub' \in [Client -> [room : Room, name : AnyName, topics : Topics] \cup {None}]
      /\ sub'[c] = new /\ \A e \in Client \ {c} : sub'[e] = sub[e]
  BY <1>1, <1>3, <1>4 DEF SubTyped
<1>6. /\ Owed' /\ CallsInRoom' /\ AllNodes' = AllNodes /\ AnyName' = AnyName
      /\ owed' \in [Message -> SUBSET Client]
  BY <1>1, <1>5, OthersKeep
<1>7. SubTyped'
  BY <1>5, <1>6 DEF SubTyped
<1>8. AtTheirNodes'
  <2>1. ASSUME NEW e \in Client, sub'[e] /= None PROVE sub'[e].name \in Names(sub'[e].room)
    <3>1. CASE e = c
      <4>1. sub[c].name \in Names(sub[c].room)
        BY <1>1 DEF AtTheirNodes
      <4>2. QED BY <1>3, <1>5, <3>1, <4>1
    <3>2. CASE e /= c
      BY <1>1, <1>5, <2>1, <3>2 DEF AtTheirNodes
    <3>3. QED BY <3>1, <3>2
  <2>2. AllNodes' = AllNodes
    BY <1>6
  <2>3. QED BY <2>1, <2>2 DEF AtTheirNodes, Names
<1>9. MessagesTyped'
  BY <1>1, <1>6 DEF MessagesTyped
<1>10. QED BY <1>6, <1>7, <1>8, <1>9 DEF PubSubInv, PubSubTyped

LEMMA DisconnectKeeps ==
  ASSUME PubSubInv, NEW c \in Client, Disconnect(c)
  PROVE  PubSubInv'
<1>1. /\ SubTyped /\ AtTheirNodes /\ MessagesTyped
      /\ sub' = [sub EXCEPT ![c] = None] /\ NoLonger(c)
      /\ got' = [got EXCEPT ![c] = [m \in 1 .. MaxMessages |-> 0]]
      /\ UNCHANGED <<nodes, messages, calls>>
  BY DEF PubSubInv, PubSubTyped, Disconnect
<1>2. /\ sub' \in [Client -> [room : Room, name : AnyName, topics : Topics] \cup {None}]
      /\ sub'[c] = None /\ \A e \in Client \ {c} : sub'[e] = sub[e]
  BY <1>1 DEF SubTyped
<1>3. [m \in 1 .. MaxMessages |-> 0] \in [Message -> Nat]
  BY DEF Message
<1>4. got' \in [Client -> [Message -> Nat]] /\ \A e \in Client \ {c} : got'[e] = got[e]
  BY <1>1, <1>3 DEF MessagesTyped
<1>5. /\ Owed' /\ CallsInRoom' /\ AllNodes' = AllNodes /\ AnyName' = AnyName
      /\ owed' \in [Message -> SUBSET Client]
  BY <1>1, <1>2, <1>4, OthersKeep
<1>6. SubTyped'
  BY <1>2, <1>5 DEF SubTyped
<1>7. AtTheirNodes'
  <2>1. ASSUME NEW e \in Client, sub'[e] /= None PROVE sub'[e].name \in Names(sub'[e].room)
    BY <1>1, <1>2, <2>1 DEF AtTheirNodes
  <2>2. AllNodes' = AllNodes
    BY <1>5
  <2>3. QED BY <2>1, <2>2 DEF AtTheirNodes, Names
<1>8. MessagesTyped'
  BY <1>1, <1>4, <1>5 DEF MessagesTyped
<1>9. QED BY <1>5, <1>6, <1>7, <1>8 DEF PubSubInv, PubSubTyped

LEMMA MessagesReachRooms ==
  ASSUME PubSubInv
  PROVE  /\ \A c \in Client, topic \in Topic : OnMessage(c, topic) =>
              \E room \in Room : \E name \in Names(room) : BroadcastPubSubMessage(room, name, topic)
         /\ \A room \in Room, topic \in Topic : OnRequest(room, topic) =>
              \E name \in Names(room) : BroadcastPubSubMessage(room, name, topic)
<1>1. ASSUME NEW c \in Client, NEW topic \in Topic, OnMessage(c, topic)
      PROVE  \E room \in Room : \E name \in Names(room) : BroadcastPubSubMessage(room, name, topic)
  BY <1>1 DEF OnMessage, PubSubInv, PubSubTyped, SubTyped, AtTheirNodes
<1>2. ASSUME NEW room \in Room, NEW topic \in Topic, OnRequest(room, topic)
      PROVE  \E name \in Names(room) : BroadcastPubSubMessage(room, name, topic)
  BY <1>2, RoutesToNodes DEF OnRequest
<1>3. QED BY <1>1, <1>2

LEMMA PubSubStep == PubSubInv /\ [Next]_vars => PubSubInv'
<1> SUFFICES ASSUME PubSubInv, [Next]_vars PROVE PubSubInv'
  OBVIOUS
<1>1. ASSUME NEW c \in Client, NEW room \in Room, NEW topics \in Topics, OnConnect(c, room, topics)
      PROVE  PubSubInv'
  BY <1>1, ConnectKeeps
<1>2. ASSUME NEW c \in Client, NEW topics \in Topics, SetTopics(c, topics) PROVE PubSubInv'
  BY <1>2, SetTopicsKeeps
<1>3. ASSUME NEW c \in Client, Disconnect(c) PROVE PubSubInv'
  BY <1>3, DisconnectKeeps
<1>4. ASSUME NEW c \in Client, NEW topic \in Topic, OnMessage(c, topic) PROVE PubSubInv'
  BY <1>4, MessagesReachRooms, BroadcastKeeps
<1>5. ASSUME NEW room \in Room, NEW topic \in Topic, OnRequest(room, topic) PROVE PubSubInv'
  BY <1>5, MessagesReachRooms, BroadcastKeeps
<1>6. ASSUME NEW call \in calls, PublishArrives(call) \/ PublishFails(call) PROVE PubSubInv'
  BY <1>6, ArrivalKeeps, FailureKeeps
<1>7. ASSUME UNCHANGED vars PROVE PubSubInv'
  <2>1. /\ SubTyped /\ AtTheirNodes /\ MessagesTyped /\ Owed /\ PubSubTyped
        /\ UNCHANGED <<nodes, sub, messages, calls, got, owed>>
    BY <1>7 DEF PubSubInv, PubSubTyped, vars
  <2>2. CallsInRoom' /\ AllNodes' = AllNodes /\ AnyName' = AnyName
    BY <2>1, CallsStay
  <2>3. SubTyped' /\ AtTheirNodes'
    BY <2>1, <2>2 DEF SubTyped, AtTheirNodes, Names
  <2>4. MessagesTyped' /\ Owed'
    BY <2>1 DEF MessagesTyped, Owed
  <2>5. QED BY <2>2, <2>3, <2>4 DEF PubSubInv, PubSubTyped
<1>8. QED BY <1>1, <1>2, <1>3, <1>4, <1>5, <1>6, <1>7 DEF Next

LEMMA PubSubInvariance == Spec => []PubSubInv
<1>1. Init => PubSubInv
  BY TypedInit DEF PubSubInv
<1>2. QED BY <1>1, PubSubStep, PTL DEF Spec

(***************************************************************************)
(* No message twice.                                                       *)
(***************************************************************************)
NodesTyped ==
  asked \in 1 .. MaxNodes /\ nodes \in [Place -> 1 .. MaxNodes + Len(Location)]

LEMMA NodesInvariance == Spec => []NodesTyped
<1>1. Init => NodesTyped
  BY AllocationIs DEF Init, NodesTyped
<1>2. NodesTyped /\ [Next]_vars => NodesTyped'
  <2> SUFFICES ASSUME NodesTyped, [Next]_vars PROVE NodesTyped'
    OBVIOUS
  <2>1. UNCHANGED <<asked, nodes>>
    BY DEF Next, vars, OnConnect, SetTopics, Disconnect, OnMessage, OnRequest, PublishArrives,
       PublishFails, BroadcastPubSubMessage
  <2>2. QED BY <2>1 DEF NodesTyped
<1>3. QED BY <1>1, <1>2, PTL DEF Spec

LEMMA NodesAre ==
  ASSUME NodesTyped, NEW node \in AllNodes
  PROVE  node \in NodeIDs /\ \E l \in Part, k \in Nat : node = <<l, k>>
<1>1. PICK i \in Place : node \in NodesOf(i)
  BY DEF AllNodes
<1>2. nodes[i] \in Nat /\ nodes[i] <= MaxNodes + Len(Location)
  BY PubSubAssumption DEF NodesTyped
<1>3. PICK k \in 0 .. nodes[i] - 1 : node = <<Location[i], k>>
  BY <1>1 DEF NodesOf
<1>4. k \in Nat /\ k \in 0 .. MaxNodes + Len(Location)
  BY <1>2, PubSubAssumption
<1>5. Location[i] \in Part
  BY PubSubAssumption DEF Place
<1>6. QED BY <1>3, <1>4, <1>5 DEF NodeIDs

LEMMA NoneIsNoSubscription ==
  ASSUME NodesTyped
  PROVE  None \notin [room : Room, name : AnyName, topics : Topics]
<1>1. ASSUME NEW room \in Room, NEW name \in Names(room) PROVE name \in Seq(Part \cup Nat)
  <2>1. PICK node \in AllNodes : name = room \o node
    BY DEF Names
  <2>2. PICK l \in Part, k \in Nat : node = <<l, k>>
    BY NodesAre
  <2>3. room \in Seq(Part \cup Nat)
    BY PubSubAssumption, LargerSeq
  <2>4. QED BY <2>1, <2>2, <2>3
<1>2. AnyName \subseteq Seq(Part \cup Nat)
  BY <1>1 DEF AnyName
<1>3. QED BY <1>2, PubSubAssumption

LEMMA BroadcastOnce ==
  ASSUME PubSubInv, Once,
         NEW room \in Room, NEW name \in Names(room), NEW topic \in Topic,
         BroadcastPubSubMessage(room, name, topic)
  PROVE  Once'
<1> DEFINE k == Len(messages)
           m == Len(messages) + 1
<1>1. PubSubTyped /\ MessagesTyped /\ CallsInRoom /\ SubTyped
  BY DEF PubSubInv, PubSubTyped
<1>2. k \in Nat /\ m <= MaxMessages /\ MaxMessages \in Nat
  BY <1>1, PubSubAssumption DEF MessagesTyped, BroadcastPubSubMessage
<1>3. m \in Message /\ m = k + 1 /\ m \notin 1 .. k
  BY <1>2 DEF Message
<1>4. /\ messages' = Append(messages, [room |-> room, topic |-> topic]) /\ Publish(name, m, topic)
      /\ calls' = calls \cup {[to |-> other, message |-> m] : other \in OtherNodes(name)}
      /\ UNCHANGED <<sub>>
  BY DEF BroadcastPubSubMessage
<1>5. Len(messages') = m
  BY <1>1, <1>4 DEF MessagesTyped
<1>6. name \notin OtherNodes(name)
  BY DEF OtherNodes
<1>7. /\ got' \in [Client -> [Message -> Nat]]
      /\ \A c \in Client, l \in Message : l /= m \/ c \notin At(name) => got'[c][l] = got[c][l]
      /\ \A c \in At(name) : /\ sub[c].topics \in Topics
                             /\ got'[c][m] = got[c][m] + Cardinality(MatchingIn(sub[c].topics, topic))
  BY <1>1, <1>3, <1>4, PublishAdds
<1>8. \A call \in calls : call.message \in 1 .. k
  BY <1>1 DEF CallsInRoom
<1> HIDE DEF k, m
<1>9. ASSUME NEW c \in Client, NEW l \in Message
      PROVE  /\ sub[c] = None \/ l \notin 1 .. m => got'[c][l] = 0
             /\ sub[c] /= None /\ got'[c][l] > 0 => [to |-> sub[c].name, message |-> l] \notin calls'
  <2>1. /\ sub[c] = None \/ l \notin 1 .. k => got[c][l] = 0
        /\ sub[c] /= None /\ got[c][l] > 0 => [to |-> sub[c].name, message |-> l] \notin calls
    BY DEF Once, k
  <2>2. CASE l /= m
    <3>1. got'[c][l] = got[c][l] /\ (l \notin 1 .. m => l \notin 1 .. k)
      <4>1. \A j \in 1 .. k : j \in 1 .. m
        BY <1>2, <1>3
      <4>2. QED BY <1>7, <2>2, <4>1
    <3>2. [to |-> sub[c].name, message |-> l] \in calls' => [to |-> sub[c].name, message |-> l] \in calls
      BY <1>4, <2>2
    <3>3. QED BY <2>1, <3>1, <3>2
  <2>3. CASE l = m
    <3>1. got[c][l] = 0 /\ l \in 1 .. m
      BY <1>2, <1>3, <2>1, <2>3
    <3>2. CASE c \notin At(name)
      <4>1. got'[c][l] = 0
        BY <1>7, <3>1, <3>2
      <4>2. QED BY <4>1
    <3>3. CASE c \in At(name)
      <4>1. sub[c] /= None /\ sub[c].name = name
        BY <3>3 DEF At
      <4>4. [to |-> name, message |-> m] \notin calls
        <5>1. [to |-> name, message |-> m].message = m
          OBVIOUS
        <5>2. QED BY <1>3, <1>8, <5>1
      <4>5. [to |-> name, message |-> m] \notin {[to |-> other, message |-> m] : other \in OtherNodes(name)}
        BY <1>6
      <4>6. [to |-> sub[c].name, message |-> l] \notin calls'
        BY <1>4, <2>3, <4>1, <4>4, <4>5
      <4>7. QED BY <3>1, <4>1, <4>6
    <3>4. QED BY <3>2, <3>3
  <2>4. QED BY <2>2, <2>3
<1>10. QED BY <1>4, <1>5, <1>9 DEF Once

LEMMA ElementOf ==
  ASSUME NEW S, NEW q \in Seq(S), NEW i \in 1 .. Len(q)
  PROVE  q[i] \in S
OBVIOUS

LEMMA ArrivalOnce ==
  ASSUME PubSubInv, Once, NEW call \in calls, PublishArrives(call)
  PROVE  Once'
<1> DEFINE m == call.message
           topic == messages[m].topic
           name == call.to
<1>1. /\ PubSubTyped /\ MessagesTyped /\ CallsInRoom /\ SubTyped
      /\ Publish(name, m, topic) /\ calls' = calls \ {call}
      /\ UNCHANGED <<sub, messages>>
  BY DEF PubSubInv, PubSubTyped, PublishArrives
<1>2. /\ m \in Message /\ m \in 1 .. Len(messages) /\ call = [to |-> name, message |-> m]
      /\ topic \in Topic
  <2>1. call \in [to : AnyName, message : Message] /\ m \in 1 .. Len(messages)
    BY <1>1 DEF CallsInRoom
  <2>2. messages \in Seq([room : Room, topic : Topic])
    BY <1>1 DEF MessagesTyped
  <2> HIDE DEF m
  <2>3. m \in 1 .. Len(messages)
    BY <2>1 DEF m
  <2>4. messages[m] \in [room : Room, topic : Topic]
    BY <2>2, <2>3, ElementOf
  <2>5. topic \in Topic
    BY <2>4
  <2>6. QED BY <2>1, <2>5 DEF m
<1> HIDE DEF m, topic, name
<1>3. /\ got' \in [Client -> [Message -> Nat]]
      /\ \A c \in Client, l \in Message : l /= m \/ c \notin At(name) => got'[c][l] = got[c][l]
      /\ \A c \in At(name) : /\ sub[c].topics \in Topics
                             /\ got'[c][m] = got[c][m] + Cardinality(MatchingIn(sub[c].topics, topic))
  BY <1>1, <1>2, PublishAdds
<1>4. ASSUME NEW c \in Client, NEW l \in Message
      PROVE  /\ sub[c] = None \/ l \notin 1 .. Len(messages) => got'[c][l] = 0
             /\ sub[c] /= None /\ got'[c][l] > 0 => [to |-> sub[c].name, message |-> l] \notin calls'
  <2>1. /\ sub[c] = None \/ l \notin 1 .. Len(messages) => got[c][l] = 0
        /\ sub[c] /= None /\ got[c][l] > 0 => [to |-> sub[c].name, message |-> l] \notin calls
    BY DEF Once
  <2>2. CASE l /= m \/ c \notin At(name)
    BY <1>1, <1>3, <2>1, <2>2
  <2>3. CASE l = m /\ c \in At(name)
    <3>1. sub[c] /= None /\ sub[c].name = name
      BY <2>3 DEF At
    <3>2. got[c][l] \in Nat
      BY <1>1 DEF MessagesTyped
    <3>3. got[c][l] = 0
      BY <1>2, <2>1, <2>3, <3>1, <3>2
    <3>6. [to |-> sub[c].name, message |-> l] \notin calls' /\ l \in 1 .. Len(messages)
      BY <1>1, <1>2, <2>3, <3>1
    <3>7. QED BY <3>1, <3>6
  <2>4. QED BY <2>2, <2>3
<1>5. QED BY <1>1, <1>4 DEF Once

LEMMA OnceStep == NodesTyped /\ PubSubInv /\ Once /\ [Next]_vars => Once'
<1> SUFFICES ASSUME NodesTyped, PubSubInv, Once, [Next]_vars PROVE Once'
  OBVIOUS
<1> DEFINE Sent(c, l) ==
             /\ sub'[c] = None \/ l \notin 1 .. Len(messages) => got'[c][l] = 0
             /\ sub'[c] /= None /\ got'[c][l] > 0 => [to |-> sub'[c].name, message |-> l] \notin calls'
<1>1. ASSUME messages' = messages, calls' \subseteq calls, NEW c,
             \A e \in Client, l \in Message : e /= c => sub'[e] = sub[e] /\ got'[e] = got[e],
             \A l \in Message : c \in Client => Sent(c, l)
      PROVE  Once'
  <2>1. ASSUME NEW e \in Client, NEW l \in Message PROVE Sent(e, l)
    <3>1. CASE e = c
      BY <1>1, <3>1
    <3>2. CASE e /= c
      BY <1>1, <3>2 DEF Once
    <3>3. QED BY <3>1, <3>2
  <2>2. QED BY <1>1, <2>1 DEF Once
<1>2. /\ SubTyped /\ MessagesTyped
      /\ \A c \in Client, l \in Message :
           /\ sub[c] = None \/ l \notin 1 .. Len(messages) => got[c][l] = 0
           /\ sub[c] /= None /\ got[c][l] > 0 => [to |-> sub[c].name, message |-> l] \notin calls
  BY DEF PubSubInv, PubSubTyped, Once
<1>3. ASSUME NEW c \in Client, NEW room \in Room, NEW topics \in Topics, OnConnect(c, room, topics)
      PROVE  Once'
  <2>1. UNCHANGED <<messages, calls, got>> /\ sub[c] = None
    BY <1>3 DEF OnConnect
  <2>2. \A e \in Client : e /= c => sub'[e] = sub[e]
    BY <1>2, <1>3 DEF OnConnect, SubTyped
  <2>3. \A l \in Message : Sent(c, l)
    <3>1. \A l \in Message : got'[c][l] = 0
      BY <1>2, <2>1
    <3>2. QED BY <3>1
  <2>4. QED BY <1>1, <2>1, <2>2, <2>3
<1>4. ASSUME NEW c \in Client, NEW topics \in Topics, SetTopics(c, topics) PROVE Once'
  <2>1. /\ UNCHANGED <<messages, calls, got>> /\ sub[c] /= None
        /\ sub' = [sub EXCEPT ![c].topics = topics]
    BY <1>4 DEF SetTopics
  <2>2. sub[c] \in [room : Room, name : AnyName, topics : Topics]
    BY <1>2, <2>1 DEF SubTyped
  <2>3. \A e \in Client : e /= c => sub'[e] = sub[e]
    BY <1>2, <2>1 DEF SubTyped
  <2>4. sub'[c].name = sub[c].name
    BY <1>2, <2>1, <2>2 DEF SubTyped
  <2>5. sub'[c] /= None
    <3>1. sub'[c] \in [room : Room, name : AnyName, topics : Topics]
      BY <1>2, <2>1, <2>2 DEF SubTyped
    <3>2. QED BY <3>1, NoneIsNoSubscription
  <2>6. ASSUME NEW l \in Message PROVE Sent(c, l)
    BY <1>2, <2>1, <2>4, <2>5
  <2>7. QED BY <1>1, <2>1, <2>3, <2>6
<1>5. ASSUME NEW c \in Client, Disconnect(c) PROVE Once'
  <2>1. /\ UNCHANGED <<messages, calls>> /\ sub' = [sub EXCEPT ![c] = None]
        /\ got' = [got EXCEPT ![c] = [m \in 1 .. MaxMessages |-> 0]]
    BY <1>5 DEF Disconnect
  <2>2. /\ \A e \in Client : e /= c => sub'[e] = sub[e] /\ got'[e] = got[e]
        /\ \A l \in Message : got'[c][l] = 0
    BY <1>2, <2>1 DEF SubTyped, MessagesTyped, Message
  <2>3. \A l \in Message : Sent(c, l)
    BY <2>2
  <2>4. QED BY <1>1, <2>1, <2>2, <2>3
<1>6. ASSUME NEW c \in Client, NEW topic \in Topic, OnMessage(c, topic) PROVE Once'
  BY <1>6, MessagesReachRooms, BroadcastOnce
<1>7. ASSUME NEW room \in Room, NEW topic \in Topic, OnRequest(room, topic) PROVE Once'
  BY <1>7, MessagesReachRooms, BroadcastOnce
<1>8. ASSUME NEW call \in calls, PublishArrives(call) PROVE Once'
  BY <1>8, ArrivalOnce
<1>9. ASSUME NEW call \in calls, PublishFails(call) PROVE Once'
  <2>1. UNCHANGED <<messages, sub, got>> /\ calls' \subseteq calls
    BY <1>9 DEF PublishFails
  <2>2. QED BY <2>1 DEF Once
<1>10. ASSUME UNCHANGED vars PROVE Once'
  BY <1>10 DEF vars, Once
<1>11. QED BY <1>3, <1>4, <1>5, <1>6, <1>7, <1>8, <1>9, <1>10 DEF Next

LEMMA OnceInit == Init => Once
BY DEF Init, Once, Message

(***************************************************************************)
(* The nodes of a room implement a room that is in one place.              *)
(***************************************************************************)

(* Nothing is known yet of a message that is not published. *)
Unpublished ==
  \A m \in Message : m \notin 1 .. Len(messages) =>
    owed[m] = {} /\ \A c \in Client : got[c][m] = 0

FeedInv == NodesTyped /\ PubSubInv /\ Unpublished

LEMMA BroadcastUnpublished ==
  ASSUME PubSubInv, Unpublished, NEW room, NEW name, NEW topic,
         BroadcastPubSubMessage(room, name, topic)
  PROVE  Unpublished'
<1> DEFINE m == Len(messages) + 1
<1>1. PubSubTyped /\ MessagesTyped
  BY DEF PubSubInv, PubSubTyped
<1>2. Len(messages) \in Nat /\ m <= MaxMessages /\ MaxMessages \in Nat
  BY <1>1, PubSubAssumption DEF MessagesTyped, BroadcastPubSubMessage
<1>3. m \in Message
  BY <1>2 DEF Message
<1>4. /\ messages' = Append(messages, [room |-> room, topic |-> topic]) /\ Publish(name, m, topic)
      /\ owed' = [owed EXCEPT ![m] = Subscribed(room, topic)]
  BY DEF BroadcastPubSubMessage
<1>5. Len(messages') = m
  BY <1>1, <1>4 DEF MessagesTyped
<1> HIDE DEF m
<1>6. \A c \in Client, l \in Message : l /= m => got'[c][l] = got[c][l]
  BY <1>1, <1>3, <1>4, PublishAdds
<1>7. ASSUME NEW l \in Message, l \notin 1 .. Len(messages')
      PROVE  owed'[l] = {} /\ \A c \in Client : got'[c][l] = 0
  <2>1. l /= m /\ l \notin 1 .. Len(messages)
    BY <1>2, <1>5, <1>7 DEF Message, m
  <2>2. owed'[l] = owed[l]
    BY <1>1, <1>4, <2>1 DEF MessagesTyped
  <2>3. QED BY <1>6, <2>1, <2>2 DEF Unpublished
<1>8. QED BY <1>7 DEF Unpublished

LEMMA UnpublishedStep == PubSubInv /\ Unpublished /\ [Next]_vars => Unpublished'
<1> SUFFICES ASSUME PubSubInv, Unpublished, [Next]_vars PROVE Unpublished'
  OBVIOUS
<1>1. PubSubTyped /\ MessagesTyped /\ CallsInRoom
  BY DEF PubSubInv, PubSubTyped
<1>2. ASSUME UNCHANGED messages,
             \A m \in Message : m \notin 1 .. Len(messages) =>
               owed'[m] \subseteq owed[m] /\ \A c \in Client : got'[c][m] \in {0, got[c][m]}
      PROVE  Unpublished'
  BY <1>2 DEF Unpublished
<1>3. ASSUME NEW c \in Client, NEW room, NEW topics, OnConnect(c, room, topics) PROVE Unpublished'
  BY <1>2, <1>3 DEF OnConnect
<1>4. ASSUME NEW c, NEW topics, SetTopics(c, topics) PROVE Unpublished'
  BY <1>2, <1>4 DEF SetTopics, NoLonger, Message
<1>5. ASSUME NEW c, Disconnect(c) PROVE Unpublished'
  <2>1. \A m \in Message : owed'[m] \subseteq owed[m]
    BY <1>5 DEF Disconnect, NoLonger, Message
  <2>2. ASSUME NEW m \in Message, NEW e \in Client PROVE got'[e][m] \in {0, got[e][m]}
    <3>1. got' = [got EXCEPT ![c] = [l \in 1 .. MaxMessages |-> 0]]
      BY <1>5 DEF Disconnect
    <3>2. CASE e = c
      BY <1>1, <3>1, <3>2 DEF MessagesTyped, Message
    <3>3. CASE e /= c
      BY <1>1, <3>1, <3>3 DEF MessagesTyped
    <3>4. QED BY <3>2, <3>3
  <2>3. UNCHANGED messages
    BY <1>5 DEF Disconnect
  <2>4. QED BY <1>2, <2>1, <2>2, <2>3
<1>6. ASSUME NEW c, NEW topic, OnMessage(c, topic) PROVE Unpublished'
  BY <1>6, BroadcastUnpublished DEF OnMessage
<1>7. ASSUME NEW room, NEW topic, OnRequest(room, topic) PROVE Unpublished'
  BY <1>7, BroadcastUnpublished DEF OnRequest
<1>8. ASSUME NEW call \in calls, PublishArrives(call) PROVE Unpublished'
  <2> DEFINE m == call.message
             name == call.to
             topic == messages[m].topic
  <2>1. UNCHANGED <<messages, owed>> /\ Publish(name, m, topic)
    BY <1>8 DEF PublishArrives
  <2>2. m \in 1 .. Len(messages) /\ m \in Message
    BY <1>1 DEF CallsInRoom
  <2> HIDE DEF m, name, topic
  <2>3. \A c \in Client, l \in Message : l /= m => got'[c][l] = got[c][l]
    BY <1>1, <2>1, <2>2, PublishAdds
  <2>4. QED BY <1>2, <2>1, <2>2, <2>3
<1>9. ASSUME NEW call \in calls, PublishFails(call) PROVE Unpublished'
  <2>1. UNCHANGED <<messages, got>> /\ owed' = [owed EXCEPT ![call.message] = @ \ At(call.to)]
    BY <1>9 DEF PublishFails
  <2>2. \A m \in Message : owed'[m] \subseteq owed[m]
    BY <1>1, <2>1 DEF MessagesTyped
  <2>3. QED BY <1>2, <2>1, <2>2
<1>10. ASSUME UNCHANGED vars PROVE Unpublished'
  BY <1>10 DEF vars, Unpublished
<1>11. QED BY <1>3, <1>4, <1>5, <1>6, <1>7, <1>8, <1>9, <1>10 DEF Next

LEMMA FeedInvariance == Spec => []FeedInv
<1>1. Init => Unpublished
  BY DEF Init, Unpublished, Message
<1>2. QED BY <1>1, UnpublishedStep, NodesInvariance, PubSubInvariance, PTL DEF Spec, FeedInv

(* The audience of a message is who is subscribed to it. *)
LEMMA AudienceIs ==
  ASSUME NEW room \in Room, NEW topic \in Topic
  PROVE  Feed!Audience([room |-> room, topic |-> topic]) = Subscribed(room, topic)
<1> DEFINE message == [room |-> room, topic |-> topic]
<1>1. ASSUME NEW c \in Client
      PROVE  message \in Wanted(sub[c]) <=> c \in Subscribed(room, topic)
  <2>1. CASE sub[c] = None
    BY <2>1 DEF Wanted, Subscribed
  <2>2. CASE sub[c] /= None
    <3> DEFINE T == {t \in Topic :
                       \E i \in DOMAIN sub[c].topics : Matches(sub[c].topics[i], t)}
    <3>1. Wanted(sub[c]) = [room : {sub[c].room}, topic : T]
      BY <2>2 DEF Wanted
    <3>2. message \in Wanted(sub[c]) <=> sub[c].room = room /\ topic \in T
      <4> HIDE DEF T
      <4>1. QED BY <3>1
    <3>3. QED BY <2>2, <3>2 DEF Subscribed
  <2>3. QED BY <2>1, <2>2
<1>2. Subscribed(room, topic) \subseteq Client
  BY DEF Subscribed
<1> HIDE DEF message
<1>3. Feed!Audience(message) = {c \in Client : message \in Wanted(sub[c])}
  BY DEF Feed!Audience, Wants
<1>4. Feed!Audience(message) = Subscribed(room, topic)
  BY <1>1, <1>2, <1>3
<1>5. QED BY <1>4 DEF message

(* Those whom one call of publish() sends a message. *)
SentTo(name, topic) ==
  {c \in At(name) : \E i \in DOMAIN sub[c].topics : Matches(sub[c].topics[i], topic)}

LEMMA SentToSubscribed ==
  ASSUME PubSubTyped, NEW room \in Room, NEW name \in Names(room), NEW topic
  PROVE  SentTo(name, topic) \subseteq Subscribed(room, topic)
<1>1. ASSUME NEW c \in SentTo(name, topic) PROVE c \in Subscribed(room, topic)
  <2>1. /\ c \in Client /\ sub[c] /= None /\ sub[c].name = name
        /\ \E i \in DOMAIN sub[c].topics : Matches(sub[c].topics[i], topic)
    BY DEF SentTo, At
  <2>2. sub[c].room \in Room /\ sub[c].name \in Names(sub[c].room)
    BY <2>1 DEF PubSubTyped, SubTyped, AtTheirNodes
  <2>3. sub[c].room = room
    BY <2>1, <2>2, BaseNames
  <2>4. QED BY <2>1, <2>3 DEF Subscribed
<1>2. QED BY <1>1

LEMMA PublishGives ==
  ASSUME PubSubTyped, NEW name, NEW m \in Message, NEW topic, Publish(name, m, topic)
  PROVE  /\ Feed!Give(m, SentTo(name, topic))
         /\ \A c \in Client, l \in Message :
              got'[c][l] = 0 <=> got[c][l] = 0 /\ ~ (l = m /\ c \in SentTo(name, topic))
<1> DEFINE D == SentTo(name, topic)
<1>0. got \in [Client -> [Message -> Nat]]
  BY DEF PubSubTyped, MessagesTyped
<1>1. /\ got' \in [Client -> [Message -> Nat]]
      /\ \A c \in Client, l \in Message : l /= m \/ c \notin At(name) => got'[c][l] = got[c][l]
      /\ \A c \in At(name) : /\ sub[c].topics \in Topics
                             /\ got'[c][m] = got[c][m] + Cardinality(MatchingIn(sub[c].topics, topic))
      /\ \A c \in Client, l \in Message : got[c][l] > 0 => got'[c][l] > 0
  BY PublishAdds
<1>2. ASSUME NEW c \in Client, NEW l \in Message
      PROVE  got'[c][l] = 0 <=> got[c][l] = 0 /\ ~ (l = m /\ c \in D)
  <2>1. CASE l /= m \/ c \notin At(name)
    BY <1>1, <2>1 DEF SentTo
  <2>2. CASE l = m /\ c \in At(name)
    <3> DEFINE more == Cardinality(MatchingIn(sub[c].topics, topic))
    <3>1. more \in Nat /\ (c \in D => more > 0)
      BY <1>1, <2>2, CountOfMatching DEF SentTo
    <3>2. c \notin D => more = 0
      <4>1. c \notin D => MatchingIn(sub[c].topics, topic) = {}
        BY <2>2 DEF SentTo, MatchingIn
      <4>2. QED BY <4>1, FS_EmptySet
    <3>3. got'[c][l] = got[c][l] + more
      BY <1>1, <2>2
    <3> HIDE DEF more, D
    <3>4. got[c][l] \in Nat
      BY <1>0
    <3>5. QED BY <2>2, <3>1, <3>2, <3>3, <3>4
  <2>3. QED BY <2>1, <2>2
<1> HIDE DEF D
<1>3. ASSUME NEW c \in Client
      PROVE  {l \in Message : got'[c][l] > 0} =
               IF c \in D THEN {l \in Message : got[c][l] > 0} \cup {m}
                          ELSE {l \in Message : got[c][l] > 0}
  <2>1. \A l \in Message : got'[c][l] \in Nat /\ got[c][l] \in Nat
    BY <1>0, <1>1
  <2>2. \A l \in Message : got'[c][l] > 0 <=> got[c][l] > 0 \/ (l = m /\ c \in D)
    BY <1>2, <2>1
  <2>3. QED BY <2>2
<1>4. Delivered' = [c \in Client |-> IF c \in D THEN Delivered[c] \cup {m} ELSE Delivered[c]]
  BY <1>3 DEF Delivered
<1>5. QED BY <1>2, <1>4 DEF Feed!Give, D

(* When no call is left, nobody misses the message. *)
LEMMA OverWhenNoCalls ==
  ASSUME PubSubInv', NEW m \in 1 .. Len(messages'), m \in Message, Underway' \ {m} = Underway \ {m}
  PROVE  Feed!OverWhenComplete(m)
<1>1. CASE m \in Underway'
  <2>1. Underway' = Underway \cup {m}
    BY <1>1
  <2>2. QED BY <2>1 DEF Feed!OverWhenComplete
<1>2. CASE m \notin Underway'
  <2>1. \A call \in calls' : call.message /= m
    BY <1>2 DEF Underway
  <2>2. \A c \in owed'[m] : got'[c][m] > 0
    <3>1. ASSUME NEW c \in owed'[m] PROVE got'[c][m] > 0
      <4>1. got'[c][m] > 0 \/ [to |-> sub'[c].name, message |-> m] \in calls'
        BY DEF PubSubInv, Owed
      <4>2. [to |-> sub'[c].name, message |-> m].message = m
        OBVIOUS
      <4>3. QED BY <2>1, <4>1, <4>2
    <3>2. QED BY <3>1
  <2>3. Missing'[m] = {}
    BY <2>2 DEF Missing
  <2>4. Underway' = Underway \ {m}
    BY <1>2
  <2>5. QED BY <2>3, <2>4 DEF Feed!OverWhenComplete
<1>3. QED BY <1>1, <1>2

LEMMA BroadcastAnnounces ==
  ASSUME FeedInv, PubSubInv', NEW room \in Room, NEW name \in Names(room), NEW topic \in Topic,
         BroadcastPubSubMessage(room, name, topic)
  PROVE  Feed!FeedNext
<1> DEFINE m == Len(messages) + 1
           message == [room |-> room, topic |-> topic]
           D == SentTo(name, topic)
<1>1. PubSubTyped /\ MessagesTyped /\ CallsInRoom /\ Unpublished
  BY DEF FeedInv, PubSubInv, PubSubTyped
<1>2. Len(messages) \in Nat /\ m <= MaxMessages /\ MaxMessages \in Nat
  BY <1>1, PubSubAssumption DEF MessagesTyped, BroadcastPubSubMessage
<1>3. m \in Message /\ m \notin 1 .. Len(messages)
  BY <1>2 DEF Message
<1>4. /\ messages' = Append(messages, message) /\ Publish(name, m, topic)
      /\ calls' = calls \cup {[to |-> other, message |-> m] : other \in OtherNodes(name)}
      /\ owed' = [owed EXCEPT ![m] = Subscribed(room, topic)]
      /\ UNCHANGED sub
  BY DEF BroadcastPubSubMessage
<1>5. m \in 1 .. Len(messages')
  BY <1>1, <1>2, <1>4 DEF MessagesTyped
<1>6. D \subseteq Feed!Audience(message) /\ Feed!Audience(message) = Subscribed(room, topic)
  BY <1>1, AudienceIs, SentToSubscribed
<1>7. message \in [room : Room, topic : Topic]
  OBVIOUS
<1>8. \A call \in calls' : call.message /= m => call \in calls
  BY <1>4
<1> HIDE DEF m, message
<1>9. /\ Feed!Give(m, D)
      /\ \A c \in Client, l \in Message : got'[c][l] = 0 <=> got[c][l] = 0 /\ ~ (l = m /\ c \in D)
  BY <1>1, <1>3, <1>4, PublishGives
<1> HIDE DEF D
<1>10. Underway' \ {m} = Underway \ {m}
  <2>1. calls \subseteq calls'
    BY <1>4
  <2>2. QED BY <1>8, <2>1 DEF Underway
<1>11. Feed!OverWhenComplete(m)
  BY <1>3, <1>5, <1>10, OverWhenNoCalls
<1>12. Wants' = Wants
  BY <1>4 DEF Wants, Wanted
<1>13. Missing' = [Missing EXCEPT ![m] = Feed!Audience(message) \ D]
  <2>1. /\ owed'[m] = Subscribed(room, topic)
        /\ \A l \in Message \ {m} : owed'[l] = owed[l] /\ owed[l] \subseteq Client
    BY <1>1, <1>3, <1>4 DEF MessagesTyped
  <2>2. {c \in owed'[m] : got'[c][m] = 0} = Subscribed(room, topic) \ D
    <3>1. \A c \in Client : got[c][m] = 0
      BY <1>1, <1>3 DEF Unpublished
    <3>2. Subscribed(room, topic) \subseteq Client
      BY DEF Subscribed
    <3>3. QED BY <1>3, <1>9, <2>1, <3>1, <3>2
  <2>3. \A l \in Message \ {m} : {c \in owed'[l] : got'[c][l] = 0} = {c \in owed[l] : got[c][l] = 0}
    BY <1>9, <2>1
  <2>4. QED BY <1>3, <1>6, <2>2, <2>3 DEF Missing
<1>14. Feed!Announce(message)
  BY <1>2, <1>4, <1>6, <1>9, <1>11, <1>12, <1>13 DEF Feed!Announce, m
<1>15. QED BY <1>7, <1>14 DEF Feed!FeedNext

LEMMA ArrivalDelivers ==
  ASSUME FeedInv, PubSubInv', NEW call \in calls, PublishArrives(call)
  PROVE  Feed!FeedNext
<1> DEFINE m == call.message
           name == call.to
           topic == messages[m].topic
           D == SentTo(name, topic)
<1>1. /\ PubSubTyped /\ MessagesTyped /\ CallsInRoom
      /\ Publish(name, m, topic) /\ calls' = calls \ {call}
      /\ UNCHANGED <<sub, messages, owed>>
  BY DEF FeedInv, PubSubInv, PubSubTyped, PublishArrives
<1>2. m \in Message /\ m \in 1 .. Len(messages) /\ name \in Names(messages[m].room)
  BY <1>1 DEF CallsInRoom
<1>3. m \in Underway /\ \A other \in calls : other.message /= m => other \in calls'
  BY <1>1 DEF Underway
<1> HIDE DEF m, name
<1>4. messages[m] \in [room : Room, topic : Topic]
  BY <1>1, <1>2, ElementOf DEF MessagesTyped
<1>5. /\ messages[m].room \in Room /\ topic \in Topic
      /\ messages[m] = [room |-> messages[m].room, topic |-> topic]
  BY <1>4
<1>6. D \subseteq Feed!Audience(messages[m]) /\ D \subseteq Client
  <2>1. D \subseteq Subscribed(messages[m].room, topic)
    BY <1>1, <1>2, <1>5, SentToSubscribed
  <2>2. Feed!Audience(messages[m]) = Subscribed(messages[m].room, topic)
    BY <1>5, AudienceIs
  <2>3. QED BY <2>1, <2>2 DEF Subscribed
<1> HIDE DEF topic
<1>7. /\ Feed!Give(m, D)
      /\ \A c \in Client, l \in Message : got'[c][l] = 0 <=> got[c][l] = 0 /\ ~ (l = m /\ c \in D)
  BY <1>1, <1>2, PublishGives
<1> HIDE DEF D
<1>8. Underway' \ {m} = Underway \ {m}
  <2>1. calls' \subseteq calls
    BY <1>1
  <2>2. QED BY <1>3, <2>1 DEF Underway
<1>9. Feed!OverWhenComplete(m)
  BY <1>1, <1>2, <1>8, OverWhenNoCalls
<1>10. Wants' = Wants
  BY <1>1 DEF Wants, Wanted
<1>11. Missing' = [Missing EXCEPT ![m] = Missing[m] \ D]
  <2>1. \A l \in Message : owed'[l] = owed[l] /\ owed[l] \subseteq Client
    BY <1>1 DEF MessagesTyped
  <2>2. {c \in owed'[m] : got'[c][m] = 0} = {c \in owed[m] : got[c][m] = 0} \ D
    BY <1>2, <1>7, <2>1
  <2>3. \A l \in Message \ {m} : {c \in owed'[l] : got'[c][l] = 0} = {c \in owed[l] : got[c][l] = 0}
    BY <1>7, <2>1
  <2>4. QED BY <1>2, <2>2, <2>3 DEF Missing
<1>12. Feed!Deliver(m, D)
  BY <1>1, <1>6, <1>7, <1>9, <1>10, <1>11 DEF Feed!Deliver
<1>13. QED BY <1>3, <1>6, <1>12 DEF Feed!FeedNext

LEMMA FailureCutsOff ==
  ASSUME FeedInv, PubSubInv', NEW call \in calls, PublishFails(call)
  PROVE  Feed!FeedNext
<1> DEFINE m == call.message
           D == At(call.to)
<1>1. /\ MessagesTyped /\ CallsInRoom
      /\ owed' = [owed EXCEPT ![m] = @ \ D] /\ calls' = calls \ {call}
      /\ UNCHANGED <<sub, messages, got>>
  BY DEF FeedInv, PubSubInv, PubSubTyped, PublishFails
<1>2. m \in Message /\ m \in 1 .. Len(messages)
  BY <1>1 DEF CallsInRoom
<1>3. m \in Underway /\ \A other \in calls : other.message /= m => other \in calls'
  BY <1>1 DEF Underway
<1>4. D \subseteq Client
  BY DEF At
<1> HIDE DEF m, D
<1>5. Underway' \ {m} = Underway \ {m}
  <2>1. calls' \subseteq calls
    BY <1>1
  <2>2. QED BY <1>3, <2>1 DEF Underway
<1>6. Feed!OverWhenComplete(m)
  BY <1>1, <1>2, <1>5, OverWhenNoCalls
<1>7. Wants' = Wants /\ Delivered' = Delivered
  BY <1>1 DEF Wants, Wanted, Delivered
<1>8. Missing' = [Missing EXCEPT ![m] = Missing[m] \ D]
  <2>1. owed'[m] = owed[m] \ D /\ \A l \in Message \ {m} : owed'[l] = owed[l]
    BY <1>1, <1>2 DEF MessagesTyped
  <2>2. QED BY <1>1, <1>2, <2>1 DEF Missing
<1>9. Feed!CutOff(m, D)
  BY <1>1, <1>6, <1>7, <1>8 DEF Feed!CutOff
<1>10. QED BY <1>3, <1>4, <1>9 DEF Feed!FeedNext

(* One client asks for something else. *)
LEMMA WantsOfOne ==
  ASSUME NEW c \in Client, \A e \in Client \ {c} : sub'[e] = sub[e]
  PROVE  Wants' = [Wants EXCEPT ![c] = Wanted(sub'[c])]
<1>1. Wants' = [e \in Client |-> Wanted(sub'[e])]
  BY DEF Wants, Wanted
<1>2. QED BY <1>1 DEF Wants

LEMMA MissingOfOthers ==
  ASSUME MessagesTyped, NEW c \in Client, \A m \in Message : owed'[m] = owed[m] \ {c},
         \A e \in Client \ {c} : got'[e] = got[e]
  PROVE  Feed!WaitsNoMore(c)
<1>1. ASSUME NEW m \in Message
      PROVE  {e \in owed'[m] : got'[e][m] = 0} = {e \in owed[m] : got[e][m] = 0} \ {c}
  <2>1. owed[m] \subseteq Client /\ owed'[m] = owed[m] \ {c}
    BY DEF MessagesTyped
  <2>2. QED BY <2>1
<1>2. Missing' = [m \in Message |-> Missing[m] \ {c}]
  BY <1>1 DEF Missing
<1>3. QED BY <1>2 DEF Feed!WaitsNoMore, Feed!FeedMessage, Message

LEMMA WantedIs ==
  ASSUME NEW subscription, subscription /= None
  PROVE  \E topics \in SUBSET Topic :
           Wanted(subscription) = [room : {subscription.room}, topic : topics]
BY DEF Wanted

LEMMA ConnectWants ==
  ASSUME FeedInv, NEW c \in Client, NEW room \in Room, NEW topics \in Topics,
         OnConnect(c, room, topics)
  PROVE  Feed!FeedNext
<1>1. /\ PubSubTyped /\ SubTyped /\ MessagesTyped /\ Owed /\ Unpublished /\ NodesTyped
      /\ sub[c] = None /\ UNCHANGED <<messages, calls, got, owed>>
  BY DEF FeedInv, PubSubInv, PubSubTyped, OnConnect
<1>2. PICK name \in Names(room) :
        sub' = [sub EXCEPT ![c] = [room |-> room, name |-> name, topics |-> topics]]
  BY RoutesToNodes DEF OnConnect
<1> DEFINE new == [room |-> room, name |-> name, topics |-> topics]
<1>3. sub'[c] = new /\ \A e \in Client \ {c} : sub'[e] = sub[e]
  BY <1>1, <1>2 DEF SubTyped
<1>4. new /= None /\ new.room = room
  <2>1. new \in [room : Room, name : AnyName, topics : Topics]
    BY DEF AnyName
  <2>2. QED BY <1>1, <2>1, NoneIsNoSubscription
<1> HIDE DEF new
<1>5. PICK wanted \in SUBSET Topic : Wanted(new) = [room : {room}, topic : wanted]
  BY <1>4, WantedIs
<1>6. Wants' = [Wants EXCEPT ![c] = [room : {room}, topic : wanted]]
  BY <1>3, <1>5, WantsOfOne
<1>7. \A m \in Message : owed'[m] = owed[m] \ {c}
  <2>1. ASSUME NEW m \in Message PROVE c \notin owed[m]
    <3>1. CASE m \in 1 .. Len(messages)
      BY <1>1, <3>1 DEF Owed
    <3>2. CASE m \notin 1 .. Len(messages)
      BY <1>1, <3>2 DEF Unpublished
    <3>3. QED BY <3>1, <3>2
  <2>2. QED BY <1>1, <2>1
<1>8. Feed!WaitsNoMore(c)
  BY <1>1, <1>7, MissingOfOthers
<1>9. Delivered' = Delivered /\ Underway' = Underway
  BY <1>1 DEF Delivered, Underway
<1>10. Feed!Want(c, room, wanted)
  BY <1>1, <1>6, <1>8, <1>9 DEF Feed!Want
<1>11. QED BY <1>10 DEF Feed!FeedNext

LEMMA SetTopicsWants ==
  ASSUME FeedInv, NEW c \in Client, NEW topics \in Topics, SetTopics(c, topics)
  PROVE  Feed!FeedNext
<1>1. /\ SubTyped /\ MessagesTyped /\ NodesTyped
      /\ sub[c] /= None /\ sub' = [sub EXCEPT ![c].topics = topics] /\ NoLonger(c)
      /\ UNCHANGED <<messages, calls, got>>
  BY DEF FeedInv, PubSubInv, PubSubTyped, SetTopics
<1>2. sub[c] \in [room : Room, name : AnyName, topics : Topics]
  BY <1>1 DEF SubTyped
<1> DEFINE new == [sub[c] EXCEPT !.topics = topics]
           room == new.room
<1>3. new \in [room : Room, name : AnyName, topics : Topics] /\ room \in Room
  BY <1>2
<1>4. sub' = [sub EXCEPT ![c] = new]
  BY <1>1
<1> HIDE DEF new
<1>5. sub'[c] = new /\ \A e \in Client \ {c} : sub'[e] = sub[e]
  BY <1>1, <1>4 DEF SubTyped
<1>6. new /= None
  BY <1>1, <1>3, NoneIsNoSubscription
<1>7. PICK wanted \in SUBSET Topic : Wanted(new) = [room : {room}, topic : wanted]
  BY <1>6, WantedIs
<1>8. Wants' = [Wants EXCEPT ![c] = [room : {room}, topic : wanted]]
  BY <1>5, <1>7, WantsOfOne
<1>9. \A m \in Message : owed'[m] = owed[m] \ {c}
  BY <1>1 DEF NoLonger, Message
<1>10. Feed!WaitsNoMore(c)
  BY <1>1, <1>9, MissingOfOthers
<1>11. Delivered' = Delivered /\ Underway' = Underway
  BY <1>1 DEF Delivered, Underway
<1>12. Feed!Want(c, room, wanted)
  BY <1>1, <1>8, <1>10, <1>11 DEF Feed!Want
<1>13. QED BY <1>3, <1>12 DEF Feed!FeedNext

LEMMA DisconnectLeaves ==
  ASSUME FeedInv, NEW c \in Client, Disconnect(c)
  PROVE  Feed!FeedNext
<1>1. /\ SubTyped /\ MessagesTyped
      /\ sub' = [sub EXCEPT ![c] = None] /\ NoLonger(c)
      /\ got' = [got EXCEPT ![c] = [m \in 1 .. MaxMessages |-> 0]]
      /\ UNCHANGED <<messages, calls>>
  BY DEF FeedInv, PubSubInv, PubSubTyped, Disconnect
<1>2. sub'[c] = None /\ \A e \in Client \ {c} : sub'[e] = sub[e]
  BY <1>1 DEF SubTyped
<1>3. Wants' = [Wants EXCEPT ![c] = {}]
  <2>1. Wanted(sub'[c]) = {}
    BY <1>2 DEF Wanted
  <2>2. QED BY <1>2, <2>1, WantsOfOne
<1>4. got'[c] = [m \in Message |-> 0] /\ \A e \in Client \ {c} : got'[e] = got[e]
  BY <1>1 DEF MessagesTyped, Message
<1>5. Delivered' = [Delivered EXCEPT ![c] = {}]
  <2>1. {m \in Message : got'[c][m] > 0} = {}
    BY <1>4
  <2>2. QED BY <1>4, <2>1 DEF Delivered
<1>6. \A m \in Message : owed'[m] = owed[m] \ {c}
  BY <1>1 DEF NoLonger, Message
<1>7. Feed!WaitsNoMore(c)
  BY <1>1, <1>4, <1>6, MissingOfOthers
<1>8. Underway' = Underway
  BY <1>1 DEF Underway
<1>9. Feed!Leave(c)
  BY <1>1, <1>3, <1>5, <1>7, <1>8 DEF Feed!Leave
<1>10. QED BY <1>9 DEF Feed!FeedNext

(***************************************************************************)
(* Theorems.                                                               *)
(***************************************************************************)

(* The types, for any weights and numbers of nodes: every location has a   *)
(* node, so that nobody is turned away (generateIdsGroupedByLocation).     *)
THEOREM PubSubTypeCorrect == Spec => []TypeOK
<1>1. ASSUME NodesTyped, PubSubInv PROVE TypeOK
  <2>1. /\ SubTyped /\ AtTheirNodes /\ MessagesTyped /\ CallsInRoom
    BY <1>1 DEF PubSubInv, PubSubTyped
  <2>2. ASSUME NEW room \in Room, NEW name \in Names(room)
        PROVE  name \in {room \o node : node \in NodeIDs}
    BY <1>1, <2>2, NodesAre DEF Names
  <2>3. ASSUME NEW c \in Client, sub[c] /= None
        PROVE  /\ sub[c].room \in Room /\ sub[c].topics \in Topics
               /\ sub[c].name \in {sub[c].room \o node : node \in NodeIDs}
    <3>1. sub[c].room \in Room /\ sub[c].topics \in Topics /\ sub[c].name \in Names(sub[c].room)
      BY <2>1, <2>3 DEF SubTyped, AtTheirNodes
    <3>2. QED BY <2>2, <3>1
  <2>4. ASSUME NEW call \in calls
        PROVE  /\ \E room \in Room, node \in NodeIDs : call.to = room \o node
               /\ call.message \in 1 .. Len(messages)
    <3>1. call.message \in 1 .. Len(messages) /\ call.to \in Names(messages[call.message].room)
      BY <2>1 DEF CallsInRoom
    <3>2. messages \in Seq([room : Room, topic : Topic])
      BY <2>1 DEF MessagesTyped
    <3>3. PICK room \in Room : room = messages[call.message].room
      <4>1. messages[call.message] \in [room : Room, topic : Topic]
        BY <3>1, <3>2, ElementOf
      <4>2. QED BY <4>1
    <3>4. PICK node \in NodeIDs : call.to = room \o node
      BY <2>2, <3>1, <3>3
    <3>5. QED BY <3>1, <3>4
  <2>5. asked \in 1 .. MaxNodes /\ nodes \in [Place -> 1 .. MaxNodes + Len(Location)]
    BY <1>1 DEF NodesTyped
  <2>6. /\ messages \in Seq([room : Room, topic : Topic]) /\ Len(messages) <= MaxMessages
        /\ got \in [Client -> [Message -> Nat]] /\ owed \in [Message -> SUBSET Client]
    BY <2>1 DEF MessagesTyped
  <2>7. QED BY <2>3, <2>4, <2>5, <2>6 DEF TypeOK
<1>2. QED BY <1>1, NodesInvariance, PubSubInvariance, PTL

(* A node is called only for messages of the room that its name begins     *)
(* with, whatever parts the names of rooms have.                           *)
THEOREM RoomsStayApart == Spec => []RoomsApart
<1>1. PubSubInv => RoomsApart
  BY DEF PubSubInv, PubSubTyped, CallsInRoom, Names, RoomsApart
<1>2. QED BY <1>1, PubSubInvariance, PTL

(* Whoever is subscribed when a message is published, at any node of the   *)
(* room, and stays so, has it or is called, unless the call fails.         *)
THEOREM NothingIsLost == Spec => []NothingLost
<1>1. PubSubInv => NothingLost
  BY DEF PubSubInv, Owed, NothingLost
<1>2. QED BY <1>1, PubSubInvariance, PTL

(* What publish() sends to those who had nothing of the message yet.       *)
LEMMA PublishInOneGo ==
  ASSUME PubSubTyped, NEW name, NEW m \in Message, NEW topic, Publish(name, m, topic),
         messages'[m].topic = topic,
         \A c \in At(name) : got[c][m] = 0,
         NEW c \in Client, NEW l \in Message, got'[c][l] > got[c][l]
  PROVE  got[c][l] = 0 /\ got'[c][l] = Matching(c, messages'[l].topic)
<1>1. /\ \A e \in Client, k \in Message : k /= m \/ e \notin At(name) => got'[e][k] = got[e][k]
      /\ \A e \in At(name) : /\ sub[e].topics \in Topics
                             /\ got'[e][m] = got[e][m] + Cardinality(MatchingIn(sub[e].topics, topic))
  BY PublishAdds
<1>2. got[c][l] \in Nat
  BY DEF PubSubTyped, MessagesTyped
<1>3. l = m /\ c \in At(name)
  BY <1>1, <1>2
<1>4. got[c][m] = 0 /\ got'[c][m] = 0 + Cardinality(MatchingIn(sub[c].topics, topic))
  BY <1>1, <1>3
<1>5. Cardinality(MatchingIn(sub[c].topics, topic)) \in Nat
  BY <1>1, <1>3, CountOfMatching
<1>6. Matching(c, topic) = Cardinality(MatchingIn(sub[c].topics, topic))
  BY DEF Matching, MatchingIn
<1> HIDE DEF MatchingIn
<1>7. got'[c][m] = Cardinality(MatchingIn(sub[c].topics, topic))
  BY <1>4, <1>5
<1>8. QED BY <1>3, <1>4, <1>6, <1>7

(* A connection is sent a message by one node and in one go, for any       *)
(* rooms, nodes and lists of patterns: publish() goes to connections that  *)
(* had nothing of the message yet, with a copy for each pattern that       *)
(* matches.                                                                *)
THEOREM OneNodeSends == Spec => SentInOneGo
<1> DEFINE InOneGo ==
             \A c \in Client, m \in Message :
               got'[c][m] > got[c][m] =>
                 got[c][m] = 0 /\ got'[c][m] = Matching(c, messages'[m].topic)
<1>1. NodesTyped /\ PubSubInv /\ Once /\ [Next]_vars => [InOneGo]_vars
  <2> SUFFICES ASSUME NodesTyped, PubSubInv, Once, Next,
                      NEW c \in Client, NEW l \in Message, got'[c][l] > got[c][l]
               PROVE  got[c][l] = 0 /\ got'[c][l] = Matching(c, messages'[l].topic)
    OBVIOUS
  <2> DEFINE Fine == got[c][l] = 0 /\ got'[c][l] = Matching(c, messages'[l].topic)
  <2>1. /\ PubSubTyped /\ SubTyped /\ CallsInRoom
        /\ messages \in Seq([room : Room, topic : Topic])
        /\ got \in [Client -> [Message -> Nat]] /\ got[c][l] \in Nat
    BY DEF PubSubInv, PubSubTyped, MessagesTyped
  <2>2. ASSUME NEW room \in Room, NEW name, NEW topic \in Topic,
               BroadcastPubSubMessage(room, name, topic)
        PROVE  Fine
    <3> DEFINE m == Len(messages) + 1
    <3>1. m <= MaxMessages /\ Publish(name, m, topic)
          /\ messages' = Append(messages, [room |-> room, topic |-> topic])
      BY <2>2 DEF BroadcastPubSubMessage
    <3>2. m \in Message /\ m \notin 1 .. Len(messages)
      BY <2>1, <3>1, PubSubAssumption DEF Message
    <3>3. messages'[m].topic = topic
      BY <2>1, <3>1
    <3>4. \A e \in At(name) : e \in Client
      BY DEF At
    <3> HIDE DEF m
    <3>5. \A e \in At(name) : got[e][m] = 0
      BY <3>2, <3>4 DEF Once
    <3>6. QED BY <2>1, <3>1, <3>2, <3>3, <3>5, PublishInOneGo
  <2>3. ASSUME NEW call \in calls, PublishArrives(call)
        PROVE  Fine
    <3> DEFINE m == call.message
               name == call.to
    <3>1. /\ Publish(name, m, messages[m].topic) /\ messages' = messages
          /\ m \in Message /\ call = [to |-> name, message |-> m]
      BY <2>1, <2>3 DEF PublishArrives, CallsInRoom
    <3>2. \A e \in At(name) : e \in Client /\ sub[e] /= None /\ sub[e].name = name
      BY DEF At
    <3> HIDE DEF m, name
    <3>3. ASSUME NEW e \in At(name) PROVE got[e][m] = 0
      <4>1. got[e][m] \in Nat /\ [to |-> sub[e].name, message |-> m] \in calls
        BY <2>1, <2>3, <3>1, <3>2
      <4>2. QED BY <3>1, <3>2, <4>1 DEF Once
    <3>4. QED BY <2>1, <3>1, <3>3, PublishInOneGo
  <2>4. ASSUME \A e \in Client : got'[e] = got[e] \/ got'[e] = [m \in Message |-> 0] PROVE FALSE
    <3>1. CASE got'[c] = got[c]
      BY <2>1, <3>1
    <3>2. CASE got'[c] = [m \in Message |-> 0]
      BY <2>1, <3>2
    <3>3. QED BY <2>4, <3>1, <3>2
  <2>5. ASSUME NEW e \in Client, Disconnect(e) PROVE FALSE
    BY <2>1, <2>4, <2>5 DEF Disconnect, Message
  <2>6. ASSUME NEW e \in Client, NEW topic \in Topic, OnMessage(e, topic)
        PROVE  Fine
    BY <2>2, <2>6, MessagesReachRooms
  <2>7. ASSUME NEW room \in Room, NEW topic \in Topic, OnRequest(room, topic)
        PROVE  Fine
    BY <2>2, <2>7, MessagesReachRooms
  <2>8. ASSUME got' = got PROVE FALSE
    BY <2>4, <2>8
  <2>9. ASSUME NEW e \in Client, NEW topics \in Topics,
               SetTopics(e, topics) \/ \E room \in Room : OnConnect(e, room, topics)
        PROVE  FALSE
    BY <2>8, <2>9 DEF OnConnect, SetTopics
  <2>10. ASSUME NEW call \in calls, PublishFails(call) PROVE FALSE
    BY <2>8, <2>10 DEF PublishFails
  <2> HIDE DEF Fine
  <2>11. Fine
    BY <2>3, <2>5, <2>6, <2>7, <2>9, <2>10 DEF Next
  <2>12. QED BY <2>11 DEF Fine
<1>2. NodesTyped /\ PubSubInv /\ Once /\ [Next]_vars => Once'
  BY OnceStep
<1>3. Spec => [][InOneGo]_vars
  BY <1>1, <1>2, OnceInit, NodesInvariance, PubSubInvariance, PTL DEF Spec
<1>4. QED BY <1>3 DEF SentInOneGo

(* The nodes of a room together keep the promise of one room: a message is *)
(* delivered only to who is subscribed to its topic in its room at that    *)
(* moment, and when no call of publish() is left nobody misses it, but for *)
(* those who were cut off by a call that failed.                           *)
THEOREM FeedImplemented == Spec => ImplementsFeed
<1>1. Init => Feed!FeedInit
  <2> SUFFICES ASSUME Init PROVE Feed!FeedInit
    OBVIOUS
  <2>1. /\ sub = [c \in Client |-> None] /\ messages = <<>> /\ calls = {}
        /\ got = [c \in Client |-> [m \in Message |-> 0]] /\ owed = [m \in Message |-> {}]
    BY DEF Init, Message
  <2>2. Wants = [c \in Client |-> {}]
    BY <2>1 DEF Wants, Wanted
  <2>3. Delivered = [c \in Client |-> {}]
    BY <2>1 DEF Delivered
  <2>4. Missing = [m \in Feed!FeedMessage |-> {}] /\ Underway = {}
    BY <2>1 DEF Missing, Underway, Message, Feed!FeedMessage
  <2>5. QED BY <2>1, <2>2, <2>3, <2>4 DEF Feed!FeedInit
<1>2. FeedInv /\ FeedInv' /\ [Next]_vars => [Feed!FeedNext]_(Feed!feedVars)
  <2> SUFFICES ASSUME FeedInv, FeedInv', [Next]_vars
               PROVE  Feed!FeedNext \/ UNCHANGED Feed!feedVars
    OBVIOUS
  <2>1. PubSubInv /\ PubSubInv'
    BY DEF FeedInv
  <2>2. ASSUME NEW c \in Client, NEW room \in Room, NEW topics \in Topics, OnConnect(c, room, topics)
        PROVE  Feed!FeedNext
    BY <2>2, ConnectWants
  <2>3. ASSUME NEW c \in Client, NEW topics \in Topics, SetTopics(c, topics) PROVE Feed!FeedNext
    BY <2>3, SetTopicsWants
  <2>4. ASSUME NEW c \in Client, Disconnect(c) PROVE Feed!FeedNext
    BY <2>4, DisconnectLeaves
  <2>5. ASSUME NEW c \in Client, NEW topic \in Topic, OnMessage(c, topic) PROVE Feed!FeedNext
    BY <2>1, <2>5, MessagesReachRooms, BroadcastAnnounces
  <2>6. ASSUME NEW room \in Room, NEW topic \in Topic, OnRequest(room, topic) PROVE Feed!FeedNext
    BY <2>1, <2>6, MessagesReachRooms, BroadcastAnnounces
  <2>7. ASSUME NEW call \in calls, PublishArrives(call) \/ PublishFails(call) PROVE Feed!FeedNext
    BY <2>1, <2>7, ArrivalDelivers, FailureCutsOff
  <2>8. ASSUME UNCHANGED vars PROVE UNCHANGED Feed!feedVars
    BY <2>8 DEF vars, Feed!feedVars, Wants, Wanted, Delivered, Missing, Underway
  <2>9. QED BY <2>2, <2>3, <2>4, <2>5, <2>6, <2>7, <2>8 DEF Next
<1>3. QED BY <1>1, <1>2, FeedInvariance, PTL DEF Spec, ImplementsFeed, Feed!FeedSpec

-----------------------------------------------------------------------------
(***************************************************************************)
(* PartySync: what a page is told, and what it comes to show.              *)
(***************************************************************************)

(***************************************************************************)
(* Sequences and greatest elements.                                        *)
(***************************************************************************)
LEMMA GreatestOf ==
  ASSUME NEW b \in Nat, NEW T \in SUBSET (0 .. b), T /= {}
  PROVE  \E n \in T : \A m \in T : m <= n
<1> DEFINE D == {b - n : n \in T}
<1>1. D \in SUBSET Nat /\ D /= {}
  <2>1. \A n \in T : n \in 0 .. b /\ b - n \in Nat
    OBVIOUS
  <2>2. QED BY <2>1
<1>2. PICK d \in D : \A e \in D : d <= e
  BY <1>1, Smallest
<1>3. PICK n \in T : d = b - n
  BY <1>2
<1>4. ASSUME NEW m \in T PROVE m <= n
  <2>1. b - m \in D
    OBVIOUS
  <2>2. b - n <= b - m
    BY <1>2, <1>3, <2>1
  <2>3. m \in 0 .. b /\ n \in 0 .. b
    OBVIOUS
  <2>4. QED BY <2>2, <2>3
<1>5. QED BY <1>4

LEMMA Appended ==
  ASSUME NEW S, NEW q \in Seq(S), NEW e \in S
  PROVE  /\ Append(q, e) \in Seq(S) /\ Len(Append(q, e)) = Len(q) + 1 /\ Len(q) \in Nat
         /\ Append(q, e)[Len(q) + 1] = e
         /\ \A i \in 1 .. Len(q) : Append(q, e)[i] = q[i]
OBVIOUS

LEMMA Shortened ==
  ASSUME NEW S, NEW q \in Seq(S), q /= <<>>
  PROVE  /\ Tail(q) \in Seq(S) /\ Len(Tail(q)) = Len(q) - 1 /\ Len(q) \in Nat \ {0}
         /\ Head(q) = q[1] /\ q[1] \in S
         /\ \A i \in 1 .. Len(q) - 1 : Tail(q)[i] = q[i + 1]
OBVIOUS

(***************************************************************************)
(* Messages, and what they tell.                                           *)
(***************************************************************************)
Unique(records) == \A r, s \in records : r.id = s.id => r = s

(* When a record was changed last. *)
Time(s) == IF s.updated >= s.deleted THEN s.updated ELSE s.deleted

ToldBy(q) == UNION {Told(q[i]) : i \in 1 .. Len(q)}

LEMMA RecordIs ==
  ASSUME NEW r \in Record
  PROVE  /\ r.id \in Id /\ r.version \in 1 .. MaxCalls /\ r.updated \in Nat /\ r.deleted \in Nat
         /\ Time(r) \in Nat /\ r.updated <= Time(r) /\ r.deleted <= Time(r)
         /\ r.deleted = 0 => Time(r) = r.updated
BY DEF Record, Time

LEMMA MessageIs ==
  ASSUME NEW m \in ToPage
  PROVE  /\ m.type \in {"sync", "update", "success", "error"}
         /\ Told(m) \subseteq Record
         /\ m.type = "sync" => Live(Told(m)) = Told(m) /\ m.records = Told(m)
         /\ m.type \in {"update", "success"} => m.records = Told(m)
         /\ m.type = "error" => Told(m) = {}
         /\ m.type \in {"success", "error"} => m.n \in 1 .. MaxCalls
BY DEF ToPage, Told, Live

LEMMA RequestIs ==
  ASSUME NEW m \in ToServer
  PROVE  /\ m.type \in {"sync", "action"}
         /\ m.type = "sync" => m.from \in Nat
         /\ m.type = "action" => m.call \in Call
BY DEF ToServer

LEMMA ToldAre ==
  ASSUME NEW q \in Seq(ToPage), NEW i \in 1 .. Len(q)
  PROVE  Told(q[i]) \subseteq Record
BY ElementOf, MessageIs

LEMMA LiveIs ==
  ASSUME NEW S
  PROVE  Live(S) = {r \in S : r.deleted = 0}
BY DEF Live

LEMMA UniquePut ==
  ASSUME NEW S, NEW T, Unique(S), Unique(T)
  PROVE  Unique(Put(S, T)) /\ Unique(Shown(S, T)) /\ Unique(Live(S))
BY DEF Unique, Put, Shown, Others, Live

LEMMA PutNothing ==
  ASSUME NEW S
  PROVE  Put(S, {}) = S /\ Shown(S, {}) = S
BY DEF Put, Shown, Others, Live

LEMMA PutLive ==
  ASSUME NEW S, NEW T
  PROVE  /\ Live(Put(S, T)) = Shown(Live(S), T)
         /\ Live(T) = T => Put(S, T) = Shown(S, T)
BY DEF Put, Shown, Others, Live

LEMMA PutTypes ==
  ASSUME NEW S \in SUBSET Record, NEW T \in SUBSET Record
  PROVE  Put(S, T) \in SUBSET Record
BY DEF Put, Others

LEMMA ShownTypes ==
  ASSUME NEW S \in SUBSET Live(Record), NEW T \in SUBSET Record
  PROVE  Shown(S, T) \in SUBSET Live(Record)
BY DEF Shown, Others, Live

(***************************************************************************)
(* What is told last is so.                                                *)
(***************************************************************************)
Agreeing(q, rows) ==
  \A i \in 1 .. Len(q) : \A r \in Told(q[i]) :
    ToldLast(q, i, r.id) =>
      /\ r.deleted = 0 => r \in rows
      /\ \A s \in Live(rows) : s.id = r.id => s \in Told(q[i])

LEMMA AgreeingTail ==
  ASSUME NEW q \in Seq(ToPage), q /= <<>>, NEW rows, Agreeing(q, rows)
  PROVE  Agreeing(Tail(q), rows)
<1>1. SUFFICES ASSUME NEW i \in 1 .. Len(Tail(q)), NEW r \in Told(Tail(q)[i]), ToldLast(Tail(q), i, r.id)
               PROVE  /\ r.deleted = 0 => r \in rows
                      /\ \A s \in Live(rows) : s.id = r.id => s \in Told(Tail(q)[i])
  BY DEF Agreeing
<1>2. /\ Len(Tail(q)) = Len(q) - 1 /\ Len(q) \in Nat
      /\ \A j \in 1 .. Len(q) - 1 : Tail(q)[j] = q[j + 1]
  BY Shortened
<1>3. i + 1 \in 1 .. Len(q) /\ Tail(q)[i] = q[i + 1]
  BY <1>2
<1>4. ASSUME NEW j \in i + 2 .. Len(q) PROVE ~Tells(q[j], r.id)
  <2>1. j - 1 \in i + 1 .. Len(Tail(q)) /\ Tail(q)[j - 1] = q[j]
    BY <1>2
  <2>2. QED BY <1>1, <2>1 DEF ToldLast
<1>5. ToldLast(q, i + 1, r.id)
  BY <1>1, <1>2, <1>3, <1>4 DEF ToldLast
<1>6. QED BY <1>3, <1>5 DEF Agreeing

(* Another message, and a table that has changed as it tells. *)
LEMMA AgreeingAppend ==
  ASSUME NEW q \in Seq(ToPage), NEW m \in ToPage, NEW rows, NEW changed, Agreeing(q, rows),
         \A r \in Told(m) : /\ r.deleted = 0 => r \in changed
                            /\ \A s \in Live(changed) : s.id = r.id => s \in Told(m),
         \A r : ~Tells(m, r.id) => (r \in rows <=> r \in changed)
  PROVE  Agreeing(Append(q, m), changed)
<1> DEFINE p == Append(q, m)
<1>1. /\ Len(p) = Len(q) + 1 /\ Len(q) \in Nat /\ p[Len(q) + 1] = m
      /\ \A i \in 1 .. Len(q) : p[i] = q[i]
  BY Appended
<1> HIDE DEF p
<1>2. SUFFICES ASSUME NEW i \in 1 .. Len(p), NEW r \in Told(p[i]), ToldLast(p, i, r.id)
               PROVE  /\ r.deleted = 0 => r \in changed
                      /\ \A s \in Live(changed) : s.id = r.id => s \in Told(p[i])
  BY DEF Agreeing, p
<1>3. CASE i = Len(q) + 1
  BY <1>1, <1>3
<1>4. CASE i \in 1 .. Len(q)
  <2>1. p[i] = q[i] /\ r \in Told(q[i])
    BY <1>1, <1>4
  <2>2. ~Tells(m, r.id)
    BY <1>1, <1>2, <1>4 DEF ToldLast
  <2>3. ToldLast(q, i, r.id)
    <3>1. Tells(q[i], r.id)
      BY <1>2, <2>1 DEF ToldLast
    <3>2. ASSUME NEW j \in i + 1 .. Len(q) PROVE ~Tells(q[j], r.id)
      <4>1. j \in i + 1 .. Len(p) /\ p[j] = q[j]
        BY <1>1, <1>4
      <4>2. QED BY <1>2, <4>1 DEF ToldLast
    <3>3. QED BY <3>1, <3>2 DEF ToldLast
  <2>4. /\ r.deleted = 0 => r \in rows
        /\ \A s \in Live(rows) : s.id = r.id => s \in Told(q[i])
    BY <1>4, <2>1, <2>3 DEF Agreeing
  <2>5. r.deleted = 0 => r \in changed
    BY <2>2, <2>4
  <2>6. ASSUME NEW s \in Live(changed), s.id = r.id PROVE s \in Told(q[i])
    <3>1. s \in rows /\ s.deleted = 0
      BY <2>2, <2>6 DEF Live
    <3>2. QED BY <2>4, <2>6, <3>1 DEF Live
  <2>7. QED BY <2>1, <2>5, <2>6
<1>5. QED BY <1>1, <1>3, <1>4

LEMMA UntoldTail ==
  ASSUME NEW q \in Seq(ToPage), q /= <<>>, NEW id, Untold(Tail(q), id), ~Tells(q[1], id)
  PROVE  Untold(q, id)
<1>1. /\ Len(Tail(q)) = Len(q) - 1 /\ Len(q) \in Nat
      /\ \A j \in 1 .. Len(q) - 1 : Tail(q)[j] = q[j + 1]
  BY Shortened
<1>2. ASSUME NEW i \in 1 .. Len(q) PROVE ~Tells(q[i], id)
  <2>1. CASE i = 1
    BY <2>1
  <2>2. CASE i /= 1
    <3>1. i - 1 \in 1 .. Len(Tail(q)) /\ Tail(q)[i - 1] = q[i]
      BY <1>1, <2>2
    <3>2. QED BY <3>1 DEF Untold
  <2>3. QED BY <2>1, <2>2
<1>3. QED BY <1>2 DEF Untold

LEMMA UntoldAppend ==
  ASSUME NEW q \in Seq(ToPage), NEW m \in ToPage, NEW id
  PROVE  Untold(Append(q, m), id) <=> Untold(q, id) /\ ~Tells(m, id)
<1> DEFINE p == Append(q, m)
<1>1. /\ Len(p) = Len(q) + 1 /\ Len(q) \in Nat /\ p[Len(q) + 1] = m
      /\ \A i \in 1 .. Len(q) : p[i] = q[i]
  BY Appended
<1> HIDE DEF p
<1>2. ASSUME Untold(p, id) PROVE Untold(q, id) /\ ~Tells(m, id)
  BY <1>1, <1>2 DEF Untold
<1>3. ASSUME Untold(q, id), ~Tells(m, id) PROVE Untold(p, id)
  <2>1. ASSUME NEW i \in 1 .. Len(p) PROVE ~Tells(p[i], id)
    <3>1. CASE i = Len(q) + 1
      BY <1>1, <1>3, <3>1
    <3>2. CASE i \in 1 .. Len(q)
      BY <1>1, <1>3, <3>2 DEF Untold
    <3>3. QED BY <1>1, <3>1, <3>2
  <2>2. QED BY <2>1 DEF Untold
<1>4. QED BY <1>2, <1>3 DEF p

(* Whatever is told is told last by some message. *)
LEMMA SomeLast ==
  ASSUME NEW q \in Seq(ToPage), NEW id, ~Untold(q, id)
  PROVE  \E i \in 1 .. Len(q) : ToldLast(q, i, id)
<1> DEFINE T == {i \in 1 .. Len(q) : Tells(q[i], id)}
<1>1. Len(q) \in Nat /\ T /= {} /\ T \in SUBSET (0 .. Len(q))
  BY DEF Untold
<1>2. PICK n \in T : \A m \in T : m <= n
  BY <1>1, GreatestOf
<1>3. ToldLast(q, n, id)
  <2>1. ASSUME NEW j \in n + 1 .. Len(q) PROVE ~Tells(q[j], id)
    <3>1. j \in 1 .. Len(q) /\ ~ (j <= n)
      BY <1>1
    <3>2. QED BY <1>2, <3>1
  <2>2. QED BY <2>1 DEF ToldLast
<1>4. QED BY <1>3

(* A record of the table that a page is told of is told as it is, last. *)
LEMMA ToldAsItIs ==
  ASSUME NEW q \in Seq(ToPage), NEW rows, Agreeing(q, rows), NEW r \in Live(rows), ~Untold(q, r.id)
  PROVE  \E i \in 1 .. Len(q) : r \in Live(Told(q[i])) /\ ToldLast(q, i, r.id)
<1>1. PICK i \in 1 .. Len(q) : ToldLast(q, i, r.id)
  BY SomeLast
<1>2. PICK t \in Told(q[i]) : t.id = r.id
  BY <1>1 DEF ToldLast, Tells
<1>3. ToldLast(q, i, t.id)
  BY <1>1, <1>2
<1>4. r \in Told(q[i])
  BY <1>2, <1>3 DEF Agreeing
<1>5. r \in Live(Told(q[i]))
  BY <1>4 DEF Live
<1>6. QED BY <1>1, <1>5

(***************************************************************************)
(* A record that is there, or told, stays; and what is as late as it comes *)
(* after it.                                                               *)
(***************************************************************************)
Steady(records, q, r) ==
  /\ r \in records => \A i \in 1 .. Len(q) : \A t \in Told(q[i]) : t.id = r.id => t = r
  /\ \A i, j \in 1 .. Len(q) :
       i < j /\ r \in Told(q[i]) => \A t \in Told(q[j]) : t.id = r.id => t = r

Reached(records, q, r) ==
  /\ r \in records \/ \A s \in records : Time(s) < r.updated
  /\ \A i \in 1 .. Len(q) : \A s \in Told(q[i]) :
       r.updated <= Time(s) => r \in records \/ \E j \in 1 .. i : r \in Told(q[j])

LEMMA SteadyTail ==
  ASSUME NEW q \in Seq(ToPage), q /= <<>>, NEW records, NEW r, Steady(records, q, r)
  PROVE  Steady(Put(records, Told(q[1])), Tail(q), r)
<1>1. /\ Len(Tail(q)) = Len(q) - 1 /\ Len(q) \in Nat
      /\ \A j \in 1 .. Len(q) - 1 : Tail(q)[j] = q[j + 1]
  BY Shortened
<1>2. ASSUME NEW i \in 1 .. Len(Tail(q)), NEW j \in 1 .. Len(Tail(q)), i < j, r \in Told(Tail(q)[i]),
             NEW t \in Told(Tail(q)[j]), t.id = r.id
      PROVE  t = r
  <2>1. i + 1 \in 1 .. Len(q) /\ j + 1 \in 1 .. Len(q) /\ i + 1 < j + 1
    BY <1>1, <1>2
  <2>2. Tail(q)[i] = q[i + 1] /\ Tail(q)[j] = q[j + 1]
    BY <1>1
  <2>3. QED BY <1>2, <2>1, <2>2 DEF Steady
<1>3. ASSUME r \in Put(records, Told(q[1])), NEW i \in 1 .. Len(Tail(q)), NEW t \in Told(Tail(q)[i]), t.id = r.id
      PROVE  t = r
  <2>1. i + 1 \in 1 .. Len(q) /\ 1 \in 1 .. Len(q) /\ 1 < i + 1 /\ Tail(q)[i] = q[i + 1]
    BY <1>1
  <2>2. r \in records \/ r \in Told(q[1])
    BY <1>3 DEF Put, Others
  <2>3. QED BY <1>3, <2>1, <2>2 DEF Steady
<1>4. QED BY <1>2, <1>3 DEF Steady

LEMMA SteadyAppend ==
  ASSUME NEW q \in Seq(ToPage), NEW m \in ToPage, NEW records, NEW r, Steady(records, q, r),
         \A t \in Told(m) : t.id = r.id => t = r
  PROVE  Steady(records, Append(q, m), r)
<1> DEFINE p == Append(q, m)
<1>1. /\ Len(p) = Len(q) + 1 /\ Len(q) \in Nat /\ p[Len(q) + 1] = m
      /\ \A i \in 1 .. Len(q) : p[i] = q[i]
  BY Appended
<1> HIDE DEF p
<1>2. ASSUME NEW i \in 1 .. Len(p), NEW j \in 1 .. Len(p), i < j, r \in Told(p[i]),
             NEW t \in Told(p[j]), t.id = r.id
      PROVE  t = r
  <2>1. CASE j = Len(q) + 1
    BY <1>1, <1>2, <2>1
  <2>2. CASE j \in 1 .. Len(q)
    <3>1. i \in 1 .. Len(q) /\ p[i] = q[i] /\ p[j] = q[j]
      BY <1>1, <1>2, <2>2
    <3>2. QED BY <1>2, <2>2, <3>1 DEF Steady
  <2>3. QED BY <1>1, <2>1, <2>2
<1>3. ASSUME r \in records, NEW i \in 1 .. Len(p), NEW t \in Told(p[i]), t.id = r.id
      PROVE  t = r
  <2>1. CASE i = Len(q) + 1
    BY <1>1, <1>3, <2>1
  <2>2. CASE i \in 1 .. Len(q)
    BY <1>1, <1>3, <2>2 DEF Steady
  <2>3. QED BY <1>1, <2>1, <2>2
<1>4. Steady(records, p, r)
  BY <1>2, <1>3 DEF Steady
<1>5. QED BY <1>4 DEF p

LEMMA ReachedTail ==
  ASSUME NEW q \in Seq(ToPage), q /= <<>>, NEW records \in SUBSET Record,
         NEW r \in Record, r.deleted = 0, Steady(records, q, r), Reached(records, q, r)
  PROVE  Reached(Put(records, Told(q[1])), Tail(q), r)
<1> DEFINE after == Put(records, Told(q[1]))
<1>1. /\ Len(Tail(q)) = Len(q) - 1 /\ Len(q) \in Nat /\ 1 \in 1 .. Len(q)
      /\ \A j \in 1 .. Len(q) - 1 : Tail(q)[j] = q[j + 1]
  BY Shortened
<1>2. /\ Told(q[1]) \subseteq Record
      /\ \A s : s \in after <=> s \in Told(q[1]) \/ (s \in records /\ \A t \in Told(q[1]) : t.id /= s.id)
  <2>1. Told(q[1]) \subseteq Record
    BY <1>1, ToldAre
  <2>2. QED BY <2>1 DEF Put, Others
<1>3. Time(r) = r.updated /\ r.updated \in Nat
  BY RecordIs
<1>4. ASSUME r \in records PROVE r \in after
  <2>1. \A t \in Told(q[1]) : t.id = r.id => t = r
    BY <1>1, <1>4 DEF Steady
  <2>2. QED BY <1>2, <1>4, <2>1
<1> HIDE DEF after
<1>5. r \in after \/ \A s \in after : Time(s) < r.updated
  <2>1. CASE r \in records
    BY <1>4, <2>1
  <2>2. CASE r \notin records /\ \E s \in Told(q[1]) : r.updated <= Time(s)
    <3>1. r \in Told(q[1])
      BY <1>1, <2>2 DEF Reached
    <3>2. QED BY <1>2, <3>1
  <2>3. CASE r \notin records /\ \A s \in Told(q[1]) : ~ (r.updated <= Time(s))
    <3>1. ASSUME NEW s \in after PROVE Time(s) < r.updated
      <4>1. CASE s \in Told(q[1])
        <5>1. Time(s) \in Nat
          BY <1>2, <4>1, RecordIs
        <5>2. QED BY <1>3, <2>3, <4>1, <5>1
      <4>2. CASE s \in records
        BY <2>3, <4>2 DEF Reached
      <4>3. QED BY <1>2, <4>1, <4>2
    <3>2. QED BY <3>1
  <2>4. QED BY <2>1, <2>2, <2>3
<1>6. ASSUME NEW i \in 1 .. Len(Tail(q)), NEW s \in Told(Tail(q)[i]), r.updated <= Time(s)
      PROVE  r \in after \/ \E j \in 1 .. i : r \in Told(Tail(q)[j])
  <2>1. i + 1 \in 1 .. Len(q) /\ s \in Told(q[i + 1])
    BY <1>1
  <2>2. r \in records \/ \E j \in 1 .. i + 1 : r \in Told(q[j])
    BY <1>6, <2>1 DEF Reached
  <2>3. CASE r \in records
    BY <1>4, <2>3
  <2>4. ASSUME NEW j \in 1 .. i + 1, r \in Told(q[j])
        PROVE  r \in after \/ \E k \in 1 .. i : r \in Told(Tail(q)[k])
    <3>1. CASE j = 1
      BY <1>2, <2>4, <3>1
    <3>2. CASE j /= 1
      <4>1. j - 1 \in 1 .. i /\ j - 1 \in 1 .. Len(q) - 1 /\ (j - 1) + 1 = j
        BY <1>1, <3>2
      <4>2. Tail(q)[j - 1] = q[j]
        BY <1>1, <4>1
      <4>3. QED BY <2>4, <4>1, <4>2
    <3>3. QED BY <3>1, <3>2
  <2>5. QED BY <2>2, <2>3, <2>4
<1>7. Reached(after, Tail(q), r)
  BY <1>5, <1>6 DEF Reached
<1>8. QED BY <1>7 DEF after

LEMMA ReachedAppend ==
  ASSUME NEW q \in Seq(ToPage), NEW m \in ToPage, NEW records, NEW r, Reached(records, q, r),
         \/ \A s \in Told(m) : ~ (r.updated <= Time(s))
         \/ r \in records \cup ToldBy(q) \cup Told(m)
  PROVE  Reached(records, Append(q, m), r)
<1> DEFINE p == Append(q, m)
<1>1. /\ Len(p) = Len(q) + 1 /\ Len(q) \in Nat /\ p[Len(q) + 1] = m
      /\ \A i \in 1 .. Len(q) : p[i] = q[i]
  BY Appended
<1> HIDE DEF p
<1>2. ASSUME NEW i \in 1 .. Len(p), NEW s \in Told(p[i]), r.updated <= Time(s)
      PROVE  r \in records \/ \E j \in 1 .. i : r \in Told(p[j])
  <2>1. CASE i = Len(q) + 1
    <3>1. r \in records \cup ToldBy(q) \cup Told(m)
      BY <1>1, <1>2, <2>1
    <3>2. CASE r \in ToldBy(q)
      <4>1. PICK j \in 1 .. Len(q) : r \in Told(q[j])
        BY <3>2 DEF ToldBy
      <4>2. j \in 1 .. i /\ p[j] = q[j]
        BY <1>1, <2>1
      <4>3. QED BY <4>1, <4>2
    <3>3. CASE r \in Told(m)
      <4>1. i \in 1 .. i /\ p[i] = m
        BY <1>1, <2>1
      <4>2. QED BY <3>3, <4>1
    <3>4. QED BY <3>1, <3>2, <3>3
  <2>2. CASE i \in 1 .. Len(q)
    <3>1. p[i] = q[i] /\ \A j \in 1 .. i : p[j] = q[j]
      BY <1>1, <2>2
    <3>2. r \in records \/ \E j \in 1 .. i : r \in Told(q[j])
      BY <1>2, <2>2, <3>1 DEF Reached
    <3>3. QED BY <3>1, <3>2
  <2>3. QED BY <1>1, <2>1, <2>2
<1>3. Reached(records, p, r)
  BY <1>2 DEF Reached
<1>4. QED BY <1>3 DEF p

LEMMA ToldByAppend ==
  ASSUME NEW q \in Seq(ToPage), NEW m \in ToPage
  PROVE  ToldBy(Append(q, m)) = ToldBy(q) \cup Told(m)
<1> DEFINE p == Append(q, m)
<1>1. /\ Len(p) = Len(q) + 1 /\ Len(q) \in Nat /\ p[Len(q) + 1] = m
      /\ \A i \in 1 .. Len(q) : p[i] = q[i]
  BY Appended
<1> HIDE DEF p
<1>2. ASSUME NEW s \in ToldBy(p) PROVE s \in ToldBy(q) \cup Told(m)
  <2>1. PICK i \in 1 .. Len(p) : s \in Told(p[i])
    BY DEF ToldBy
  <2>2. i = Len(q) + 1 \/ i \in 1 .. Len(q)
    BY <1>1
  <2>3. QED BY <1>1, <2>1, <2>2 DEF ToldBy
<1>3. ASSUME NEW s \in ToldBy(q) PROVE s \in ToldBy(p)
  <2>1. PICK i \in 1 .. Len(q) : s \in Told(q[i])
    BY DEF ToldBy
  <2>2. i \in 1 .. Len(p) /\ p[i] = q[i]
    BY <1>1
  <2>3. QED BY <2>1, <2>2 DEF ToldBy
<1>4. ASSUME NEW s \in Told(m) PROVE s \in ToldBy(p)
  <2>1. Len(p) \in 1 .. Len(p) /\ p[Len(p)] = m
    BY <1>1
  <2>2. QED BY <2>1 DEF ToldBy
<1>5. ToldBy(p) = ToldBy(q) \cup Told(m)
  BY <1>2, <1>3, <1>4
<1>6. QED BY <1>5 DEF p

LEMMA ToldByTail ==
  ASSUME NEW q \in Seq(ToPage), q /= <<>>
  PROVE  ToldBy(q) = ToldBy(Tail(q)) \cup Told(q[1])
<1>1. /\ Len(Tail(q)) = Len(q) - 1 /\ Len(q) \in Nat /\ 1 \in 1 .. Len(q)
      /\ \A j \in 1 .. Len(q) - 1 : Tail(q)[j] = q[j + 1]
  BY Shortened
<1>2. ASSUME NEW s \in ToldBy(q) PROVE s \in ToldBy(Tail(q)) \cup Told(q[1])
  <2>1. PICK i \in 1 .. Len(q) : s \in Told(q[i])
    BY DEF ToldBy
  <2>2. CASE i = 1
    BY <2>1, <2>2
  <2>3. CASE i /= 1
    <3>1. i - 1 \in 1 .. Len(Tail(q)) /\ Tail(q)[i - 1] = q[i]
      BY <1>1, <2>3
    <3>2. QED BY <2>1, <3>1 DEF ToldBy
  <2>4. QED BY <2>2, <2>3
<1>3. ASSUME NEW s \in ToldBy(Tail(q)) PROVE s \in ToldBy(q)
  <2>1. PICK i \in 1 .. Len(Tail(q)) : s \in Told(Tail(q)[i])
    BY DEF ToldBy
  <2>2. i + 1 \in 1 .. Len(q) /\ Tail(q)[i] = q[i + 1]
    BY <1>1
  <2>3. QED BY <2>1, <2>2 DEF ToldBy
<1>4. QED BY <1>1, <1>2, <1>3 DEF ToldBy

(* What the table has, and a page has or is told, it has or is told still  *)
(* when it has received a message.                                         *)
LEMMA Remains ==
  ASSUME NEW q \in Seq(ToPage), q /= <<>>, NEW rows, Agreeing(q, rows), NEW r \in Live(rows),
         NEW records, r \in records \cup ToldBy(q)
  PROVE  /\ r \in Put(records, Told(q[1])) \cup ToldBy(Tail(q))
         /\ r \in Shown(records, Told(q[1])) \cup ToldBy(Tail(q))
<1>1. ToldBy(q) = ToldBy(Tail(q)) \cup Told(q[1])
  BY ToldByTail
<1>2. r.deleted = 0
  BY DEF Live
<1>3. ASSUME r \in Told(q[1])
      PROVE  r \in Put(records, Told(q[1])) /\ r \in Shown(records, Told(q[1]))
  BY <1>2, <1>3 DEF Put, Shown, Live
<1>4. CASE r \in ToldBy(q)
  BY <1>1, <1>3, <1>4
<1>5. CASE ~Untold(q, r.id)
  <2>1. PICK i \in 1 .. Len(q) : r \in Live(Told(q[i]))
    BY <1>5, ToldAsItIs
  <2>2. r \in ToldBy(q)
    BY <2>1 DEF ToldBy, Live
  <2>3. QED BY <1>4, <2>2
<1>6. CASE Untold(q, r.id) /\ r \in records
  <2>1. 1 \in 1 .. Len(q)
    BY Shortened
  <2>2. \A t \in Told(q[1]) : t.id /= r.id
    BY <1>6, <2>1 DEF Untold, Tells
  <2>3. QED BY <1>6, <2>2 DEF Put, Shown, Others
<1>7. QED BY <1>4, <1>5, <1>6

(* The time that a sync starts from. *)
LEMMA LastTimeIs ==
  ASSUME NEW records \in SUBSET Record, NEW b \in Nat, \A s \in records : Time(s) <= b
  PROVE  /\ LastRecordTime(records) \in 0 .. b
         /\ \A s \in records : Time(s) <= LastRecordTime(records)
         /\ LastRecordTime(records) = 0 \/ \E s \in records : Time(s) = LastRecordTime(records)
<1> DEFINE T == {0} \cup {r.updated : r \in records} \cup {r.deleted : r \in records}
<1>1. \A r \in records : /\ r.updated \in Nat /\ r.deleted \in Nat /\ Time(r) \in Nat
                         /\ r.updated <= Time(r) /\ r.deleted <= Time(r)
  BY RecordIs
<1>2. \A r \in records : r.updated \in 0 .. b /\ r.deleted \in 0 .. b
  BY <1>1
<1>3. T \in SUBSET (0 .. b) /\ T /= {}
  BY <1>2
<1>4. PICK n \in T : \A m \in T : m <= n
  BY <1>3, GreatestOf
<1>5. \A m \in T : n >= m
  BY <1>3, <1>4
<1>6. Max(T) \in T /\ \A m \in T : Max(T) >= m
  BY <1>5 DEF Max
<1>7. LastRecordTime(records) = Max(T)
  BY DEF LastRecordTime
<1>8. LastRecordTime(records) \in 0 .. b
  BY <1>3, <1>6, <1>7
<1>9. ASSUME NEW s \in records PROVE Time(s) <= LastRecordTime(records)
  <2>1. s.updated \in T /\ s.deleted \in T
    OBVIOUS
  <2>2. Max(T) >= s.updated /\ Max(T) >= s.deleted
    BY <1>6, <2>1
  <2>3. Time(s) = s.updated \/ Time(s) = s.deleted
    BY DEF Time
  <2>4. QED BY <1>1, <1>7, <1>8, <2>2, <2>3
<1>10. LastRecordTime(records) = 0 \/ \E s \in records : Time(s) = LastRecordTime(records)
  <2>1. CASE Max(T) = 0
    BY <1>7, <2>1
  <2>2. ASSUME NEW s \in records, Max(T) = s.updated \/ Max(T) = s.deleted
        PROVE  Time(s) = LastRecordTime(records)
    <3>1. Time(s) <= LastRecordTime(records)
      BY <1>9
    <3>2. LastRecordTime(records) <= Time(s)
      BY <1>1, <1>7, <2>2
    <3>3. QED BY <1>1, <1>8, <3>1, <3>2
  <2>3. QED BY <1>6, <2>1, <2>2
<1>11. QED BY <1>8, <1>9, <1>10

(***************************************************************************)
(* Calls have numbers.                                                     *)
(***************************************************************************)
Numbered(m, n) ==
  \/ m.type = "action" /\ m.call.n = n
  \/ m.type \in {"success", "error"} /\ m.n = n

Has(q, n) == \E i \in 1 .. Len(q) : Numbered(q[i], n)
Sole(q, n) == \A i, j \in 1 .. Len(q) : Numbered(q[i], n) /\ Numbered(q[j], n) => i = j

LEMMA NumbersAppend ==
  ASSUME NEW S, NEW q \in Seq(S), NEW m \in S, NEW n
  PROVE  /\ Has(Append(q, m), n) <=> Has(q, n) \/ Numbered(m, n)
         /\ Sole(q, n) /\ ~ (Has(q, n) /\ Numbered(m, n)) => Sole(Append(q, m), n)
<1> DEFINE p == Append(q, m)
<1>1. /\ Len(p) = Len(q) + 1 /\ Len(q) \in Nat /\ p[Len(q) + 1] = m
      /\ \A i \in 1 .. Len(q) : p[i] = q[i]
  BY Appended
<1> HIDE DEF p
<1>2. \A i \in 1 .. Len(p) : i \in 1 .. Len(q) \/ i = Len(q) + 1
  BY <1>1
<1>3. \A i \in 1 .. Len(q) : i \in 1 .. Len(p)
  BY <1>1
<1>4. Len(q) + 1 \in 1 .. Len(p)
  BY <1>1
<1>5. Has(p, n) <=> Has(q, n) \/ Numbered(m, n)
  <2>1. ASSUME Has(p, n) PROVE Has(q, n) \/ Numbered(m, n)
    BY <1>1, <1>2, <2>1 DEF Has
  <2>2. ASSUME Has(q, n) PROVE Has(p, n)
    BY <1>1, <1>3, <2>2 DEF Has
  <2>3. ASSUME Numbered(m, n) PROVE Has(p, n)
    BY <1>1, <1>4, <2>3 DEF Has
  <2>4. QED BY <2>1, <2>2, <2>3
<1>6. ASSUME Sole(q, n), ~ (Has(q, n) /\ Numbered(m, n)) PROVE Sole(p, n)
  <2>1. ASSUME NEW i \in 1 .. Len(p), NEW j \in 1 .. Len(p), Numbered(p[i], n), Numbered(p[j], n)
        PROVE  i = j
    BY <1>1, <1>2, <1>6, <2>1 DEF Has, Sole
  <2>2. QED BY <2>1 DEF Sole
<1>7. QED BY <1>5, <1>6 DEF p

LEMMA NumbersTail ==
  ASSUME NEW S, NEW q \in Seq(S), q /= <<>>, NEW n
  PROVE  /\ Has(Tail(q), n) => Has(q, n)
         /\ Numbered(q[1], n) => Has(q, n)
         /\ Sole(q, n) => Sole(Tail(q), n) /\ ~ (Numbered(q[1], n) /\ Has(Tail(q), n))
<1>1. /\ Len(Tail(q)) = Len(q) - 1 /\ Len(q) \in Nat /\ 1 \in 1 .. Len(q)
      /\ \A i \in 1 .. Len(q) - 1 : Tail(q)[i] = q[i + 1]
  BY Shortened
<1>2. \A i \in 1 .. Len(Tail(q)) : i + 1 \in 1 .. Len(q) /\ i + 1 /= 1 /\ Tail(q)[i] = q[i + 1]
  BY <1>1
<1>3. (Has(Tail(q), n) => Has(q, n)) /\ (Numbered(q[1], n) => Has(q, n))
  BY <1>1, <1>2 DEF Has
<1>4. ASSUME Sole(q, n) PROVE Sole(Tail(q), n)
  <2>1. ASSUME NEW i \in 1 .. Len(Tail(q)), NEW j \in 1 .. Len(Tail(q)),
               Numbered(Tail(q)[i], n), Numbered(Tail(q)[j], n)
        PROVE  i = j
    <3>1. i + 1 = j + 1
      BY <1>2, <1>4, <2>1 DEF Sole
    <3>2. QED BY <3>1
  <2>2. QED BY <2>1 DEF Sole
<1>5. ASSUME Sole(q, n), Numbered(q[1], n), Has(Tail(q), n) PROVE FALSE
  <2>1. PICK i \in 1 .. Len(Tail(q)) : Numbered(Tail(q)[i], n)
    BY <1>5 DEF Has
  <2>2. QED BY <1>1, <1>2, <1>5, <2>1 DEF Sole
<1>6. QED BY <1>3, <1>4, <1>5

LEMMA NumbersNone ==
  ASSUME NEW n
  PROVE  ~Has(<<>>, n) /\ Sole(<<>>, n)
BY DEF Has, Sole

(***************************************************************************)
(* What a page sends: actions of its own, and one sync.                    *)
(***************************************************************************)
Asking(q) == \E i \in 1 .. Len(q) : q[i].type = "sync"
AskOnce(q) == \A i, j \in 1 .. Len(q) : q[i].type = "sync" /\ q[j].type = "sync" => i = j
AskFrom(q, t) == \A i \in 1 .. Len(q) : q[i].type = "sync" => q[i].from = t
ActionsOf(q, c) == \A i \in 1 .. Len(q) : q[i].type = "action" => q[i].call.client = c

LEMMA RequestsAppend ==
  ASSUME NEW q \in Seq(ToServer), NEW m \in ToServer, NEW t, NEW c
  PROVE  /\ Asking(Append(q, m)) <=> Asking(q) \/ m.type = "sync"
         /\ AskOnce(q) /\ ~ (Asking(q) /\ m.type = "sync") => AskOnce(Append(q, m))
         /\ AskFrom(q, t) /\ (m.type = "sync" => m.from = t) => AskFrom(Append(q, m), t)
         /\ ActionsOf(q, c) /\ (m.type = "action" => m.call.client = c) => ActionsOf(Append(q, m), c)
<1> DEFINE p == Append(q, m)
<1>1. /\ Len(p) = Len(q) + 1 /\ Len(q) \in Nat /\ p[Len(q) + 1] = m
      /\ \A i \in 1 .. Len(q) : p[i] = q[i]
  BY Appended
<1> HIDE DEF p
<1>2. /\ \A i \in 1 .. Len(p) : i \in 1 .. Len(q) \/ i = Len(q) + 1
      /\ \A i \in 1 .. Len(q) : i \in 1 .. Len(p)
      /\ Len(q) + 1 \in 1 .. Len(p)
  BY <1>1
<1>3. Asking(p) <=> Asking(q) \/ m.type = "sync"
  BY <1>1, <1>2 DEF Asking
<1>4. ASSUME AskOnce(q), ~ (Asking(q) /\ m.type = "sync") PROVE AskOnce(p)
  <2>1. ASSUME NEW i \in 1 .. Len(p), NEW j \in 1 .. Len(p), p[i].type = "sync", p[j].type = "sync"
        PROVE  i = j
    BY <1>1, <1>2, <1>4, <2>1 DEF Asking, AskOnce
  <2>2. QED BY <2>1 DEF AskOnce
<1>5. ASSUME AskFrom(q, t), m.type = "sync" => m.from = t PROVE AskFrom(p, t)
  BY <1>1, <1>2, <1>5 DEF AskFrom
<1>6. ASSUME ActionsOf(q, c), m.type = "action" => m.call.client = c PROVE ActionsOf(p, c)
  BY <1>1, <1>2, <1>6 DEF ActionsOf
<1>7. QED BY <1>3, <1>4, <1>5, <1>6 DEF p

LEMMA RequestsTail ==
  ASSUME NEW q \in Seq(ToServer), q /= <<>>, NEW t, NEW c
  PROVE  /\ Asking(Tail(q)) => Asking(q)
         /\ q[1].type = "sync" => Asking(q)
         /\ Asking(q) /\ q[1].type /= "sync" => Asking(Tail(q))
         /\ AskOnce(q) => AskOnce(Tail(q)) /\ ~ (q[1].type = "sync" /\ Asking(Tail(q)))
         /\ AskFrom(q, t) => AskFrom(Tail(q), t) /\ (q[1].type = "sync" => q[1].from = t)
         /\ ActionsOf(q, c) => ActionsOf(Tail(q), c) /\ (q[1].type = "action" => q[1].call.client = c)
<1>1. /\ Len(Tail(q)) = Len(q) - 1 /\ Len(q) \in Nat /\ 1 \in 1 .. Len(q)
      /\ \A i \in 1 .. Len(q) - 1 : Tail(q)[i] = q[i + 1]
  BY Shortened
<1>2. /\ \A i \in 1 .. Len(Tail(q)) : i + 1 \in 1 .. Len(q) /\ i + 1 /= 1 /\ Tail(q)[i] = q[i + 1]
      /\ \A i \in 1 .. Len(q) : i /= 1 => i - 1 \in 1 .. Len(Tail(q)) /\ Tail(q)[i - 1] = q[i]
  BY <1>1
<1>3. /\ Asking(Tail(q)) => Asking(q)
      /\ q[1].type = "sync" => Asking(q)
  BY <1>1, <1>2 DEF Asking
<1>4. Asking(q) /\ q[1].type /= "sync" => Asking(Tail(q))
  BY <1>2 DEF Asking
<1>5. ASSUME AskOnce(q) PROVE AskOnce(Tail(q)) /\ ~ (q[1].type = "sync" /\ Asking(Tail(q)))
  <2>1. ASSUME NEW i \in 1 .. Len(Tail(q)), NEW j \in 1 .. Len(Tail(q)),
               Tail(q)[i].type = "sync", Tail(q)[j].type = "sync"
        PROVE  i = j
    <3>1. i + 1 = j + 1
      BY <1>2, <1>5, <2>1 DEF AskOnce
    <3>2. QED BY <3>1
  <2>2. ~ (q[1].type = "sync" /\ Asking(Tail(q)))
    BY <1>1, <1>2, <1>5 DEF AskOnce, Asking
  <2>3. QED BY <2>1, <2>2 DEF AskOnce
<1>6. AskFrom(q, t) => AskFrom(Tail(q), t) /\ (q[1].type = "sync" => q[1].from = t)
  BY <1>1, <1>2 DEF AskFrom
<1>7. ActionsOf(q, c) => ActionsOf(Tail(q), c) /\ (q[1].type = "action" => q[1].call.client = c)
  BY <1>1, <1>2 DEF ActionsOf
<1>8. QED BY <1>3, <1>4, <1>5, <1>6, <1>7

(***************************************************************************)
(* The invariant.                                                          *)
(***************************************************************************)
TableTyped ==
  /\ setting \in Settings /\ now \in 1 .. setting.maxTime
  /\ table \subseteq Record /\ Unique(table)
  /\ \A r \in table : r.updated \in 1 .. now /\ r.deleted \in 0 .. now
  /\ running \subseteq [call : Call, page : {"connected", "reconnected", "gone"}]

PagesTyped ==
  /\ phase \in [Browser -> {"away", "loading", "read", "asked"}]
  /\ store \in [Browser -> SUBSET Record]
  /\ copy \in [Browser -> SUBSET Record]
  /\ view \in [Browser -> SUBSET Live(Record)]
  /\ whole \in [Browser -> BOOLEAN] /\ fresh \in [Browser -> BOOLEAN]
  /\ \A c \in Browser : Unique(store[c]) /\ Unique(copy[c]) /\ Unique(view[c])

WiresTyped ==
  /\ connected \in [Browser -> BOOLEAN]
  /\ up \in [Browser -> Seq(ToServer)] /\ down \in [Browser -> Seq(ToPage)]
  /\ \A c \in Browser : \A i \in 1 .. Len(down[c]) : Unique(Told(down[c][i]))

CountsTyped ==
  /\ called \in 0 .. MaxCalls /\ pending \in [Browser -> SUBSET (1 .. called)]
  /\ pages \in [Browser -> 0 .. setting.maxPages] /\ breaks \in 0 .. setting.breaks
  /\ overlooked \in [Browser -> SUBSET (1 .. MaxCalls)]

Typed == TableTyped /\ PagesTyped /\ WiresTyped /\ CountsTyped

Own(c) == {a \in running : a.call.client = c}
Asks(c) == Asking(up[c])

(* Of what a page has or is told, the table has the same or newer.         *)
DatedAt(c) ==
  \A s \in store[c] \cup copy[c] \cup ToldBy(down[c]) :
    \E r \in table : r.id = s.id /\ Time(s) <= Time(r)

(* A page and its connection: a sync is asked for once.                    *)
PageAt(c) ==
  /\ phase[c] = "away" => /\ ~connected[c] /\ up[c] = <<>> /\ view[c] = {}
                          /\ \A a \in Own(c) : a.page = "gone"
  /\ ~connected[c] => down[c] = <<>> /\ \A a \in Own(c) : a.page /= "connected"
  /\ phase[c] /= "asked" => ~Asks(c)
  /\ AskOnce(up[c]) /\ ActionsOf(up[c], c)
  /\ whole[c] /\ phase[c] /= "away" => \A a \in Own(c) : a.page /= "reconnected"
  /\ whole[c] /\ phase[c] = "asked" /\ ~connected[c] => Asks(c)

(* A call is under way at one place, and its answer awaited.               *)
Runs(c, n) == {a \in Own(c) : a.page = "connected" /\ a.call.n = n}
AwaitingAt(c) ==
  whole[c] =>
    \A n \in 1 .. MaxCalls :
      /\ Sole(up[c], n) /\ Sole(down[c], n) /\ \A a, b \in Runs(c, n) : a = b
      /\ Has(up[c], n) \/ Runs(c, n) /= {} \/ Has(down[c], n) => n \in pending[c]
      /\ ~ (Has(up[c], n) /\ Runs(c, n) /= {})
      /\ ~ (Has(up[c], n) /\ Has(down[c], n))
      /\ ~ (Runs(c, n) /= {} /\ Has(down[c], n))

AgreesAt(c) == whole[c] => Agreeing(down[c], table)

(* A first page shows nothing else, and all of it once it has been synced. *)
FirstAt(c) ==
  whole[c] /\ fresh[c] /\ phase[c] = "asked" =>
    /\ AskFrom(up[c], 0)
    /\ ~connected[c] => view[c] = {}
    /\ \A r \in view[c] : Untold(down[c], r.id) => r \in table
    /\ ~Asks(c) => \A r \in Live(table) : Untold(down[c], r.id) => r \in view[c]

(* A later page, and the records that it does not overlook.  Nothing but   *)
(* such a record comes after it; nothing as late comes before it; and the  *)
(* page shows it, is told of it, or asks for it, from time t on.           *)
Sure(c) == {r \in Live(table) : r.version \notin overlooked[c]}
Kept(c, r) == r \in store[c] \cup ToldBy(down[c])
Shows(c, r) == r \in view[c] \cup ToldBy(down[c])
SureAt(c, r, t) ==
  /\ Steady(store[c], down[c], r) /\ Reached(store[c], down[c], r)
  /\ phase[c] = "read" => \/ r \in copy[c] /\ Kept(c, r)
                          \/ \A s \in copy[c] : Time(s) < r.updated
  /\ phase[c] = "asked" => \/ Shows(c, r) /\ Kept(c, r)
                           \/ Asks(c) /\ t < r.updated
LaterFrom(c, t) ==
  /\ AskFrom(up[c], t) /\ (t = 0 \/ \E r \in table : t <= Time(r))
  /\ whole[c] => \A r \in Sure(c) : SureAt(c, r, t)
LaterAt(c) == \E t \in Nat : LaterFrom(c, t)

PageInv(c) == DatedAt(c) /\ PageAt(c) /\ AwaitingAt(c) /\ AgreesAt(c) /\ FirstAt(c) /\ LaterAt(c)

SyncInv == Typed /\ \A c \in Browser : PageInv(c)

LEMMA SyncedIs ==
  ASSUME Typed, NEW c \in Browser
  PROVE  Synced(c) <=> phase[c] = "asked" /\ ~Asks(c)
<1>1. up[c] \in Seq(ToServer)
  BY DEF Typed, WiresTyped
<1>2. DOMAIN up[c] = 1 .. Len(up[c])
  BY <1>1
<1>3. QED BY <1>2 DEF Synced, Asks, Asking, Range

(* Where a page takes no part, all stays as it is. *)
Same(c) ==
  /\ table' = table /\ setting' = setting /\ Own(c)' = Own(c)
  /\ phase'[c] = phase[c] /\ store'[c] = store[c] /\ copy'[c] = copy[c] /\ view'[c] = view[c]
  /\ fresh'[c] = fresh[c] /\ connected'[c] = connected[c] /\ up'[c] = up[c] /\ down'[c] = down[c]
  /\ pending'[c] = pending[c] /\ whole'[c] = whole[c] /\ overlooked'[c] = overlooked[c]

LEMMA SameKeeps ==
  ASSUME NEW c \in Browser, Same(c), PageInv(c)
  PROVE  PageInv(c)'
<1>1. DatedAt(c)'
  BY DEF Same, PageInv, DatedAt
<1>2. PageAt(c)'
  BY DEF Same, PageInv, PageAt, Asks
<1>3. AwaitingAt(c)'
  BY DEF Same, PageInv, AwaitingAt, Runs
<1>4. AgreesAt(c)'
  BY DEF Same, PageInv, AgreesAt
<1>5. FirstAt(c)'
  BY DEF Same, PageInv, FirstAt, Asks
<1>6. LaterAt(c)'
  <2>1. PICK t \in Nat : LaterFrom(c, t)
    BY DEF PageInv, LaterAt
  <2>2. \A r : (r \in Sure(c)' <=> r \in Sure(c)) /\ (SureAt(c, r, t)' <=> SureAt(c, r, t))
    BY DEF Same, Sure, SureAt, Kept, Shows, Asks
  <2>3. LaterFrom(c, t)'
    BY <2>1, <2>2 DEF Same, LaterFrom
  <2>4. QED BY <2>3 DEF LaterAt
<1>7. QED BY <1>1, <1>2, <1>3, <1>4, <1>5, <1>6 DEF PageInv

(***************************************************************************)
(* What a page does with a message, and the server with an action.         *)
(***************************************************************************)
Received(c, h) ==
  /\ view' = [view EXCEPT ![c] = Shown(view[c], Told(h))]
  /\ store' = [store EXCEPT ![c] = Put(store[c], Told(h))]
  /\ \/ h.type \in {"sync", "update"} /\ pending' = pending
     \/ h.type \in {"success", "error"} /\ pending' = [pending EXCEPT ![c] = pending[c] \ {h.n}]

LEMMA HeadIs ==
  ASSUME Typed, NEW c \in Browser, down[c] /= <<>>
  PROVE  /\ down[c] \in Seq(ToPage) /\ Head(down[c]) = down[c][1] /\ down[c][1] \in ToPage
         /\ Told(down[c][1]) \subseteq Record /\ Unique(Told(down[c][1]))
<1>1. down[c] \in Seq(ToPage) /\ \A i \in 1 .. Len(down[c]) : Unique(Told(down[c][i]))
  BY DEF Typed, WiresTyped
<1>2. Head(down[c]) = down[c][1] /\ down[c][1] \in ToPage /\ 1 \in 1 .. Len(down[c])
  BY <1>1, Shortened
<1>3. QED BY <1>1, <1>2, MessageIs

LEMMA ReceiveIs ==
  ASSUME Typed, NEW c \in Browser, PageReceives(c)
  PROVE  /\ down[c] /= <<>> /\ down' = [down EXCEPT ![c] = Tail(down[c])]
         /\ UNCHANGED <<setting, now, table, running, phase, copy, fresh, connected, up,
                        pages, called, breaks, whole, overlooked>>
         /\ \/ Forgotten(c, down[c][1]) /\ UNCHANGED <<view, store, pending>>
            \/ Received(c, down[c][1])
<1> DEFINE h == down[c][1]
<1>1. /\ down[c] /= <<>> /\ down' = [down EXCEPT ![c] = Tail(down[c])]
      /\ UNCHANGED <<setting, now, table, running, phase, copy, fresh, connected, up,
                     pages, called, breaks, whole, overlooked>>
  BY DEF PageReceives, serverVars, countVars
<1>2. h = Head(down[c]) /\ h \in ToPage
  BY <1>1, HeadIs
<1>3. /\ h.type = "sync" => Live(Told(h)) = Told(h) /\ h.records = Told(h)
      /\ h.type \in {"update", "success"} => h.records = Told(h)
      /\ h.type = "error" => Told(h) = {}
  BY <1>2, MessageIs
<1>4. view \in [Browser -> SUBSET Live(Record)] /\ store \in [Browser -> SUBSET Record]
  BY DEF Typed, PagesTyped
<1> HIDE DEF h
<1>5. CASE /\ h.type = "sync" /\ UNCHANGED pending
           /\ view' = [view EXCEPT ![c] = Put(@, h.records)]
           /\ store' = [store EXCEPT ![c] = Put(@, h.records)]
  <2>1. Put(view[c], Told(h)) = Shown(view[c], Told(h))
    BY <1>3, <1>5, PutLive
  <2>2. QED BY <1>1, <1>3, <1>5, <2>1 DEF Received, h
<1>6. CASE /\ h.type = "update" /\ UNCHANGED pending /\ Learns(c, h.records)
  BY <1>1, <1>3, <1>6 DEF Received, Learns, h
<1>7. CASE /\ Awaited(c, h) /\ pending' = [pending EXCEPT ![c] = @ \ {h.n}]
           /\ h.type = "success" /\ Learns(c, h.records)
  BY <1>1, <1>3, <1>7 DEF Received, Learns, h
<1>8. CASE /\ Awaited(c, h) /\ pending' = [pending EXCEPT ![c] = @ \ {h.n}]
           /\ h.type /= "success" /\ UNCHANGED <<view, store>>
  <2>1. h.type = "error"
    BY <1>8 DEF Awaited
  <2>2. Shown(view[c], Told(h)) = view[c] /\ Put(store[c], Told(h)) = store[c]
    BY <1>3, <2>1, PutNothing
  <2>3. QED BY <1>1, <1>4, <1>8, <2>1, <2>2 DEF Received, h
<1>9. CASE Forgotten(c, h) /\ UNCHANGED <<view, store, pending>>
  BY <1>1, <1>9 DEF h
<1>10. QED BY <1>2, <1>5, <1>6, <1>7, <1>8, <1>9 DEF PageReceives

(* A page is sent what an action has changed, as an answer or a broadcast. *)
Hears(c, a, result) ==
  \/ \E m \in ToPage :
       /\ down'[c] = Append(down[c], m) /\ Told(m) = result
       /\ \/ m.type = "update" /\ connected[c]
          \/ m.type = "success" /\ m.n = a.call.n /\ a \in Own(c) /\ a.page = "connected"
  \/ down'[c] = down[c] /\ (~connected[c] \/ (a \in Own(c) /\ a.page = "reconnected"))

Changes(a, result) ==
  /\ result \in SUBSET Record /\ Unique(result)
  /\ \A t \in result : /\ t.id = a.call.id /\ t.updated \in 1 .. now /\ t.deleted \in 0 .. now
                       /\ Time(t) = now
  /\ table' = Put(table, result)

LEMMA ReturnedIs ==
  ASSUME TableTyped, NEW a \in running
  PROVE  /\ Returned(a.call) \in SUBSET Record /\ Unique(Returned(a.call))
         /\ \A t \in Returned(a.call) : /\ t.id = a.call.id /\ t.updated \in 1 .. now
                                        /\ t.deleted \in 0 .. now /\ Time(t) = now
<1> DEFINE call == a.call
           rows == {r \in table : r.id = call.id}
<1>1. call \in Call
  BY DEF TableTyped
<1>2. call.kind \in {"create", "update", "delete"} /\ call.id \in Id /\ call.n \in 1 .. MaxCalls
  BY <1>1 DEF Call
<1>3. now \in Nat \ {0}
  <2>1. setting.maxTime \in Nat
    BY SyncServerAssumption DEF TableTyped
  <2>2. QED BY <2>1 DEF TableTyped
<1>4. /\ \A r \in rows : r \in Record /\ r.id = call.id /\ r.updated \in 1 .. now /\ r.deleted \in 0 .. now
      /\ \A r, s \in rows : r = s
  BY DEF TableTyped, Unique
<1> HIDE DEF call
<1>5. CASE call.kind = "create"
  <2>1. Returned(call) = {[id |-> call.id, version |-> call.n, updated |-> now, deleted |-> 0]}
    BY <1>5 DEF Returned, Inserted
  <2>2. QED BY <1>2, <1>3, <2>1 DEF Record, Time, Unique, call
<1>6. CASE call.kind = "update"
  <2>1. Returned(call) = {[r EXCEPT !.version = call.n, !.updated = now] : r \in rows}
    BY <1>6 DEF Returned
  <2>2. ASSUME NEW r \in rows
        PROVE  LET t == [r EXCEPT !.version = call.n, !.updated = now]
               IN  /\ t \in Record /\ t.id = call.id /\ t.updated \in 1 .. now
                   /\ t.deleted \in 0 .. now /\ Time(t) = now
    <3> DEFINE t == [r EXCEPT !.version = call.n, !.updated = now]
    <3>1. r \in Record /\ r.id = call.id /\ r.deleted \in 0 .. now
      BY <1>4
    <3>2. t.id = r.id /\ t.version = call.n /\ t.updated = now /\ t.deleted = r.deleted
      BY <3>1 DEF Record
    <3>3. t \in Record
      BY <1>2, <1>3, <3>1 DEF Record
    <3> HIDE DEF t
    <3>4. Time(t) = now
      BY <1>3, <3>1, <3>2 DEF Time
    <3>5. QED BY <1>3, <3>1, <3>2, <3>3, <3>4 DEF t
  <2>3. QED BY <1>4, <2>1, <2>2 DEF Unique, call
<1>7. CASE call.kind = "delete"
  <2>1. Returned(call) = {[r EXCEPT !.deleted = now] : r \in rows}
    BY <1>7 DEF Returned
  <2>2. ASSUME NEW r \in rows
        PROVE  LET t == [r EXCEPT !.deleted = now]
               IN  /\ t \in Record /\ t.id = call.id /\ t.updated \in 1 .. now
                   /\ t.deleted \in 0 .. now /\ Time(t) = now
    BY <1>2, <1>3, <1>4 DEF Record, Time
  <2>3. QED BY <1>4, <2>1, <2>2 DEF Unique, call
<1>8. QED BY <1>2, <1>5, <1>6, <1>7

LEMMA ActionIs ==
  ASSUME Typed, ActionDone
  PROVE  \E a \in running, result \in SUBSET Record :
           /\ Changes(a, result) /\ running' = running \ {a}
           /\ overlooked' = [c \in Browser |-> overlooked[c] \cup Overlooks(c, result)]
           /\ down' = [c \in Browser |-> down'[c]]
           /\ \A c \in Browser : Hears(c, a, result)
           /\ UNCHANGED <<setting, now, phase, store, copy, view, fresh, connected, up,
                          pages, called, breaks, pending, whole>>
<1>1. PICK a \in running :
        /\ running' = running \ {a}
        /\ table' = Put(table, Returned(a.call))
        /\ down' = [c \in Browser |->
             IF c \in Answered(a)
             THEN Append(down[c], [type |-> "success", n |-> a.call.n, records |-> Returned(a.call)])
             ELSE IF c \in BroadcastTo(a)
             THEN Append(down[c], [type |-> "update", records |-> Returned(a.call)])
             ELSE down[c]]
        /\ overlooked' = [c \in Browser |-> overlooked[c] \cup Overlooks(c, Returned(a.call))]
        /\ UNCHANGED <<setting, now, pageVars, connected, up, countVars, pending, whole>>
  BY Zenon DEF ActionDone
<1> DEFINE result == Returned(a.call)
<1>2. Changes(a, result)
  BY <1>1, ReturnedIs DEF Changes, Typed
<1>3. result \in SUBSET Record
  BY <1>2 DEF Changes
<1>4. a.call.n \in 1 .. MaxCalls /\ a.page \in {"connected", "reconnected", "gone"}
  BY DEF Typed, TableTyped, Call
<1> HIDE DEF result
<1>5. ASSUME NEW c \in Browser PROVE Hears(c, a, result)
  <2>1. CASE c \in Answered(a)
    <3> DEFINE m == [type |-> "success", n |-> a.call.n, records |-> result]
    <3>1. m \in ToPage /\ Told(m) = result /\ m.type = "success" /\ m.n = a.call.n
      BY <1>3, <1>4 DEF ToPage, Told
    <3>2. down'[c] = Append(down[c], m)
      BY <1>1, <2>1 DEF result
    <3>3. a \in Own(c) /\ a.page = "connected"
      BY <2>1 DEF Answered, Own
    <3> HIDE DEF m
    <3>4. QED BY <3>1, <3>2, <3>3 DEF Hears
  <2>2. CASE c \notin Answered(a) /\ c \in BroadcastTo(a)
    <3> DEFINE m == [type |-> "update", records |-> result]
    <3>1. m \in ToPage /\ Told(m) = result /\ m.type = "update"
      BY <1>3 DEF ToPage, Told
    <3>2. down'[c] = Append(down[c], m)
      BY <1>1, <2>2 DEF result
    <3>3. connected[c]
      BY <2>2 DEF BroadcastTo
    <3> HIDE DEF m
    <3>4. QED BY <3>1, <3>2, <3>3 DEF Hears
  <2>3. CASE c \notin Answered(a) /\ c \notin BroadcastTo(a)
    <3>1. down'[c] = down[c]
      BY <1>1, <2>3
    <3>2. ~connected[c] \/ (a \in Own(c) /\ a.page = "reconnected")
      BY <1>4, <2>3 DEF Answered, BroadcastTo, Own
    <3>3. QED BY <3>1, <3>2 DEF Hears
  <2>4. QED BY <2>1, <2>2, <2>3
<1>6. overlooked' = [c \in Browser |-> overlooked[c] \cup Overlooks(c, result)]
  BY <1>1 DEF result
<1>7. down' = [c \in Browser |-> down'[c]]
  BY <1>1
<1>8. UNCHANGED <<setting, now, phase, store, copy, view, fresh, connected, up,
                  pages, called, breaks, pending, whole>>
  BY <1>1 DEF pageVars, countVars
<1>9. QED BY <1>1, <1>2, <1>3, <1>5, <1>6, <1>7, <1>8

(* An INSERT that fails: only a caller that is still connected hears. *)
LEMMA ThrowIs ==
  ASSUME Typed, ActionThrows
  PROVE  \E a \in running :
           /\ running' = running \ {a}
           /\ down' = [c \in Browser |-> down'[c]]
           /\ \A c \in Browser :
                \/ down'[c] = down[c]
                \/ \E m \in ToPage : /\ down'[c] = Append(down[c], m) /\ Told(m) = {}
                                     /\ m.type = "error" /\ m.n = a.call.n
                                     /\ a \in Own(c) /\ a.page = "connected"
           /\ UNCHANGED <<setting, now, table, phase, store, copy, view, fresh, connected, up,
                          pages, called, breaks, pending, whole, overlooked>>
<1>1. PICK a \in running :
        /\ running' = running \ {a}
        /\ down' = [c \in Browser |->
             IF c \in Answered(a)
             THEN Append(down[c], [type |-> "error", n |-> a.call.n]) ELSE down[c]]
        /\ UNCHANGED <<setting, now, table, pageVars, connected, up, countVars, pending, whole, overlooked>>
  BY Zenon DEF ActionThrows
<1>2. a.call.n \in 1 .. MaxCalls
  BY DEF Typed, TableTyped, Call
<1>3. ASSUME NEW c \in Browser, c \in Answered(a)
      PROVE  \E m \in ToPage : /\ down'[c] = Append(down[c], m) /\ Told(m) = {}
                               /\ m.type = "error" /\ m.n = a.call.n
                               /\ a \in Own(c) /\ a.page = "connected"
  <2> DEFINE m == [type |-> "error", n |-> a.call.n]
  <2>1. m \in ToPage /\ Told(m) = {} /\ m.type = "error" /\ m.n = a.call.n
    BY <1>2 DEF ToPage, Told
  <2>2. down'[c] = Append(down[c], m)
    BY <1>1, <1>3
  <2>3. a \in Own(c) /\ a.page = "connected"
    BY <1>3 DEF Answered, Own
  <2> HIDE DEF m
  <2>4. QED BY <2>1, <2>2, <2>3
<1>4. ASSUME NEW c \in Browser, c \notin Answered(a) PROVE down'[c] = down[c]
  BY <1>1, <1>4
<1>5. down' = [c \in Browser |-> down'[c]]
  BY <1>1
<1>6. UNCHANGED <<setting, now, table, phase, store, copy, view, fresh, connected, up,
                  pages, called, breaks, pending, whole, overlooked>>
  BY <1>1 DEF pageVars, countVars
<1>7. QED BY <1>1, <1>3, <1>4, <1>5, <1>6

(***************************************************************************)
(* Types.                                                                  *)
(***************************************************************************)
LEMMA SameTyped ==
  /\ TableTyped /\ UNCHANGED <<setting, now, table, running>> => TableTyped'
  /\ PagesTyped /\ UNCHANGED <<phase, store, copy, view, whole, fresh>> => PagesTyped'
  /\ WiresTyped /\ UNCHANGED <<connected, up, down>> => WiresTyped'
  /\ CountsTyped /\ UNCHANGED <<setting, called, pending, pages, breaks, overlooked>> => CountsTyped'
<1>1. ASSUME TableTyped, UNCHANGED <<setting, now, table, running>> PROVE TableTyped'
  BY <1>1 DEF TableTyped
<1>2. ASSUME PagesTyped, UNCHANGED <<phase, store, copy, view, whole, fresh>> PROVE PagesTyped'
  BY <1>2 DEF PagesTyped
<1>3. ASSUME WiresTyped, UNCHANGED <<connected, up, down>> PROVE WiresTyped'
  BY <1>3 DEF WiresTyped
<1>4. ASSUME CountsTyped, UNCHANGED <<setting, called, pending, pages, breaks, overlooked>> PROVE CountsTyped'
  BY <1>4 DEF CountsTyped
<1>5. QED BY <1>1, <1>2, <1>3, <1>4

LEMMA AppendedTyped ==
  ASSUME WiresTyped, down' = [c \in Browser |-> down'[c]],
         \A c \in Browser :
           \/ down'[c] = down[c]
           \/ \E m \in ToPage : down'[c] = Append(down[c], m) /\ Unique(Told(m))
  PROVE  /\ down' \in [Browser -> Seq(ToPage)]
         /\ \A c \in Browser : \A i \in 1 .. Len(down'[c]) : Unique(Told(down'[c][i]))
<1>1. ASSUME NEW c \in Browser
      PROVE  down'[c] \in Seq(ToPage) /\ \A i \in 1 .. Len(down'[c]) : Unique(Told(down'[c][i]))
  <2>1. down[c] \in Seq(ToPage) /\ \A i \in 1 .. Len(down[c]) : Unique(Told(down[c][i]))
    BY DEF WiresTyped
  <2>2. CASE down'[c] = down[c]
    BY <2>1, <2>2
  <2>3. ASSUME NEW m \in ToPage, down'[c] = Append(down[c], m), Unique(Told(m))
        PROVE  down'[c] \in Seq(ToPage) /\ \A i \in 1 .. Len(down'[c]) : Unique(Told(down'[c][i]))
    <3>1. /\ down'[c] \in Seq(ToPage) /\ Len(down'[c]) = Len(down[c]) + 1 /\ Len(down[c]) \in Nat
          /\ down'[c][Len(down[c]) + 1] = m
          /\ \A i \in 1 .. Len(down[c]) : down'[c][i] = down[c][i]
      BY <2>1, <2>3, Appended
    <3>2. ASSUME NEW i \in 1 .. Len(down'[c]) PROVE Unique(Told(down'[c][i]))
      <4>1. i \in 1 .. Len(down[c]) \/ i = Len(down[c]) + 1
        BY <3>1
      <4>2. QED BY <2>1, <2>3, <3>1, <4>1
    <3>3. QED BY <3>1, <3>2
  <2>4. QED BY <2>2, <2>3
<1>2. down' \in [Browser -> Seq(ToPage)]
  BY <1>1
<1>3. QED BY <1>1, <1>2

LEMMA UpTyped ==
  ASSUME WiresTyped, NEW c \in Browser, NEW m \in ToServer,
         UNCHANGED <<connected, down>>, up' = [up EXCEPT ![c] = Append(up[c], m)]
  PROVE  WiresTyped'
<1>1. up[c] \in Seq(ToServer)
  BY DEF WiresTyped
<1>2. Append(up[c], m) \in Seq(ToServer)
  BY <1>1, Appended
<1>3. up' \in [Browser -> Seq(ToServer)]
  BY <1>2 DEF WiresTyped
<1>4. QED BY <1>3 DEF WiresTyped

LEMMA LostTyped ==
  ASSUME WiresTyped, NEW c \in Browser, Lost(c)
  PROVE  WiresTyped'
<1>1. /\ connected' = [connected EXCEPT ![c] = FALSE]
      /\ up' = [up EXCEPT ![c] = <<>>] /\ down' = [down EXCEPT ![c] = <<>>]
  BY DEF Lost
<1>2. <<>> \in Seq(ToServer) /\ <<>> \in Seq(ToPage) /\ Len(<<>>) = 0
  OBVIOUS
<1>3. connected' \in [Browser -> BOOLEAN]
  BY <1>1 DEF WiresTyped
<1>4. up' \in [Browser -> Seq(ToServer)]
  BY <1>1, <1>2 DEF WiresTyped
<1>5. down' \in [Browser -> Seq(ToPage)]
  BY <1>1, <1>2 DEF WiresTyped
<1>6. ASSUME NEW b \in Browser PROVE \A i \in 1 .. Len(down'[b]) : Unique(Told(down'[b][i]))
  <2>1. CASE b = c
    <3>1. down'[b] = <<>>
      BY <1>1, <2>1 DEF WiresTyped
    <3>2. QED BY <1>2, <3>1
  <2>2. CASE b /= c
    <3>1. down'[b] = down[b]
      BY <1>1, <2>2 DEF WiresTyped
    <3>2. QED BY <3>1 DEF WiresTyped
  <2>3. QED BY <2>1, <2>2
<1>7. QED BY <1>3, <1>4, <1>5, <1>6 DEF WiresTyped

LEMMA OrphanedTyped ==
  ASSUME TableTyped, NEW c, NEW page \in {"reconnected", "gone"}, Orphaned(c, page),
         UNCHANGED <<setting, now, table>>
  PROVE  TableTyped'
<1>1. ASSUME NEW a \in running
      PROVE  (IF a.call.client = c /\ a.page /= "gone" THEN [a EXCEPT !.page = page] ELSE a)
               \in [call : Call, page : {"connected", "reconnected", "gone"}]
  <2>1. a \in [call : Call, page : {"connected", "reconnected", "gone"}]
    BY DEF TableTyped
  <2>2. QED BY <2>1
<1>2. running' \subseteq [call : Call, page : {"connected", "reconnected", "gone"}]
  BY <1>1 DEF Orphaned
<1>3. QED BY <1>2 DEF TableTyped

LEMMA NowIs ==
  ASSUME TableTyped
  PROVE  now \in Nat \ {0} /\ setting.maxTime \in Nat
<1>1. setting.maxTime \in Nat
  BY SyncServerAssumption DEF TableTyped
<1>2. QED BY <1>1 DEF TableTyped

LEMMA AnswerIs ==
  ASSUME TableTyped, NEW from \in Nat
  PROVE  /\ AnswerSync(from) \in ToPage /\ AnswerSync(from).type = "sync"
         /\ Told(AnswerSync(from)) = {r \in table : r.deleted = 0 /\ r.updated > from}
         /\ Unique(Told(AnswerSync(from)))
<1>1. {r \in Live(table) : r.updated > from} \in SUBSET Live(Record)
  BY DEF TableTyped, Live
<1>2. AnswerSync(from) \in ToPage /\ AnswerSync(from).type = "sync"
  BY <1>1 DEF AnswerSync, ToPage
<1>3. Told(AnswerSync(from)) = {r \in table : r.deleted = 0 /\ r.updated > from}
  BY DEF AnswerSync, Told, Live
<1>4. QED BY <1>2, <1>3 DEF Unique, TableTyped

LEMMA ChangedTyped ==
  ASSUME TableTyped, NEW a \in running, NEW result \in SUBSET Record, Changes(a, result),
         running' = running \ {a}, UNCHANGED <<setting, now>>
  PROVE  TableTyped'
<1>1. table' = Put(table, result) /\ Unique(result) /\ Unique(table) /\ table \in SUBSET Record
  BY DEF Changes, TableTyped
<1>2. table' \subseteq Record /\ Unique(table')
  BY <1>1, UniquePut, PutTypes
<1>3. \A r \in table' : r.updated \in 1 .. now /\ r.deleted \in 0 .. now
  BY <1>1 DEF Changes, TableTyped, Put, Others
<1>4. QED BY <1>2, <1>3 DEF TableTyped

LEMMA MountTyped ==
  ASSUME Typed, NEW c \in Browser, Mount(c)
  PROVE  Typed'
<1>1. /\ phase' = [phase EXCEPT ![c] = "loading"]
      /\ pages[c] < setting.maxPages /\ pages' = [pages EXCEPT ![c] = @ + 1]
      /\ whole' = [whole EXCEPT ![c] = @ \/ store[c] = {}]
      /\ UNCHANGED <<setting, now, table, running, store, copy, view, fresh, connected, up, down,
                     called, breaks, pending, overlooked>>
  BY DEF Mount, serverVars, wireVars
<1>2. TableTyped' /\ WiresTyped'
  BY <1>1, SameTyped DEF Typed
<1>3. (whole[c] \/ store[c] = {}) \in BOOLEAN
  BY DEF Typed, PagesTyped
<1>4. PagesTyped'
  BY <1>1, <1>3 DEF Typed, PagesTyped
<1>5. setting.maxPages \in Nat
  BY SyncServerAssumption DEF Typed, TableTyped
<1>6. pages[c] + 1 \in 0 .. setting.maxPages
  BY <1>1, <1>5 DEF Typed, CountsTyped
<1>7. CountsTyped'
  BY <1>1, <1>6 DEF Typed, CountsTyped
<1>8. QED BY <1>2, <1>4, <1>7 DEF Typed

LEMMA TimesAre ==
  ASSUME Typed, NEW c \in Browser, DatedAt(c)
  PROVE  /\ store[c] \in SUBSET Record /\ copy[c] \in SUBSET Record /\ ToldBy(down[c]) \in SUBSET Record
         /\ \A r \in table : r \in Record /\ Time(r) \in 1 .. now
         /\ \A s \in store[c] \cup copy[c] \cup ToldBy(down[c]) : Time(s) \in 0 .. now
<1>1. store[c] \in SUBSET Record /\ copy[c] \in SUBSET Record /\ ToldBy(down[c]) \in SUBSET Record
  <2>1. down[c] \in Seq(ToPage)
    BY DEF Typed, WiresTyped
  <2>2. ToldBy(down[c]) \in SUBSET Record
    BY <2>1, ToldAre DEF ToldBy
  <2>3. QED BY <2>2 DEF Typed, PagesTyped
<1>2. now \in Nat
  BY NowIs DEF Typed
<1>3. ASSUME NEW r \in table PROVE r \in Record /\ Time(r) \in 1 .. now
  BY <1>2 DEF Typed, TableTyped, Time
<1>4. ASSUME NEW s \in store[c] \cup copy[c] \cup ToldBy(down[c]) PROVE Time(s) \in 0 .. now
  <2>1. PICK r \in table : Time(s) <= Time(r)
    BY DEF DatedAt
  <2>2. Time(s) \in Nat
    BY <1>1, RecordIs
  <2>3. QED BY <1>2, <1>3, <2>1, <2>2
<1>5. QED BY <1>1, <1>3, <1>4

LEMMA LoadedTyped ==
  ASSUME Typed, NEW c \in Browser, DatedAt(c), Loaded(c)
  PROVE  /\ Typed'
         /\ LastRecordTime(copy[c]) \in Nat
<1>1. /\ phase' = [phase EXCEPT ![c] = "asked"]
      /\ view' = [view EXCEPT ![c] = Live(copy[c])]
      /\ up' = [up EXCEPT ![c] = Append(@, [type |-> "sync", from |-> LastRecordTime(copy[c])])]
      /\ fresh' = [fresh EXCEPT ![c] = copy[c] = {}]
      /\ copy' = [copy EXCEPT ![c] = {}]
      /\ UNCHANGED <<setting, now, table, running, store, connected, down, pages, called, breaks,
                     pending, whole, overlooked>>
  BY DEF Loaded, serverVars, countVars
<1>2. TableTyped' /\ CountsTyped'
  BY <1>1, SameTyped DEF Typed
<1>3. copy[c] \in SUBSET Record /\ Unique(copy[c])
  BY DEF Typed, PagesTyped
<1>4. Live(copy[c]) \in SUBSET Live(Record) /\ Unique(Live(copy[c]))
  BY <1>3 DEF Live, Unique
<1>5. PagesTyped'
  <2>1. Unique({})
    BY DEF Unique
  <2>2. ASSUME NEW b \in Browser PROVE Unique(store'[b]) /\ Unique(copy'[b]) /\ Unique(view'[b])
    BY <1>1, <1>4, <2>1 DEF Typed, PagesTyped
  <2>3. /\ phase' \in [Browser -> {"away", "loading", "read", "asked"}]
        /\ store' \in [Browser -> SUBSET Record] /\ copy' \in [Browser -> SUBSET Record]
        /\ view' \in [Browser -> SUBSET Live(Record)]
        /\ whole' \in [Browser -> BOOLEAN] /\ fresh' \in [Browser -> BOOLEAN]
    BY <1>1, <1>4 DEF Typed, PagesTyped
  <2>4. QED BY <2>2, <2>3 DEF PagesTyped
<1> DEFINE m == [type |-> "sync", from |-> LastRecordTime(copy[c])]
<1>6. ASSUME LastRecordTime(copy[c]) \in Nat PROVE WiresTyped'
  <2>1. m \in ToServer
    BY <1>6 DEF ToServer
  <2>2. up' = [up EXCEPT ![c] = Append(up[c], m)]
    BY <1>1
  <2> HIDE DEF m
  <2>3. QED BY <1>1, <2>1, <2>2, UpTyped DEF Typed
<1>7. LastRecordTime(copy[c]) \in Nat
  <2>1. now \in Nat /\ copy[c] \in SUBSET Record /\ \A s \in copy[c] : Time(s) <= now
    BY NowIs, TimesAre DEF Typed
  <2>2. LastRecordTime(copy[c]) \in 0 .. now
    BY <2>1, LastTimeIs
  <2>3. QED BY <2>2
<1>8. QED BY <1>2, <1>5, <1>6, <1>7 DEF Typed

LEMMA ReceiveTyped ==
  ASSUME Typed, NEW c \in Browser, PageReceives(c)
  PROVE  Typed'
<1> DEFINE h == down[c][1]
<1>1. /\ down[c] /= <<>> /\ down' = [down EXCEPT ![c] = Tail(down[c])]
      /\ UNCHANGED <<setting, now, table, running, phase, copy, fresh, connected, up,
                     pages, called, breaks, whole, overlooked>>
      /\ \/ UNCHANGED <<view, store, pending>>
         \/ Received(c, h)
  BY ReceiveIs
<1>2. /\ down[c] \in Seq(ToPage) /\ h \in ToPage
      /\ Told(h) \in SUBSET Record /\ Unique(Told(h))
  BY <1>1, HeadIs
<1> HIDE DEF h
<1>3. TableTyped'
  BY <1>1, SameTyped DEF Typed
<1>4. WiresTyped'
  <2>1. /\ Tail(down[c]) \in Seq(ToPage) /\ Len(Tail(down[c])) = Len(down[c]) - 1 /\ Len(down[c]) \in Nat
        /\ \A i \in 1 .. Len(down[c]) - 1 : Tail(down[c])[i] = down[c][i + 1]
    BY <1>1, <1>2, Shortened
  <2>2. down' \in [Browser -> Seq(ToPage)]
    BY <1>1, <2>1 DEF Typed, WiresTyped
  <2>3. ASSUME NEW b \in Browser, NEW i \in 1 .. Len(down'[b]) PROVE Unique(Told(down'[b][i]))
    <3>1. CASE b = c
      <4>1. down'[b] = Tail(down[c])
        BY <1>1, <3>1 DEF Typed, WiresTyped
      <4>2. i + 1 \in 1 .. Len(down[c]) /\ down'[b][i] = down[c][i + 1]
        BY <2>1, <4>1
      <4>3. QED BY <4>2 DEF Typed, WiresTyped
    <3>2. CASE b /= c
      <4>1. down'[b] = down[b]
        BY <1>1, <3>2 DEF Typed, WiresTyped
      <4>2. QED BY <4>1 DEF Typed, WiresTyped
    <3>3. QED BY <3>1, <3>2
  <2>4. QED BY <1>1, <2>2, <2>3 DEF Typed, WiresTyped
<1>5. PagesTyped' /\ CountsTyped'
  <2>1. CASE UNCHANGED <<view, store, pending>>
    BY <1>1, <2>1, SameTyped DEF Typed
  <2>2. CASE Received(c, h)
    <3>1. /\ view' = [view EXCEPT ![c] = Shown(view[c], Told(h))]
          /\ store' = [store EXCEPT ![c] = Put(store[c], Told(h))]
          /\ pending' = pending \/ pending' = [pending EXCEPT ![c] = pending[c] \ {h.n}]
      BY <2>2 DEF Received
    <3>2. /\ store[c] \in SUBSET Record /\ view[c] \in SUBSET Live(Record)
          /\ Unique(store[c]) /\ Unique(view[c])
      BY DEF Typed, PagesTyped
    <3>3. /\ Put(store[c], Told(h)) \in SUBSET Record
          /\ Shown(view[c], Told(h)) \in SUBSET Live(Record)
          /\ Unique(Put(store[c], Told(h))) /\ Unique(Shown(view[c], Told(h)))
      BY <1>2, <3>2, PutTypes, ShownTypes, UniquePut
    <3>4. PagesTyped'
      BY <1>1, <3>1, <3>3 DEF Typed, PagesTyped
    <3>5. pending' \in [Browser -> SUBSET (1 .. called)]
      BY <3>1 DEF Typed, CountsTyped
    <3>6. CountsTyped'
      BY <1>1, <3>5 DEF Typed, CountsTyped
    <3>7. QED BY <3>4, <3>6
  <2>3. QED BY <1>1, <2>1, <2>2
<1>6. QED BY <1>3, <1>4, <1>5 DEF Typed

(* Which request the server takes, and what comes of it. *)
LEMMA ServerReceivesIs ==
  ASSUME Typed, NEW c \in Browser, ServerReceives(c)
  PROVE  /\ connected[c] /\ up[c] /= <<>> /\ up[c] \in Seq(ToServer) /\ up[c][1] \in ToServer
         /\ up' = [up EXCEPT ![c] = Tail(up[c])]
         /\ \/ /\ up[c][1].type = "sync" /\ up[c][1].from \in Nat
               /\ down' = [down EXCEPT ![c] = Append(down[c], AnswerSync(up[c][1].from))]
               /\ running' = running
            \/ /\ up[c][1].type = "action" /\ up[c][1].call \in Call
               /\ running' = running \cup {[call |-> up[c][1].call, page |-> "connected"]}
               /\ down' = down
         /\ UNCHANGED <<setting, now, table, phase, store, copy, view, fresh, connected,
                        pages, called, breaks, pending, whole, overlooked>>
<1>1. /\ connected[c] /\ up[c] /= <<>> /\ up' = [up EXCEPT ![c] = Tail(up[c])]
      /\ UNCHANGED <<setting, now, table, phase, store, copy, view, fresh, connected,
                     pages, called, breaks, pending, whole, overlooked>>
  BY DEF ServerReceives, pageVars, countVars
<1>2. up[c] \in Seq(ToServer) /\ Head(up[c]) = up[c][1] /\ up[c][1] \in ToServer
  <2>1. up[c] \in Seq(ToServer)
    BY DEF Typed, WiresTyped
  <2>2. QED BY <1>1, <2>1, Shortened
<1>3. /\ up[c][1].type = "sync" => up[c][1].from \in Nat
      /\ up[c][1].type = "action" => up[c][1].call \in Call
  BY <1>2, RequestIs
<1>4. QED BY <1>1, <1>2, <1>3 DEF ServerReceives

LEMMA ServerReceivesTyped ==
  ASSUME Typed, NEW c \in Browser, ServerReceives(c)
  PROVE  Typed'
<1>1. /\ up[c] /= <<>> /\ up[c] \in Seq(ToServer)
      /\ up' = [up EXCEPT ![c] = Tail(up[c])]
      /\ \/ /\ up[c][1].type = "sync" /\ up[c][1].from \in Nat
            /\ down' = [down EXCEPT ![c] = Append(down[c], AnswerSync(up[c][1].from))]
            /\ running' = running
         \/ /\ up[c][1].type = "action" /\ up[c][1].call \in Call
            /\ running' = running \cup {[call |-> up[c][1].call, page |-> "connected"]}
            /\ down' = down
      /\ UNCHANGED <<setting, now, table, phase, store, copy, view, fresh, connected,
                     pages, called, breaks, pending, whole, overlooked>>
  BY ServerReceivesIs
<1>2. PagesTyped' /\ CountsTyped'
  BY <1>1, SameTyped DEF Typed
<1>3. TableTyped'
  BY <1>1 DEF Typed, TableTyped
<1>4. up' \in [Browser -> Seq(ToServer)]
  <2>1. Tail(up[c]) \in Seq(ToServer)
    BY <1>1, Shortened
  <2>2. QED BY <1>1, <2>1 DEF Typed, WiresTyped
<1>5. /\ down' = [b \in Browser |-> down'[b]]
      /\ \A b \in Browser :
           \/ down'[b] = down[b]
           \/ \E m \in ToPage : down'[b] = Append(down[b], m) /\ Unique(Told(m))
  <2>1. CASE down' = down
    BY <2>1 DEF Typed, WiresTyped
  <2>2. CASE /\ up[c][1].from \in Nat
             /\ down' = [down EXCEPT ![c] = Append(down[c], AnswerSync(up[c][1].from))]
    <3>1. AnswerSync(up[c][1].from) \in ToPage /\ Unique(Told(AnswerSync(up[c][1].from)))
      BY <2>2, AnswerIs DEF Typed
    <3>2. QED BY <2>2, <3>1 DEF Typed, WiresTyped
  <2>3. QED BY <1>1, <2>1, <2>2
<1>6. WiresTyped'
  <2>1. down' \in [Browser -> Seq(ToPage)]
        /\ \A b \in Browser : \A i \in 1 .. Len(down'[b]) : Unique(Told(down'[b][i]))
    BY <1>5, AppendedTyped DEF Typed
  <2>2. QED BY <1>1, <1>4, <2>1 DEF Typed, WiresTyped
<1>7. QED BY <1>2, <1>3, <1>6 DEF Typed

LEMMA CallActionIs ==
  ASSUME Typed, NEW c \in Browser, CallAction(c)
  PROVE  /\ phase[c] /= "away" /\ called + 1 \in 1 .. MaxCalls /\ called' = called + 1
         /\ \E m \in ToServer :
              /\ m.type = "action" /\ m.call.n = called + 1 /\ m.call.client = c
              /\ up' = [up EXCEPT ![c] = Append(up[c], m)]
         /\ pending' = [pending EXCEPT ![c] = pending[c] \cup {called + 1}]
         /\ UNCHANGED <<setting, now, table, running, phase, store, copy, view, fresh, connected, down,
                        pages, breaks, whole, overlooked>>
<1>1. /\ phase[c] /= "away" /\ called < MaxCalls /\ called' = called + 1
      /\ pending' = [pending EXCEPT ![c] = pending[c] \cup {called + 1}]
      /\ UNCHANGED <<setting, now, table, running, phase, store, copy, view, fresh, connected, down,
                     pages, breaks, whole, overlooked>>
  BY DEF CallAction, serverVars, pageVars
<1>2. PICK kind \in {"create", "update", "delete"}, id \in Id :
        up' = [up EXCEPT ![c] = Append(@, [type |-> "action",
                call |-> [kind |-> kind, id |-> id, n |-> called + 1, client |-> c]])]
  BY DEF CallAction
<1>3. called + 1 \in 1 .. MaxCalls
  BY <1>1, SyncServerAssumption DEF Typed, CountsTyped
<1> DEFINE m == [type |-> "action", call |-> [kind |-> kind, id |-> id, n |-> called + 1, client |-> c]]
<1>4. m \in ToServer /\ m.type = "action" /\ m.call.n = called + 1 /\ m.call.client = c
  BY <1>3 DEF ToServer, Call
<1>5. up' = [up EXCEPT ![c] = Append(up[c], m)]
  BY <1>2
<1> HIDE DEF m
<1>6. QED BY <1>1, <1>3, <1>4, <1>5

LEMMA CallActionTyped ==
  ASSUME Typed, NEW c \in Browser, CallAction(c)
  PROVE  Typed'
<1>1. /\ called + 1 \in 1 .. MaxCalls /\ called' = called + 1
      /\ pending' = [pending EXCEPT ![c] = pending[c] \cup {called + 1}]
      /\ UNCHANGED <<setting, now, table, running, phase, store, copy, view, fresh, connected, down,
                     pages, breaks, whole, overlooked>>
  BY CallActionIs
<1>2. TableTyped' /\ PagesTyped'
  BY <1>1, SameTyped DEF Typed
<1>3. PICK m \in ToServer : up' = [up EXCEPT ![c] = Append(up[c], m)]
  BY CallActionIs
<1>4. WiresTyped'
  BY <1>1, <1>3, UpTyped DEF Typed
<1>5. called \in Nat /\ called' \in 0 .. MaxCalls
  BY <1>1, SyncServerAssumption DEF Typed, CountsTyped
<1>6. pending' \in [Browser -> SUBSET (1 .. called')]
  <2>1. ASSUME NEW b \in Browser PROVE pending'[b] \in SUBSET (1 .. called + 1)
    <3>1. pending[b] \in SUBSET (1 .. called)
      BY DEF Typed, CountsTyped
    <3>2. pending[b] \in SUBSET (1 .. called + 1) /\ called + 1 \in 1 .. called + 1
      BY <1>5, <3>1
    <3>3. pending'[b] = IF b = c THEN pending[b] \cup {called + 1} ELSE pending[b]
      BY <1>1 DEF Typed, CountsTyped
    <3>4. QED BY <3>2, <3>3
  <2>2. pending' = [b \in Browser |-> pending'[b]]
    BY <1>1 DEF Typed, CountsTyped
  <2>3. QED BY <1>1, <2>1, <2>2
<1>7. CountsTyped'
  BY <1>1, <1>5, <1>6 DEF Typed, CountsTyped
<1>8. QED BY <1>2, <1>4, <1>7 DEF Typed

LEMMA LeavingTyped ==
  ASSUME Typed, NEW c \in Browser, Break(c) \/ Leave(c)
  PROVE  Typed'
<1>1. Lost(c) /\ UNCHANGED <<setting, now, table, store, fresh, pages, called>>
  BY DEF Break, Leave, pageVars, countVars
<1>2. WiresTyped'
  BY <1>1, LostTyped DEF Typed
<1>3. TableTyped'
  <2>1. Orphaned(c, "reconnected") \/ Orphaned(c, "gone")
    BY DEF Break, Leave
  <2>2. QED BY <1>1, <2>1, OrphanedTyped DEF Typed
<1>4. PagesTyped' /\ CountsTyped'
  <2>1. CASE Break(c)
    <3>1. /\ breaks < setting.breaks /\ breaks' = breaks + 1
          /\ whole' = [whole EXCEPT ![c] = FALSE]
          /\ UNCHANGED <<phase, store, copy, view, fresh, pages, called, pending, overlooked>>
      BY <2>1 DEF Break, pageVars
    <3>2. setting.breaks \in Nat
      BY SyncServerAssumption DEF Typed, TableTyped
    <3>3. breaks' \in 0 .. setting.breaks
      BY <3>1, <3>2 DEF Typed, CountsTyped
    <3>4. QED BY <1>1, <3>1, <3>3 DEF Typed, PagesTyped, CountsTyped
  <2>2. CASE Leave(c)
    <3>1. /\ phase' = [phase EXCEPT ![c] = "away"]
          /\ view' = [view EXCEPT ![c] = {}] /\ copy' = [copy EXCEPT ![c] = {}]
          /\ pending' = [pending EXCEPT ![c] = {}]
          /\ UNCHANGED <<store, fresh, pages, called, breaks, whole, overlooked>>
      BY <2>2 DEF Leave, countVars
    <3>2. Unique({})
      BY DEF Unique
    <3>3. PagesTyped'
      BY <3>1, <3>2 DEF Typed, PagesTyped
    <3>4. CountsTyped'
      BY <1>1, <3>1 DEF Typed, CountsTyped
    <3>5. QED BY <3>3, <3>4
  <2>3. QED BY <2>1, <2>2
<1>5. QED BY <1>2, <1>3, <1>4 DEF Typed

LEMMA OtherTyped ==
  ASSUME Typed, NEW c \in Browser, GetAll(c) \/ CallTimesOut(c) \/ Connects(c)
  PROVE  Typed'
<1>1. CASE GetAll(c)
  <2>1. /\ phase' = [phase EXCEPT ![c] = "read"] /\ copy' = [copy EXCEPT ![c] = store[c]]
        /\ UNCHANGED <<setting, now, table, running, store, view, fresh, connected, up, down,
                       pages, called, breaks, pending, whole, overlooked>>
    BY <1>1 DEF GetAll, serverVars, wireVars, countVars
  <2>2. TableTyped' /\ WiresTyped' /\ CountsTyped'
    BY <2>1, SameTyped DEF Typed
  <2>3. PagesTyped'
    BY <2>1 DEF Typed, PagesTyped
  <2>4. QED BY <2>2, <2>3 DEF Typed
<1>2. CASE CallTimesOut(c)
  <2>1. /\ \E n \in pending[c] : pending' = [pending EXCEPT ![c] = @ \ {n}]
        /\ whole' = [whole EXCEPT ![c] = FALSE]
        /\ UNCHANGED <<setting, now, table, running, phase, store, copy, view, fresh, connected, up, down,
                       pages, called, breaks, overlooked>>
    BY <1>2 DEF CallTimesOut, serverVars, pageVars, wireVars, countVars
  <2>2. TableTyped' /\ WiresTyped'
    BY <2>1, SameTyped DEF Typed
  <2>3. PagesTyped'
    BY <2>1 DEF Typed, PagesTyped
  <2>4. CountsTyped'
    BY <2>1 DEF Typed, CountsTyped
  <2>5. QED BY <2>2, <2>3, <2>4 DEF Typed
<1>3. CASE Connects(c)
  <2>1. /\ connected' = [connected EXCEPT ![c] = TRUE]
        /\ UNCHANGED <<setting, now, table, running, phase, store, copy, view, fresh, up, down,
                       pages, called, breaks, pending, whole, overlooked>>
    BY <1>3 DEF Connects, serverVars, pageVars, countVars
  <2>2. TableTyped' /\ PagesTyped' /\ CountsTyped'
    BY <2>1, SameTyped DEF Typed
  <2>3. WiresTyped'
    BY <2>1 DEF Typed, WiresTyped
  <2>4. QED BY <2>2, <2>3 DEF Typed
<1>4. QED BY <1>1, <1>2, <1>3

LEMMA ServerTyped ==
  ASSUME Typed, ActionDone \/ ActionThrows \/ Tick
  PROVE  Typed'
<1>1. CASE ActionDone
  <2>1. PICK a \in running, result \in SUBSET Record :
          /\ Changes(a, result) /\ running' = running \ {a}
          /\ down' = [c \in Browser |-> down'[c]]
          /\ \A c \in Browser : Hears(c, a, result)
          /\ overlooked' = [c \in Browser |-> overlooked[c] \cup Overlooks(c, result)]
          /\ UNCHANGED <<setting, now, phase, store, copy, view, fresh, connected, up,
                         pages, called, breaks, pending, whole>>
    BY <1>1, ActionIs
  <2>2. PagesTyped' /\ CountsTyped'
    <3>1. \A c : Overlooks(c, result) \in SUBSET (1 .. MaxCalls)
      BY <2>1 DEF Overlooks, Versions, Live, Record, Typed, TableTyped
    <3>2. overlooked' \in [Browser -> SUBSET (1 .. MaxCalls)]
      BY <2>1, <3>1 DEF Typed, CountsTyped
    <3>3. PagesTyped'
      BY <2>1, SameTyped DEF Typed
    <3>4. QED BY <2>1, <3>2, <3>3 DEF Typed, CountsTyped
  <2>3. TableTyped'
    BY <2>1, ChangedTyped DEF Typed
  <2>4. \A c \in Browser :
           \/ down'[c] = down[c]
           \/ \E m \in ToPage : down'[c] = Append(down[c], m) /\ Unique(Told(m))
    BY <2>1 DEF Hears, Changes
  <2>5. down' \in [Browser -> Seq(ToPage)]
        /\ \A c \in Browser : \A i \in 1 .. Len(down'[c]) : Unique(Told(down'[c][i]))
    BY <2>1, <2>4, AppendedTyped DEF Typed
  <2>6. WiresTyped'
    BY <2>1, <2>5 DEF Typed, WiresTyped
  <2>7. QED BY <2>2, <2>3, <2>6 DEF Typed
<1>2. CASE ActionThrows
  <2>1. PICK a \in running :
          /\ running' = running \ {a}
          /\ down' = [c \in Browser |-> down'[c]]
          /\ \A c \in Browser :
               \/ down'[c] = down[c]
               \/ \E m \in ToPage : down'[c] = Append(down[c], m) /\ Told(m) = {}
          /\ UNCHANGED <<setting, now, table, phase, store, copy, view, fresh, connected, up,
                         pages, called, breaks, pending, whole, overlooked>>
    BY <1>2, ThrowIs
  <2>2. PagesTyped' /\ CountsTyped'
    BY <2>1, SameTyped DEF Typed
  <2>3. TableTyped'
    BY <2>1 DEF Typed, TableTyped
  <2>4. Unique({})
    BY DEF Unique
  <2>5. down' \in [Browser -> Seq(ToPage)]
        /\ \A c \in Browser : \A i \in 1 .. Len(down'[c]) : Unique(Told(down'[c][i]))
    BY <2>1, <2>4, AppendedTyped DEF Typed
  <2>6. WiresTyped'
    BY <2>1, <2>5 DEF Typed, WiresTyped
  <2>7. QED BY <2>2, <2>3, <2>6 DEF Typed
<1>3. CASE Tick
  <2>1. /\ now < setting.maxTime /\ now' = now + 1
        /\ UNCHANGED <<setting, table, running, phase, store, copy, view, fresh, connected, up, down,
                       pages, called, breaks, pending, whole, overlooked>>
    BY <1>3 DEF Tick, pageVars, wireVars, countVars
  <2>2. PagesTyped' /\ WiresTyped' /\ CountsTyped'
    BY <2>1, SameTyped DEF Typed
  <2>3. now \in Nat \ {0} /\ setting.maxTime \in Nat
    BY NowIs DEF Typed
  <2>4. now' \in 1 .. setting.maxTime /\ \A r \in table : r.updated \in 1 .. now' /\ r.deleted \in 0 .. now'
    BY <2>1, <2>3 DEF Typed, TableTyped
  <2>5. TableTyped'
    BY <2>1, <2>4 DEF Typed, TableTyped
  <2>6. QED BY <2>2, <2>5 DEF Typed
<1>4. QED BY <1>1, <1>2, <1>3

(***************************************************************************)
(* Each page by itself.                                                    *)
(***************************************************************************)
PageStep(b) ==
  \/ Mount(b) \/ GetAll(b) \/ Loaded(b) \/ Leave(b)
  \/ CallAction(b) \/ CallTimesOut(b)
  \/ PageReceives(b) \/ ServerReceives(b)
  \/ Connects(b) \/ Break(b)

LEMMA OrphanedOwn ==
  ASSUME NEW b, NEW c, NEW page, Orphaned(b, page), TableTyped
  PROVE  /\ b /= c => Own(c)' = Own(c)
         /\ b = c => Own(c)' = {IF a.page /= "gone" THEN [a EXCEPT !.page = page] ELSE a : a \in Own(c)}
<1> DEFINE Moved(a) == IF a.call.client = b /\ a.page /= "gone" THEN [a EXCEPT !.page = page] ELSE a
<1>1. running' = {Moved(a) : a \in running}
  BY DEF Orphaned
<1>2. \A a \in running : /\ Moved(a).call = a.call
                         /\ a.call.client /= b => Moved(a) = a
                         /\ a.call.client = b =>
                              Moved(a) = IF a.page /= "gone" THEN [a EXCEPT !.page = page] ELSE a
  BY DEF TableTyped
<1> HIDE DEF Moved
<1>3. ASSUME b /= c PROVE Own(c)' = Own(c)
  <2>1. ASSUME NEW a \in Own(c) PROVE a \in Own(c)'
    BY <1>1, <1>2, <1>3 DEF Own
  <2>2. ASSUME NEW d \in Own(c)' PROVE d \in Own(c)
    <3>1. PICK a \in running : d = Moved(a) /\ d.call.client = c
      BY <1>1 DEF Own
    <3>2. a.call.client = c /\ d = a
      BY <1>2, <1>3, <3>1
    <3>3. QED BY <3>1, <3>2 DEF Own
  <2>3. QED BY <2>1, <2>2
<1>4. ASSUME b = c
      PROVE  Own(c)' = {IF a.page /= "gone" THEN [a EXCEPT !.page = page] ELSE a : a \in Own(c)}
  <2>1. Own(c)' = {Moved(a) : a \in Own(c)}
    BY <1>1, <1>2, <1>4 DEF Own
  <2>2. QED BY <1>2, <1>4, <2>1 DEF Own
<1>5. QED BY <1>3, <1>4

LEMMA Elsewhere ==
  ASSUME Typed, NEW b \in Browser, PageInv(b), PageStep(b), NEW c \in Browser, c /= b
  PROVE  Same(c)
<1>1. CASE Mount(b)
  BY <1>1 DEF Mount, Same, Own, serverVars, wireVars, Typed, PagesTyped
<1>2. CASE GetAll(b)
  BY <1>2 DEF GetAll, Same, Own, serverVars, wireVars, countVars, Typed, PagesTyped
<1>3. CASE Loaded(b)
  BY <1>3 DEF Loaded, Same, Own, serverVars, countVars, Typed, PagesTyped, WiresTyped
<1>4. CASE CallAction(b)
  <2>1. PICK m \in ToServer : up' = [up EXCEPT ![b] = Append(up[b], m)]
    BY <1>4, CallActionIs
  <2>2. /\ pending' = [pending EXCEPT ![b] = pending[b] \cup {called + 1}]
        /\ UNCHANGED <<setting, now, table, running, phase, store, copy, view, fresh, connected, down,
                       pages, breaks, whole, overlooked>>
    BY <1>4, CallActionIs
  <2>3. QED BY <2>1, <2>2 DEF Same, Own, Typed, WiresTyped, CountsTyped
<1>5. CASE CallTimesOut(b)
  BY <1>5 DEF CallTimesOut, Same, Own, serverVars, pageVars, wireVars, Typed, PagesTyped, CountsTyped
<1>6. CASE PageReceives(b)
  <2>1. /\ down' = [down EXCEPT ![b] = Tail(down[b])]
        /\ UNCHANGED <<setting, now, table, running, phase, copy, fresh, connected, up,
                       pages, called, breaks, whole, overlooked>>
        /\ \/ UNCHANGED <<view, store, pending>>
           \/ Received(b, down[b][1])
    BY <1>6, ReceiveIs
  <2>2. view'[c] = view[c] /\ store'[c] = store[c] /\ pending'[c] = pending[c]
    BY <2>1 DEF Received, Typed, PagesTyped, CountsTyped
  <2>3. QED BY <2>1, <2>2 DEF Same, Own, Typed, WiresTyped
<1>7. CASE ServerReceives(b)
  <2>1. /\ up[b] /= <<>> /\ up[b] \in Seq(ToServer)
        /\ up' = [up EXCEPT ![b] = Tail(up[b])]
        /\ \/ /\ down' = [down EXCEPT ![b] = Append(down[b], AnswerSync(up[b][1].from))]
              /\ running' = running
           \/ /\ up[b][1].type = "action"
              /\ running' = running \cup {[call |-> up[b][1].call, page |-> "connected"]}
              /\ down' = down
        /\ UNCHANGED <<setting, now, table, phase, store, copy, view, fresh, connected,
                       pages, called, breaks, pending, whole, overlooked>>
    BY <1>7, ServerReceivesIs
  <2>2. ActionsOf(up[b], b)
    BY DEF PageInv, PageAt
  <2>3. up[b][1].type = "action" => up[b][1].call.client = b
    BY <2>1, <2>2, RequestsTail
  <2>4. Own(c)' = Own(c)
    BY <2>1, <2>3 DEF Own
  <2>5. up'[c] = up[c] /\ down'[c] = down[c]
    BY <2>1 DEF Typed, WiresTyped
  <2>6. QED BY <2>1, <2>4, <2>5 DEF Same
<1>8. CASE Connects(b)
  BY <1>8 DEF Connects, Same, Own, serverVars, pageVars, countVars, Typed, WiresTyped
<1>9. CASE Break(b)
  <2>1. Own(c)' = Own(c)
    BY <1>9, OrphanedOwn DEF Break, Typed
  <2>2. QED BY <1>9, <2>1 DEF Break, Lost, Same, pageVars, Typed, PagesTyped, WiresTyped
<1>10. CASE Leave(b)
  <2>1. Own(c)' = Own(c)
    BY <1>10, OrphanedOwn DEF Leave, Typed
  <2>2. QED BY <1>10, <2>1 DEF Leave, Lost, Same, countVars, Typed, PagesTyped, WiresTyped, CountsTyped
<1>11. QED BY <1>1, <1>2, <1>3, <1>4, <1>5, <1>6, <1>7, <1>8, <1>9, <1>10 DEF PageStep

LEMMA NothingTold ==
  ToldBy(<<>>) = {} /\ Agreeing(<<>>, table) /\ \A records, r : Steady(records, <<>>, r)
BY DEF ToldBy, Agreeing, Steady

(* A page begins. *)
LEMMA MountAt ==
  ASSUME Typed, NEW c \in Browser, PageInv(c), Mount(c)
  PROVE  PageInv(c)'
<1>1. /\ phase[c] = "away" /\ phase'[c] = "loading"
      /\ whole'[c] = (whole[c] \/ store[c] = {})
      /\ Own(c)' = Own(c)
      /\ UNCHANGED <<setting, now, table, store, copy, view, fresh, connected, up, down, pending,
                     overlooked>>
  BY DEF Mount, Own, serverVars, wireVars, Typed, PagesTyped
<1>2. /\ ~connected[c] /\ up[c] = <<>> /\ down[c] = <<>> /\ \A a \in Own(c) : a.page = "gone"
  BY <1>1 DEF PageInv, PageAt
<1>3. ~Asking(<<>>) /\ AskOnce(<<>>) /\ ActionsOf(<<>>, c) /\ \A t : AskFrom(<<>>, t)
  BY DEF Asking, AskOnce, ActionsOf, AskFrom
<1>4. DatedAt(c)'
  BY <1>1 DEF PageInv, DatedAt
<1>5. PageAt(c)'
  BY <1>1, <1>2, <1>3 DEF PageAt, Asks
<1>6. AwaitingAt(c)'
  <2>1. \A n \in 1 .. MaxCalls : Runs(c, n)' = {}
    BY <1>1, <1>2 DEF Runs
  <2>2. QED BY <1>1, <1>2, <2>1, NumbersNone DEF AwaitingAt
<1>7. AgreesAt(c)'
  BY <1>1, <1>2, NothingTold DEF AgreesAt
<1>8. FirstAt(c)'
  BY <1>1 DEF FirstAt
<1>9. LaterAt(c)'
  <2>1. PICK t \in Nat : LaterFrom(c, t)
    BY DEF PageInv, LaterAt
  <2>2. Sure(c)' = Sure(c)
    BY <1>1 DEF Sure
  <2>3. ASSUME whole'[c], NEW r \in Sure(c) PROVE SureAt(c, r, t)'
    <3>1. CASE store[c] = {}
      BY <1>1, <1>2, <3>1 DEF SureAt, Steady, Reached
    <3>2. CASE whole[c]
      <4>1. SureAt(c, r, t)
        BY <2>1, <2>3, <3>2 DEF LaterFrom
      <4>2. QED BY <1>1, <4>1 DEF SureAt
    <3>3. QED BY <1>1, <2>3, <3>1, <3>2
  <2>4. LaterFrom(c, t)'
    BY <1>1, <2>1, <2>2, <2>3 DEF LaterFrom
  <2>5. QED BY <2>4 DEF LaterAt
<1>10. QED BY <1>4, <1>5, <1>6, <1>7, <1>8, <1>9 DEF PageInv

LEMMA GetAllAt ==
  ASSUME Typed, NEW c \in Browser, PageInv(c), GetAll(c)
  PROVE  PageInv(c)'
<1>1. /\ phase[c] = "loading" /\ phase'[c] = "read" /\ copy'[c] = store[c] /\ Own(c)' = Own(c)
      /\ UNCHANGED <<setting, now, table, store, view, fresh, connected, up, down, pending, whole, overlooked>>
  BY DEF GetAll, Own, serverVars, wireVars, countVars, Typed, PagesTyped
<1>2. DatedAt(c)'
  BY <1>1 DEF PageInv, DatedAt
<1>3. PageAt(c)'
  BY <1>1 DEF PageInv, PageAt, Asks
<1>4. AwaitingAt(c)'
  BY <1>1 DEF PageInv, AwaitingAt, Runs
<1>5. AgreesAt(c)'
  BY <1>1 DEF PageInv, AgreesAt
<1>6. FirstAt(c)'
  BY <1>1 DEF FirstAt
<1>7. LaterAt(c)'
  <2>1. PICK t \in Nat : LaterFrom(c, t)
    BY DEF PageInv, LaterAt
  <2>2. Sure(c)' = Sure(c)
    BY <1>1 DEF Sure
  <2>3. ASSUME whole[c], NEW r \in Sure(c) PROVE SureAt(c, r, t)'
    <3>1. SureAt(c, r, t)
      BY <2>1, <2>3 DEF LaterFrom
    <3>2. r \in store[c] \/ \A s \in store[c] : Time(s) < r.updated
      BY <3>1 DEF SureAt, Reached
    <3>3. QED BY <1>1, <3>1, <3>2 DEF SureAt, Kept
  <2>4. LaterFrom(c, t)'
    BY <1>1, <2>1, <2>2, <2>3 DEF LaterFrom
  <2>5. QED BY <2>4 DEF LaterAt
<1>8. QED BY <1>2, <1>3, <1>4, <1>5, <1>6, <1>7 DEF PageInv

LEMMA ConnectsAt ==
  ASSUME Typed, NEW c \in Browser, PageInv(c), Connects(c)
  PROVE  PageInv(c)'
<1>1. /\ phase[c] /= "away" /\ ~connected[c] /\ connected'[c] = TRUE /\ Own(c)' = Own(c)
      /\ UNCHANGED <<setting, now, table, phase, store, copy, view, fresh, up, down, pending, whole, overlooked>>
  BY DEF Connects, Own, serverVars, pageVars, countVars, Typed, WiresTyped
<1>2. DatedAt(c)'
  BY <1>1 DEF PageInv, DatedAt
<1>3. PageAt(c)'
  BY <1>1 DEF PageInv, PageAt, Asks
<1>4. AwaitingAt(c)'
  BY <1>1 DEF PageInv, AwaitingAt, Runs
<1>5. AgreesAt(c)'
  BY <1>1 DEF PageInv, AgreesAt
<1>6. FirstAt(c)'
  BY <1>1 DEF PageInv, FirstAt, Asks
<1>7. LaterAt(c)'
  <2>1. PICK t \in Nat : LaterFrom(c, t)
    BY DEF PageInv, LaterAt
  <2>2. \A r : (r \in Sure(c)' <=> r \in Sure(c)) /\ (SureAt(c, r, t) => SureAt(c, r, t)')
    BY <1>1 DEF Sure, SureAt, Kept, Shows, Asks
  <2>3. LaterFrom(c, t)'
    BY <1>1, <2>1, <2>2 DEF LaterFrom
  <2>4. QED BY <2>3 DEF LaterAt
<1>8. QED BY <1>2, <1>3, <1>4, <1>5, <1>6, <1>7 DEF PageInv

LEMMA CallTimesOutAt ==
  ASSUME Typed, NEW c \in Browser, PageInv(c), CallTimesOut(c)
  PROVE  PageInv(c)'
<1>1. /\ whole'[c] = FALSE /\ Own(c)' = Own(c)
      /\ UNCHANGED <<setting, now, table, phase, store, copy, view, fresh, connected, up, down, overlooked>>
  BY DEF CallTimesOut, Own, serverVars, pageVars, wireVars, countVars, Typed, PagesTyped
<1>2. DatedAt(c)'
  BY <1>1 DEF PageInv, DatedAt
<1>3. PageAt(c)'
  BY <1>1 DEF PageInv, PageAt, Asks
<1>4. AwaitingAt(c)' /\ AgreesAt(c)' /\ FirstAt(c)'
  BY <1>1 DEF AwaitingAt, AgreesAt, FirstAt
<1>5. LaterAt(c)'
  <2>1. PICK t \in Nat : LaterFrom(c, t)
    BY DEF PageInv, LaterAt
  <2>2. LaterFrom(c, t)'
    BY <1>1, <2>1 DEF LaterFrom
  <2>3. QED BY <2>2 DEF LaterAt
<1>6. QED BY <1>2, <1>3, <1>4, <1>5 DEF PageInv

LEMMA NothingSent ==
  ~Asking(<<>>) /\ AskOnce(<<>>) /\ \A c, t : ActionsOf(<<>>, c) /\ AskFrom(<<>>, t)
BY DEF Asking, AskOnce, ActionsOf, AskFrom

LEMMA LostAt ==
  ASSUME Typed, NEW c \in Browser, Lost(c)
  PROVE  connected'[c] = FALSE /\ up'[c] = <<>> /\ down'[c] = <<>>
BY DEF Lost, Typed, WiresTyped

LEMMA BreakAt ==
  ASSUME Typed, NEW c \in Browser, PageInv(c), Break(c)
  PROVE  PageInv(c)'
<1>1. /\ connected[c] /\ connected'[c] = FALSE /\ up'[c] = <<>> /\ down'[c] = <<>> /\ whole'[c] = FALSE
      /\ UNCHANGED <<setting, now, table, phase, store, copy, view, fresh, pending>>
  BY LostAt DEF Break, pageVars, Typed, PagesTyped
<1>2. Own(c)' = {IF a.page /= "gone" THEN [a EXCEPT !.page = "reconnected"] ELSE a : a \in Own(c)}
  BY OrphanedOwn DEF Break, Typed
<1>3. ASSUME NEW d \in Own(c)' PROVE d.page /= "connected"
  <2>1. PICK a \in Own(c) : d = IF a.page /= "gone" THEN [a EXCEPT !.page = "reconnected"] ELSE a
    BY <1>2
  <2>2. a \in [call : Call, page : {"connected", "reconnected", "gone"}]
    BY DEF Own, Typed, TableTyped
  <2>3. QED BY <2>1, <2>2
<1>4. DatedAt(c)'
  BY <1>1, NothingTold DEF PageInv, DatedAt
<1>5. PageAt(c)'
  BY <1>1, <1>3, NothingSent DEF PageInv, PageAt, Asks
<1>6. AwaitingAt(c)' /\ AgreesAt(c)' /\ FirstAt(c)'
  BY <1>1 DEF AwaitingAt, AgreesAt, FirstAt
<1>7. LaterAt(c)'
  <2>1. LaterFrom(c, 0)'
    BY <1>1, NothingSent DEF LaterFrom
  <2>2. QED BY <2>1 DEF LaterAt
<1>8. QED BY <1>4, <1>5, <1>6, <1>7 DEF PageInv

LEMMA LeaveAt ==
  ASSUME Typed, NEW c \in Browser, PageInv(c), Leave(c)
  PROVE  PageInv(c)'
<1>1. /\ connected'[c] = FALSE /\ up'[c] = <<>> /\ down'[c] = <<>>
      /\ phase'[c] = "away" /\ view'[c] = {} /\ copy'[c] = {} /\ pending'[c] = {}
      /\ UNCHANGED <<setting, now, table, store, fresh, whole, overlooked>>
  BY LostAt DEF Leave, countVars, Typed, PagesTyped, CountsTyped
<1>2. Own(c)' = {IF a.page /= "gone" THEN [a EXCEPT !.page = "gone"] ELSE a : a \in Own(c)}
  BY OrphanedOwn DEF Leave, Typed
<1>3. ASSUME NEW d \in Own(c)' PROVE d.page = "gone"
  <2>1. PICK a \in Own(c) : d = IF a.page /= "gone" THEN [a EXCEPT !.page = "gone"] ELSE a
    BY <1>2
  <2>2. a \in [call : Call, page : {"connected", "reconnected", "gone"}]
    BY DEF Own, Typed, TableTyped
  <2>3. QED BY <2>1, <2>2
<1>4. DatedAt(c)'
  BY <1>1, NothingTold DEF PageInv, DatedAt
<1>5. PageAt(c)'
  BY <1>1, <1>3, NothingSent DEF PageAt, Asks
<1>6. AwaitingAt(c)'
  <2>1. \A n \in 1 .. MaxCalls : Runs(c, n)' = {}
    BY <1>3 DEF Runs
  <2>2. QED BY <1>1, <2>1, NumbersNone DEF AwaitingAt
<1>7. AgreesAt(c)' /\ FirstAt(c)'
  BY <1>1, NothingTold DEF AgreesAt, FirstAt
<1>8. LaterAt(c)'
  <2>1. PICK t \in Nat : LaterFrom(c, t)
    BY DEF PageInv, LaterAt
  <2>2. Sure(c)' = Sure(c)
    BY <1>1 DEF Sure
  <2>3. ASSUME whole[c], NEW r \in Sure(c) PROVE SureAt(c, r, 0)'
    <3>1. SureAt(c, r, t)
      BY <2>1, <2>3 DEF LaterFrom
    <3>2. Reached(store[c], <<>>, r)
      BY <3>1 DEF SureAt, Reached
    <3>3. QED BY <1>1, <3>2, NothingTold DEF SureAt
  <2>4. LaterFrom(c, 0)'
    BY <1>1, <2>2, <2>3, NothingSent DEF LaterFrom
  <2>5. QED BY <2>4 DEF LaterAt
<1>9. QED BY <1>4, <1>5, <1>6, <1>7, <1>8 DEF PageInv

(* What getAll() has read is shown, and a sync asked for from there on. *)
LEMMA LoadedAt ==
  ASSUME Typed, NEW c \in Browser, PageInv(c), Loaded(c)
  PROVE  PageInv(c)'
<1> DEFINE m == [type |-> "sync", from |-> LastRecordTime(copy[c])]
<1>1. /\ phase[c] = "read" /\ phase'[c] = "asked" /\ view'[c] = Live(copy[c]) /\ copy'[c] = {}
      /\ fresh'[c] = (copy[c] = {}) /\ Own(c)' = Own(c) /\ up'[c] = Append(up[c], m)
      /\ UNCHANGED <<setting, now, table, store, connected, down, pending, whole, overlooked>>
  BY DEF Loaded, Own, serverVars, countVars, Typed, PagesTyped, WiresTyped
<1>2. m \in ToServer /\ m.type = "sync" /\ m.from = LastRecordTime(copy[c])
  BY LoadedTyped DEF ToServer, PageInv
<1>3. up[c] \in Seq(ToServer)
  BY DEF Typed, WiresTyped
<1> HIDE DEF m
<1>4. /\ ~Asking(up[c]) /\ Asking(up'[c]) /\ AskOnce(up'[c]) /\ ActionsOf(up'[c], c)
      /\ \A t : AskFrom(up[c], t) /\ LastRecordTime(copy[c]) = t => AskFrom(up'[c], t)
  BY <1>1, <1>2, <1>3, RequestsAppend DEF PageInv, PageAt, Asks
<1>5. \A t : AskFrom(up[c], t)
  BY <1>4 DEF Asking, AskFrom
<1>6. DatedAt(c)'
  BY <1>1 DEF PageInv, DatedAt
<1>7. PageAt(c)'
  BY <1>1, <1>4 DEF PageInv, PageAt, Asks
<1>8. AwaitingAt(c)'
  <2>1. \A n : ~Numbered(m, n)
    BY <1>2 DEF Numbered
  <2>2. \A n : (Has(up'[c], n) <=> Has(up[c], n)) /\ (Sole(up[c], n) => Sole(up'[c], n))
    BY <1>1, <1>2, <1>3, <2>1, NumbersAppend
  <2>3. QED BY <1>1, <2>2 DEF PageInv, AwaitingAt, Runs
<1>9. AgreesAt(c)'
  BY <1>1 DEF PageInv, AgreesAt
<1>10. FirstAt(c)'
  <2>1. ASSUME copy[c] = {} PROVE LastRecordTime(copy[c]) = 0 /\ view'[c] = {}
    <3>1. copy[c] \in SUBSET Record /\ 0 \in Nat /\ \A s \in copy[c] : Time(s) <= 0
      BY <2>1
    <3>2. LastRecordTime(copy[c]) \in 0 .. 0
      BY <3>1, LastTimeIs
    <3>3. QED BY <1>1, <2>1, <3>2 DEF Live
  <2>2. QED BY <1>1, <1>4, <1>5, <2>1 DEF FirstAt, Asks
<1>11. LaterAt(c)'
  <2>1. PICK t \in Nat : t = LastRecordTime(copy[c])
    BY LoadedTyped DEF PageInv
  <2>2. t = 0 \/ \E s \in copy[c] : Time(s) = t
    <3>1. now \in Nat /\ copy[c] \in SUBSET Record /\ \A s \in copy[c] : Time(s) <= now
      BY NowIs, TimesAre DEF PageInv, Typed
    <3>2. QED BY <2>1, <3>1, LastTimeIs
  <2>3. AskFrom(up'[c], t) /\ (t = 0 \/ \E r \in table : t <= Time(r))
    BY <1>4, <1>5, <2>1, <2>2 DEF PageInv, DatedAt
  <2>4. Sure(c)' = Sure(c)
    BY <1>1 DEF Sure
  <2>5. ASSUME whole[c], NEW r \in Sure(c) PROVE SureAt(c, r, t)'
    <3>1. PICK u \in Nat : SureAt(c, r, u)
      BY <2>5 DEF PageInv, LaterAt, LaterFrom
    <3>2. r \in table /\ r.deleted = 0 /\ r.updated \in Nat \ {0}
      BY NowIs DEF Sure, Live, Typed, TableTyped
    <3>3. CASE r \in copy[c] /\ Kept(c, r)
      <4>1. r \in view'[c]
        BY <1>1, <3>2, <3>3 DEF Live
      <4>2. QED BY <1>1, <3>1, <3>3, <4>1 DEF SureAt, Shows, Kept
    <3>4. CASE \A s \in copy[c] : Time(s) < r.updated
      <4>1. t < r.updated
        BY <2>2, <3>2, <3>4
      <4>2. QED BY <1>1, <1>4, <3>1, <4>1 DEF SureAt, Asks
    <3>5. QED BY <1>1, <3>1, <3>3, <3>4 DEF SureAt
  <2>6. LaterFrom(c, t)'
    BY <1>1, <2>3, <2>4, <2>5 DEF LaterFrom
  <2>7. QED BY <2>1, <2>6 DEF LaterAt
<1>12. QED BY <1>6, <1>7, <1>8, <1>9, <1>10, <1>11 DEF PageInv

LEMMA CallActionAt ==
  ASSUME Typed, NEW c \in Browser, PageInv(c), CallAction(c)
  PROVE  PageInv(c)'
<1>1. PICK m \in ToServer :
        /\ m.type = "action" /\ m.call.n = called + 1 /\ m.call.client = c
        /\ up' = [up EXCEPT ![c] = Append(up[c], m)]
  BY CallActionIs
<1>2. /\ phase[c] /= "away" /\ called + 1 \in 1 .. MaxCalls /\ Own(c)' = Own(c)
      /\ up'[c] = Append(up[c], m) /\ pending'[c] = pending[c] \cup {called + 1}
      /\ UNCHANGED <<setting, now, table, phase, store, copy, view, fresh, connected, down, whole, overlooked>>
  BY <1>1, CallActionIs DEF Own, Typed, WiresTyped, CountsTyped
<1>3. up[c] \in Seq(ToServer)
  BY DEF Typed, WiresTyped
<1>4. /\ Asking(up'[c]) <=> Asking(up[c])
      /\ AskOnce(up[c]) => AskOnce(up'[c])
      /\ ActionsOf(up[c], c) => ActionsOf(up'[c], c)
      /\ \A t : AskFrom(up[c], t) => AskFrom(up'[c], t)
  BY <1>1, <1>2, <1>3, RequestsAppend
<1>5. DatedAt(c)'
  BY <1>2 DEF PageInv, DatedAt
<1>6. PageAt(c)'
  BY <1>2, <1>4 DEF PageInv, PageAt, Asks
<1>7. AwaitingAt(c)'
  <2>1. \A n \in 1 .. MaxCalls : Numbered(m, n) <=> n = called + 1
    BY <1>1 DEF Numbered
  <2>2. called + 1 \notin pending[c]
    <3>1. called \in Nat /\ pending[c] \in SUBSET (1 .. called)
      BY DEF Typed, CountsTyped
    <3>2. QED BY <3>1
  <2>3. ASSUME whole[c], NEW n \in 1 .. MaxCalls
        PROVE  /\ Sole(up'[c], n) /\ Sole(down[c], n) /\ \A a, b \in Runs(c, n) : a = b
               /\ Has(up'[c], n) \/ Runs(c, n) /= {} \/ Has(down[c], n) => n \in pending'[c]
               /\ ~ (Has(up'[c], n) /\ Runs(c, n) /= {})
               /\ ~ (Has(up'[c], n) /\ Has(down[c], n))
               /\ ~ (Runs(c, n) /= {} /\ Has(down[c], n))
    <3>1. /\ Sole(up[c], n) /\ Sole(down[c], n) /\ \A a, b \in Runs(c, n) : a = b
          /\ Has(up[c], n) \/ Runs(c, n) /= {} \/ Has(down[c], n) => n \in pending[c]
          /\ ~ (Has(up[c], n) /\ Runs(c, n) /= {})
          /\ ~ (Has(up[c], n) /\ Has(down[c], n))
          /\ ~ (Runs(c, n) /= {} /\ Has(down[c], n))
      BY <2>3 DEF PageInv, AwaitingAt
    <3>2. /\ Has(up'[c], n) <=> Has(up[c], n) \/ Numbered(m, n)
          /\ Sole(up[c], n) /\ ~ (Has(up[c], n) /\ Numbered(m, n)) => Sole(up'[c], n)
      BY <1>2, <1>3, NumbersAppend
    <3>3. CASE n = called + 1
      BY <1>2, <2>1, <2>2, <3>1, <3>2, <3>3
    <3>4. CASE n /= called + 1
      BY <1>2, <2>1, <3>1, <3>2, <3>4
    <3>5. QED BY <3>3, <3>4
  <2>4. \A n : Runs(c, n)' = Runs(c, n)
    BY <1>2 DEF Runs
  <2>5. QED BY <1>2, <2>3, <2>4 DEF AwaitingAt
<1>8. AgreesAt(c)'
  BY <1>2 DEF PageInv, AgreesAt
<1>9. FirstAt(c)'
  BY <1>2, <1>4 DEF PageInv, FirstAt, Asks
<1>10. LaterAt(c)'
  <2>1. PICK t \in Nat : LaterFrom(c, t)
    BY DEF PageInv, LaterAt
  <2>2. \A r : (r \in Sure(c)' <=> r \in Sure(c)) /\ (SureAt(c, r, t) => SureAt(c, r, t)')
    BY <1>2, <1>4 DEF Sure, SureAt, Kept, Shows, Asks
  <2>3. LaterFrom(c, t)'
    BY <1>2, <1>4, <2>1, <2>2 DEF LaterFrom
  <2>4. QED BY <2>3 DEF LaterAt
<1>11. QED BY <1>5, <1>6, <1>7, <1>8, <1>9, <1>10 DEF PageInv

LEMMA ToldFirst ==
  ASSUME NEW q \in Seq(ToPage), q /= <<>>, NEW id, Tells(q[1], id), Untold(Tail(q), id)
  PROVE  1 \in 1 .. Len(q) /\ ToldLast(q, 1, id)
<1>1. /\ Len(Tail(q)) = Len(q) - 1 /\ Len(q) \in Nat /\ 1 \in 1 .. Len(q)
      /\ \A j \in 1 .. Len(q) - 1 : Tail(q)[j] = q[j + 1]
  BY Shortened
<1>2. ASSUME NEW j \in 1 + 1 .. Len(q) PROVE ~Tells(q[j], id)
  <2>1. j - 1 \in 1 .. Len(Tail(q)) /\ Tail(q)[j - 1] = q[j]
    BY <1>1
  <2>2. QED BY <2>1 DEF Untold
<1>3. QED BY <1>1, <1>2 DEF ToldLast

LEMMA PageReceivesAt ==
  ASSUME Typed, NEW c \in Browser, PageInv(c), PageReceives(c)
  PROVE  PageInv(c)'
<1> DEFINE q == down[c]
           h == q[1]
<1>1. /\ q /= <<>> /\ down'[c] = Tail(q) /\ Own(c)' = Own(c)
      /\ UNCHANGED <<setting, now, table, phase, copy, fresh, connected, up, whole, overlooked>>
      /\ \/ Forgotten(c, h) /\ UNCHANGED <<view, store, pending>>
         \/ Received(c, h)
  BY ReceiveIs DEF Own, Typed, WiresTyped
<1>2. q \in Seq(ToPage) /\ h \in ToPage /\ Told(h) \in SUBSET Record /\ 1 \in 1 .. Len(q)
  <2>1. q \in Seq(ToPage) /\ h \in ToPage /\ Told(h) \in SUBSET Record
    BY <1>1, HeadIs
  <2>2. 1 \in 1 .. Len(q)
    BY <1>1, <2>1
  <2>3. QED BY <2>1, <2>2
<1>3. Received(c, h) =>
        /\ view'[c] = Shown(view[c], Told(h)) /\ store'[c] = Put(store[c], Told(h))
        /\ \/ h.type \in {"sync", "update"} /\ pending'[c] = pending[c]
           \/ h.type \in {"success", "error"} /\ pending'[c] = pending[c] \ {h.n}
  BY DEF Received, Typed, PagesTyped, CountsTyped
<1>4. connected[c] /\ phase[c] /= "away"
  BY <1>1 DEF PageInv, PageAt
<1>5. whole[c] => Received(c, h)
  <2>1. ASSUME whole[c], Forgotten(c, h) PROVE FALSE
    <3>1. h.type \in {"success", "error"} /\ h.n \notin pending[c]
      BY <2>1 DEF Forgotten
    <3>2. h.n \in 1 .. MaxCalls
      BY <1>2, <3>1, MessageIs
    <3>3. Has(q, h.n)
      BY <1>2, <3>1 DEF Has, Numbered
    <3>4. QED BY <2>1, <3>1, <3>2, <3>3 DEF PageInv, AwaitingAt
  <2>2. QED BY <1>1, <2>1
<1>6. ToldBy(q) = ToldBy(Tail(q)) \cup Told(h)
  BY <1>1, <1>2, ToldByTail
<1>7. DatedAt(c)'
  <2>1. ASSUME NEW s \in store'[c] \cup copy[c] \cup ToldBy(Tail(q))
        PROVE  s \in store[c] \cup copy[c] \cup ToldBy(q)
    BY <1>1, <1>3, <1>6 DEF Put, Others
  <2>2. \A s \in store[c] \cup copy[c] \cup ToldBy(q) : \E r \in table : r.id = s.id /\ Time(s) <= Time(r)
    BY DEF PageInv, DatedAt
  <2>3. QED BY <1>1, <2>1, <2>2 DEF DatedAt
<1>8. PageAt(c)'
  BY <1>1, <1>4 DEF PageInv, PageAt, Asks
<1>9. AwaitingAt(c)'
  <2>1. ASSUME whole[c], NEW n \in 1 .. MaxCalls
        PROVE  /\ Sole(up[c], n) /\ Sole(Tail(q), n) /\ \A a, b \in Runs(c, n) : a = b
               /\ Has(up[c], n) \/ Runs(c, n) /= {} \/ Has(Tail(q), n) => n \in pending'[c]
               /\ ~ (Has(up[c], n) /\ Runs(c, n) /= {})
               /\ ~ (Has(up[c], n) /\ Has(Tail(q), n))
               /\ ~ (Runs(c, n) /= {} /\ Has(Tail(q), n))
    <3>1. /\ Sole(up[c], n) /\ Sole(q, n) /\ \A a, b \in Runs(c, n) : a = b
          /\ Has(up[c], n) \/ Runs(c, n) /= {} \/ Has(q, n) => n \in pending[c]
          /\ ~ (Has(up[c], n) /\ Runs(c, n) /= {})
          /\ ~ (Has(up[c], n) /\ Has(q, n))
          /\ ~ (Runs(c, n) /= {} /\ Has(q, n))
      BY <2>1 DEF PageInv, AwaitingAt
    <3>2. /\ Has(Tail(q), n) => Has(q, n)
          /\ Numbered(h, n) => Has(q, n)
          /\ Sole(q, n) => Sole(Tail(q), n) /\ ~ (Numbered(h, n) /\ Has(Tail(q), n))
      BY <1>1, <1>2, NumbersTail
    <3>3. \/ pending'[c] = pending[c]
          \/ pending'[c] = pending[c] \ {h.n} /\ (n = h.n => Numbered(h, n))
      BY <1>3, <1>5, <2>1 DEF Numbered
    <3> HIDE DEF q, h
    <3>4. QED BY <3>1, <3>2, <3>3
  <2>2. \A n : Runs(c, n)' = Runs(c, n)
    BY <1>1 DEF Runs
  <2>3. QED BY <1>1, <2>1, <2>2 DEF AwaitingAt
<1>10. AgreesAt(c)'
  BY <1>1, <1>2, AgreeingTail DEF PageInv, AgreesAt
<1>11. FirstAt(c)'
  <2>1. ASSUME whole[c], fresh[c], phase[c] = "asked"
        PROVE  /\ \A r \in view'[c] : Untold(Tail(q), r.id) => r \in table
               /\ ~Asks(c) => \A r \in Live(table) : Untold(Tail(q), r.id) => r \in view'[c]
    <3>1. view'[c] = Shown(view[c], Told(h))
      BY <1>3, <1>5, <2>1
    <3>2. /\ \A r \in view[c] : Untold(q, r.id) => r \in table
          /\ ~Asks(c) => \A r \in Live(table) : Untold(q, r.id) => r \in view[c]
          /\ Agreeing(q, table)
      BY <2>1 DEF PageInv, FirstAt, AgreesAt
    <3>3. \A r : r \in view'[c] <=> \/ r \in Told(h) /\ r.deleted = 0
                                    \/ r \in view[c] /\ ~Tells(h, r.id)
      BY <3>1 DEF Shown, Others, Live, Tells
    <3>4. ASSUME NEW r \in view'[c], Untold(Tail(q), r.id) PROVE r \in table
      <4>1. CASE r \in Told(h) /\ r.deleted = 0
        <5>1. Tells(h, r.id)
          BY <4>1 DEF Tells
        <5>2. ToldLast(q, 1, r.id)
          BY <1>1, <1>2, <3>4, <5>1, ToldFirst
        <5>3. QED BY <1>2, <3>2, <4>1, <5>2 DEF Agreeing
      <4>2. CASE r \in view[c] /\ ~Tells(h, r.id)
        <5>1. Untold(q, r.id)
          BY <1>1, <1>2, <3>4, <4>2, UntoldTail
        <5>2. QED BY <3>2, <4>2, <5>1
      <4>3. QED BY <3>3, <4>1, <4>2
    <3>5. ASSUME ~Asks(c), NEW r \in Live(table), Untold(Tail(q), r.id) PROVE r \in view'[c]
      <4>1. CASE Tells(h, r.id)
        <5>1. PICK t \in Told(h) : t.id = r.id
          BY <4>1 DEF Tells
        <5>2. ToldLast(q, 1, t.id)
          BY <1>1, <1>2, <3>5, <4>1, <5>1, ToldFirst
        <5>3. r \in Told(h)
          BY <1>2, <3>2, <5>1, <5>2 DEF Agreeing
        <5>4. QED BY <3>3, <5>3 DEF Live
      <4>2. CASE ~Tells(h, r.id)
        <5>1. Untold(q, r.id)
          BY <1>1, <1>2, <3>5, <4>2, UntoldTail
        <5>2. QED BY <3>2, <3>3, <3>5, <4>2, <5>1
      <4>3. QED BY <4>1, <4>2
    <3>6. QED BY <3>4, <3>5
  <2>2. QED BY <1>1, <1>4, <2>1 DEF PageInv, FirstAt, Asks
<1>12. LaterAt(c)'
  <2>1. PICK t \in Nat : LaterFrom(c, t)
    BY DEF PageInv, LaterAt
  <2>2. Sure(c)' = Sure(c)
    BY <1>1 DEF Sure
  <2>3. ASSUME whole[c], NEW r \in Sure(c) PROVE SureAt(c, r, t)'
    <3>1. SureAt(c, r, t)
      BY <2>1, <2>3 DEF LaterFrom
    <3>2. view'[c] = Shown(view[c], Told(h)) /\ store'[c] = Put(store[c], Told(h))
      BY <1>3, <1>5, <2>3
    <3>3. Agreeing(q, table) /\ store[c] \in SUBSET Record
      BY <2>3 DEF PageInv, AgreesAt, Typed, PagesTyped
    <3>4. r \in Live(table) /\ r \in Record /\ r.deleted = 0
      BY DEF Sure, Live, Typed, TableTyped
    <3> HIDE DEF q, h
    <3>5. Steady(store'[c], Tail(q), r) /\ Reached(store'[c], Tail(q), r)
      BY <1>1, <1>2, <3>1, <3>2, <3>3, <3>4, SteadyTail, ReachedTail DEF SureAt, q, h
    <3>6. Kept(c, r) => Kept(c, r)'
      BY <1>1, <1>2, <3>2, <3>3, <3>4, Remains DEF Kept, q, h
    <3>7. Shows(c, r) => Shows(c, r)'
      BY <1>1, <1>2, <3>2, <3>3, <3>4, Remains DEF Shows, q, h
    <3>8. QED BY <1>1, <3>1, <3>5, <3>6, <3>7 DEF SureAt, Asks
  <2>4. LaterFrom(c, t)'
    BY <1>1, <2>1, <2>2, <2>3 DEF LaterFrom
  <2>5. QED BY <2>4 DEF LaterAt
<1>13. QED BY <1>7, <1>8, <1>9, <1>10, <1>11, <1>12 DEF PageInv

(* The answer to a sync: all that came after what the page has. *)
LEMMA SyncAnsweredAt ==
  ASSUME Typed, NEW c \in Browser, PageInv(c), ServerReceives(c), up[c][1].type = "sync"
  PROVE  PageInv(c)'
<1> DEFINE from == up[c][1].from
           m == AnswerSync(from)
           q == down[c]
<1>1. /\ connected[c] /\ up[c] /= <<>> /\ up[c] \in Seq(ToServer) /\ from \in Nat
      /\ up'[c] = Tail(up[c]) /\ down'[c] = Append(q, m) /\ Own(c)' = Own(c)
      /\ UNCHANGED <<setting, now, table, phase, store, copy, view, fresh, connected, pending, whole, overlooked>>
  BY ServerReceivesIs DEF Own, Typed, WiresTyped
<1>2. /\ m \in ToPage /\ m.type = "sync"
      /\ Told(m) = {r \in table : r.deleted = 0 /\ r.updated > from}
  BY <1>1, AnswerIs DEF Typed
<1>3. q \in Seq(ToPage)
  BY DEF Typed, WiresTyped
<1>4. /\ Asks(c) /\ ~Asks(c)' /\ AskOnce(up'[c]) /\ ActionsOf(up'[c], c)
      /\ \A t : AskFrom(up[c], t) => AskFrom(up'[c], t) /\ from = t
  <2>1. AskOnce(up[c]) /\ ActionsOf(up[c], c)
    BY DEF PageInv, PageAt
  <2>2. /\ Asking(up[c]) /\ ~Asking(Tail(up[c])) /\ AskOnce(Tail(up[c])) /\ ActionsOf(Tail(up[c]), c)
    BY <1>1, <2>1, RequestsTail
  <2>3. \A t : AskFrom(up[c], t) => AskFrom(Tail(up[c]), t) /\ up[c][1].from = t
    BY <1>1, RequestsTail
  <2>4. QED BY <1>1, <2>2, <2>3 DEF Asks
<1>5. phase[c] = "asked"
  BY <1>4 DEF PageInv, PageAt
<1> HIDE DEF m, q, from
<1>6. ToldBy(down'[c]) = ToldBy(q) \cup Told(m)
  BY <1>1, <1>2, <1>3, ToldByAppend
<1>7. \A r \in table : /\ r \in Record /\ Time(r) \in Nat /\ r.updated \in Nat /\ r.updated >= 1
                       /\ r.deleted = 0 => Time(r) = r.updated
  BY RecordIs, NowIs DEF Typed, TableTyped
<1>8. DatedAt(c)'
  <2>1. \A r \in Told(m) : r \in table /\ Time(r) <= Time(r)
    BY <1>2, <1>7
  <2>2. QED BY <1>1, <1>6, <2>1 DEF PageInv, DatedAt, q
<1>9. PageAt(c)'
  BY <1>1, <1>4, <1>5 DEF PageInv, PageAt
<1>10. AwaitingAt(c)'
  <2>1. \A n : ~Numbered(m, n)
    BY <1>2 DEF Numbered
  <2>2. ASSUME whole[c], NEW n \in 1 .. MaxCalls
        PROVE  /\ Sole(up'[c], n) /\ Sole(down'[c], n) /\ \A a, b \in Runs(c, n) : a = b
               /\ Has(up'[c], n) \/ Runs(c, n) /= {} \/ Has(down'[c], n) => n \in pending[c]
               /\ ~ (Has(up'[c], n) /\ Runs(c, n) /= {})
               /\ ~ (Has(up'[c], n) /\ Has(down'[c], n))
               /\ ~ (Runs(c, n) /= {} /\ Has(down'[c], n))
    <3>1. /\ Sole(up[c], n) /\ Sole(q, n) /\ \A a, b \in Runs(c, n) : a = b
          /\ Has(up[c], n) \/ Runs(c, n) /= {} \/ Has(q, n) => n \in pending[c]
          /\ ~ (Has(up[c], n) /\ Runs(c, n) /= {})
          /\ ~ (Has(up[c], n) /\ Has(q, n))
          /\ ~ (Runs(c, n) /= {} /\ Has(q, n))
      BY <2>2 DEF PageInv, AwaitingAt, q
    <3>2. (Has(up'[c], n) => Has(up[c], n)) /\ (Sole(up[c], n) => Sole(up'[c], n))
      BY <1>1, NumbersTail
    <3>3. (Has(down'[c], n) <=> Has(q, n)) /\ (Sole(q, n) => Sole(down'[c], n))
      BY <1>1, <1>2, <1>3, <2>1, NumbersAppend
    <3>4. QED BY <3>1, <3>2, <3>3
  <2>3. \A n : Runs(c, n)' = Runs(c, n)
    BY <1>1 DEF Runs
  <2>4. QED BY <1>1, <2>2, <2>3 DEF AwaitingAt
<1>11. AgreesAt(c)'
  <2>1. \A r \in Told(m) : /\ r.deleted = 0 => r \in table
                           /\ \A s \in Live(table) : s.id = r.id => s \in Told(m)
    BY <1>2 DEF Live, Typed, TableTyped, Unique
  <2>2. Agreeing(q, table) => Agreeing(Append(q, m), table)
    BY <1>2, <1>3, <2>1, AgreeingAppend
  <2>3. QED BY <1>1, <2>2 DEF PageInv, AgreesAt, q
<1>12. \A id : Untold(down'[c], id) <=> Untold(q, id) /\ ~Tells(m, id)
  BY <1>1, <1>2, <1>3, UntoldAppend
<1>13. FirstAt(c)'
  <2>1. ASSUME whole[c], fresh[c]
        PROVE  /\ AskFrom(up'[c], 0)
               /\ \A r \in view[c] : Untold(down'[c], r.id) => r \in table
               /\ \A r \in Live(table) : ~Untold(down'[c], r.id)
    <3>1. AskFrom(up[c], 0) /\ \A r \in view[c] : Untold(q, r.id) => r \in table
      BY <1>5, <2>1 DEF PageInv, FirstAt, q
    <3>2. AskFrom(up'[c], 0) /\ from = 0
      BY <1>4, <3>1
    <3>3. \A r \in Live(table) : Tells(m, r.id)
      BY <1>2, <1>7, <3>2 DEF Live, Tells
    <3>4. QED BY <1>12, <3>1, <3>2, <3>3
  <2>2. QED BY <1>1, <2>1 DEF FirstAt
<1>14. LaterAt(c)'
  <2>1. PICK t \in Nat : LaterFrom(c, t)
    BY DEF PageInv, LaterAt
  <2>2. AskFrom(up'[c], t) /\ from = t
    BY <1>4, <2>1 DEF LaterFrom
  <2>3. Sure(c)' = Sure(c)
    BY <1>1 DEF Sure
  <2>4. ASSUME whole[c], NEW r \in Sure(c) PROVE SureAt(c, r, t)'
    <3>1. SureAt(c, r, t)
      BY <2>1, <2>4 DEF LaterFrom
    <3>2. r \in table /\ r.deleted = 0 /\ \A s \in Told(m) : s.id = r.id => s = r
      BY <1>2 DEF Sure, Live, Typed, TableTyped, Unique
    <3>3. (Shows(c, r) /\ Kept(c, r)) \/ r \in Told(m)
      BY <1>2, <1>5, <1>7, <2>2, <3>1, <3>2 DEF SureAt
    <3>4. Shows(c, r)' /\ Kept(c, r)' /\ r \in store[c] \cup ToldBy(q) \cup Told(m)
      BY <1>1, <1>6, <3>3 DEF Shows, Kept, q
    <3>5. Steady(store[c], q, r) /\ Reached(store[c], q, r)
      BY <3>1 DEF SureAt, q
    <3>6. Steady(store[c], down'[c], r)
      BY <1>1, <1>2, <1>3, <3>2, <3>5, SteadyAppend
    <3>7. Reached(store[c], down'[c], r)
      BY <1>1, <1>2, <1>3, <3>4, <3>5, ReachedAppend
    <3>8. QED BY <1>1, <1>5, <3>4, <3>6, <3>7 DEF SureAt
  <2>5. LaterFrom(c, t)'
    BY <1>1, <2>1, <2>2, <2>3, <2>4 DEF LaterFrom
  <2>6. QED BY <2>5 DEF LaterAt
<1>15. QED BY <1>8, <1>9, <1>10, <1>11, <1>13, <1>14 DEF PageInv

(* An action that the server begins to handle. *)
LEMMA ActionBegunAt ==
  ASSUME Typed, NEW c \in Browser, PageInv(c), ServerReceives(c), up[c][1].type = "action"
  PROVE  PageInv(c)'
<1> DEFINE begun == [call |-> up[c][1].call, page |-> "connected"]
<1>1. /\ connected[c] /\ up[c] /= <<>> /\ up[c] \in Seq(ToServer)
      /\ up'[c] = Tail(up[c]) /\ running' = running \cup {begun}
      /\ UNCHANGED <<setting, now, table, phase, store, copy, view, fresh, connected, down, pending, whole, overlooked>>
  BY ServerReceivesIs DEF Typed, WiresTyped
<1>2. /\ Asks(c)' <=> Asks(c)
      /\ AskOnce(up'[c]) /\ ActionsOf(up'[c], c) /\ begun.call.client = c
      /\ \A t : AskFrom(up[c], t) => AskFrom(up'[c], t)
  BY <1>1, RequestsTail DEF PageInv, PageAt, Asks
<1>3. begun.page = "connected" /\ begun.call = up[c][1].call
  OBVIOUS
<1> HIDE DEF begun
<1>4. Own(c)' = Own(c) \cup {begun}
  BY <1>1, <1>2 DEF Own
<1>5. phase[c] /= "away"
  BY <1>1 DEF PageInv, PageAt
<1>6. DatedAt(c)'
  BY <1>1 DEF PageInv, DatedAt
<1>7. PageAt(c)'
  BY <1>1, <1>2, <1>3, <1>4, <1>5 DEF PageInv, PageAt
<1>8. AwaitingAt(c)'
  <2>1. ASSUME whole[c], NEW n \in 1 .. MaxCalls
        PROVE  /\ Sole(up'[c], n) /\ Sole(down[c], n) /\ \A a, b \in Runs(c, n)' : a = b
               /\ Has(up'[c], n) \/ Runs(c, n)' /= {} \/ Has(down[c], n) => n \in pending[c]
               /\ ~ (Has(up'[c], n) /\ Runs(c, n)' /= {})
               /\ ~ (Has(up'[c], n) /\ Has(down[c], n))
               /\ ~ (Runs(c, n)' /= {} /\ Has(down[c], n))
    <3>1. /\ Sole(up[c], n) /\ Sole(down[c], n) /\ \A a, b \in Runs(c, n) : a = b
          /\ Has(up[c], n) \/ Runs(c, n) /= {} \/ Has(down[c], n) => n \in pending[c]
          /\ ~ (Has(up[c], n) /\ Runs(c, n) /= {})
          /\ ~ (Has(up[c], n) /\ Has(down[c], n))
          /\ ~ (Runs(c, n) /= {} /\ Has(down[c], n))
      BY <2>1 DEF PageInv, AwaitingAt
    <3>2. /\ Has(up'[c], n) => Has(up[c], n)
          /\ Numbered(up[c][1], n) => Has(up[c], n)
          /\ Sole(up[c], n) => Sole(up'[c], n) /\ ~ (Numbered(up[c][1], n) /\ Has(up'[c], n))
      BY <1>1, NumbersTail
    <3>3. CASE n = begun.call.n
      <4>1. Numbered(up[c][1], n)
        BY <1>3, <3>3 DEF Numbered
      <4>2. Runs(c, n) = {}
        BY <3>1, <3>2, <4>1
      <4>3. Runs(c, n)' = {begun}
        BY <1>3, <1>4, <3>3, <4>2 DEF Runs
      <4>4. QED BY <3>1, <3>2, <4>1, <4>3
    <3>4. CASE n /= begun.call.n
      <4>1. Runs(c, n)' = Runs(c, n)
        BY <1>4, <3>4 DEF Runs
      <4>2. QED BY <3>1, <3>2, <4>1
    <3>5. QED BY <3>3, <3>4
  <2>2. QED BY <1>1, <2>1 DEF AwaitingAt
<1>9. AgreesAt(c)'
  BY <1>1 DEF PageInv, AgreesAt
<1>10. FirstAt(c)'
  BY <1>1, <1>2 DEF PageInv, FirstAt
<1>11. LaterAt(c)'
  <2>1. PICK t \in Nat : LaterFrom(c, t)
    BY DEF PageInv, LaterAt
  <2>2. \A r : (r \in Sure(c)' <=> r \in Sure(c)) /\ (SureAt(c, r, t) => SureAt(c, r, t)')
    BY <1>1, <1>2 DEF Sure, SureAt, Kept, Shows, Asks
  <2>3. LaterFrom(c, t)'
    BY <1>1, <1>2, <2>1, <2>2 DEF LaterFrom
  <2>4. QED BY <2>3 DEF LaterAt
<1>12. QED BY <1>6, <1>7, <1>8, <1>9, <1>10, <1>11 DEF PageInv

LEMMA ServerReceivesAt ==
  ASSUME Typed, NEW c \in Browser, PageInv(c), ServerReceives(c)
  PROVE  PageInv(c)'
BY SyncAnsweredAt, ActionBegunAt, ServerReceivesIs

(* What an action does to the table. *)
LEMMA ChangedAre ==
  ASSUME Typed, NEW a \in running, NEW result \in SUBSET Record, Changes(a, result)
  PROVE  /\ \A r : r \in table' <=> r \in result \/ (r \in table /\ \A t \in result : t.id /= r.id)
         /\ \A r \in table : \E t \in table' : t.id = r.id /\ Time(r) <= Time(t)
         /\ \A t \in result : Time(t) = now /\ (t.deleted = 0 => t.updated = now)
<1>1. table' = Put(table, result) /\ \A t \in result : Time(t) = now
  BY DEF Changes
<1>2. \A r : r \in table' <=> r \in result \/ (r \in table /\ \A t \in result : t.id /= r.id)
  BY <1>1 DEF Put, Others
<1>3. \A r \in table : r \in Record /\ Time(r) \in Nat /\ Time(r) <= now
  BY RecordIs, NowIs DEF Typed, TableTyped, Time
<1>4. ASSUME NEW r \in table PROVE \E t \in table' : t.id = r.id /\ Time(r) <= Time(t)
  <2>1. CASE \E t \in result : t.id = r.id
    BY <1>1, <1>2, <1>3, <2>1
  <2>2. CASE \A t \in result : t.id /= r.id
    BY <1>2, <1>3, <2>2
  <2>3. QED BY <2>1, <2>2
<1>5. \A t \in result : t.deleted = 0 => t.updated = now
  BY <1>1, RecordIs
<1>6. QED BY <1>1, <1>2, <1>4, <1>5

(* What every page may hear of an action, or not. *)
Heard(c, a, result, m) ==
  /\ down'[c] = Append(down[c], m) /\ Told(m) = result /\ connected[c]
  /\ \/ m.type = "update"
     \/ m.type = "success" /\ m.n = a.call.n /\ a \in Own(c) /\ a.page = "connected"

LEMMA HeardOrNot ==
  ASSUME NEW c \in Browser, PageInv(c), NEW a, NEW result, Hears(c, a, result)
  PROVE  \/ \E m \in ToPage : Heard(c, a, result, m)
         \/ /\ down'[c] = down[c]
            /\ whole[c] => ~connected[c] /\ down[c] = <<>>
<1>1. /\ ~connected[c] => down[c] = <<>> /\ \A b \in Own(c) : b.page /= "connected"
      /\ whole[c] /\ phase[c] /= "away" => \A b \in Own(c) : b.page /= "reconnected"
      /\ phase[c] = "away" => ~connected[c]
  BY DEF PageInv, PageAt
<1>2. QED BY <1>1 DEF Hears, Heard

LEMMA ActionDoneKeeps ==
  ASSUME Typed, NEW c \in Browser, PageInv(c), NEW a \in running, NEW result \in SUBSET Record,
         Changes(a, result), running' = running \ {a}, Hears(c, a, result),
         UNCHANGED <<setting, now, phase, store, copy, view, fresh, connected, up,
                     pages, called, breaks, pending, whole>>
  PROVE  DatedAt(c)' /\ PageAt(c)' /\ AwaitingAt(c)'
<1> DEFINE q == down[c]
<1>1. Own(c)' = Own(c) \ {a}
  BY DEF Own
<1>2. q \in Seq(ToPage)
  BY DEF Typed, WiresTyped
<1>3. \/ \E m \in ToPage : Heard(c, a, result, m)
      \/ down'[c] = q /\ (whole[c] => ~connected[c] /\ q = <<>>)
  BY HeardOrNot
<1>4. ToldBy(down'[c]) \subseteq ToldBy(q) \cup result
  BY <1>2, <1>3, ToldByAppend DEF Heard
<1>5. DatedAt(c)'
  <2>1. ASSUME NEW s \in store[c] \cup copy[c] \cup ToldBy(down'[c])
        PROVE  \E r \in table' : r.id = s.id /\ Time(s) <= Time(r)
    <3>1. CASE s \in result
      <4>1. s \in table' /\ Time(s) \in Nat
        BY <3>1, ChangedAre, RecordIs
      <4>2. QED BY <4>1
    <3>2. CASE s \in store[c] \cup copy[c] \cup ToldBy(q)
      <4>1. PICK r \in table : r.id = s.id /\ Time(s) <= Time(r)
        BY <3>2 DEF PageInv, DatedAt
      <4>2. PICK t \in table' : t.id = r.id /\ Time(r) <= Time(t)
        BY ChangedAre
      <4>3. Time(s) \in Nat /\ Time(r) \in Nat /\ Time(t) \in Nat
        <5>1. s \in Record
          BY <3>2, TimesAre DEF PageInv
        <5>2. r \in Record /\ t \in Record
          BY ChangedAre DEF Typed, TableTyped
        <5>3. QED BY <5>1, <5>2, RecordIs
      <4>4. QED BY <4>1, <4>2, <4>3
    <3>3. QED BY <1>4, <3>1, <3>2
  <2>2. QED BY <2>1 DEF DatedAt
<1>6. PageAt(c)'
  <2>1. ~connected[c] => down'[c] = <<>>
    BY <1>3 DEF Heard, PageInv, PageAt
  <2>2. QED BY <1>1, <2>1 DEF PageInv, PageAt, Asks
<1>7. AwaitingAt(c)'
  <2>1. ASSUME whole[c], NEW n \in 1 .. MaxCalls
        PROVE  /\ Sole(up[c], n) /\ Sole(down'[c], n) /\ \A b, d \in Runs(c, n)' : b = d
               /\ Has(up[c], n) \/ Runs(c, n)' /= {} \/ Has(down'[c], n) => n \in pending[c]
               /\ ~ (Has(up[c], n) /\ Runs(c, n)' /= {})
               /\ ~ (Has(up[c], n) /\ Has(down'[c], n))
               /\ ~ (Runs(c, n)' /= {} /\ Has(down'[c], n))
    <3>1. /\ Sole(up[c], n) /\ Sole(q, n) /\ \A b, d \in Runs(c, n) : b = d
          /\ Has(up[c], n) \/ Runs(c, n) /= {} \/ Has(q, n) => n \in pending[c]
          /\ ~ (Has(up[c], n) /\ Runs(c, n) /= {})
          /\ ~ (Has(up[c], n) /\ Has(q, n))
          /\ ~ (Runs(c, n) /= {} /\ Has(q, n))
      BY <2>1 DEF PageInv, AwaitingAt
    <3>2. Runs(c, n)' = Runs(c, n) \ {a}
      BY <1>1 DEF Runs
    <3>3. CASE down'[c] = q
      BY <3>1, <3>2, <3>3
    <3>4. ASSUME NEW m \in ToPage, Heard(c, a, result, m)
          PROVE  /\ Sole(down'[c], n)
                 /\ Has(down'[c], n) => n \in pending[c]
                 /\ ~ (Has(up[c], n) /\ Has(down'[c], n))
                 /\ ~ (Runs(c, n)' /= {} /\ Has(down'[c], n))
      <4>1. /\ Has(down'[c], n) <=> Has(q, n) \/ Numbered(m, n)
            /\ Sole(q, n) /\ ~ (Has(q, n) /\ Numbered(m, n)) => Sole(down'[c], n)
        BY <1>2, <3>4, NumbersAppend DEF Heard
      <4>2. Numbered(m, n) => a \in Runs(c, n)
        BY <3>4 DEF Heard, Numbered, Runs
      <4>3. CASE Numbered(m, n)
        <5>1. Runs(c, n)' = {}
          BY <3>1, <3>2, <4>2, <4>3
        <5>2. QED BY <3>1, <4>1, <4>2, <4>3, <5>1
      <4>4. CASE ~Numbered(m, n)
        BY <3>1, <3>2, <4>1, <4>4
      <4>5. QED BY <4>3, <4>4
    <3>5. CASE \E m \in ToPage : Heard(c, a, result, m)
      <4>1. /\ Sole(down'[c], n)
            /\ Has(down'[c], n) => n \in pending[c]
            /\ ~ (Has(up[c], n) /\ Has(down'[c], n))
            /\ ~ (Runs(c, n)' /= {} /\ Has(down'[c], n))
        BY <3>4, <3>5
      <4>2. QED BY <3>1, <3>2, <4>1
    <3>6. QED BY <1>3, <3>3, <3>5
  <2>2. QED BY <2>1 DEF AwaitingAt
<1>8. QED BY <1>5, <1>6, <1>7

LEMMA ActionDoneAgrees ==
  ASSUME Typed, NEW c \in Browser, PageInv(c), NEW a \in running, NEW result \in SUBSET Record,
         Changes(a, result), Hears(c, a, result),
         UNCHANGED <<setting, now, phase, store, copy, view, fresh, connected, up,
                     pages, called, breaks, pending, whole>>
  PROVE  AgreesAt(c)' /\ FirstAt(c)'
<1> DEFINE q == down[c]
<1>1. q \in Seq(ToPage)
  BY DEF Typed, WiresTyped
<1>2. \A r : r \in table' <=> r \in result \/ (r \in table /\ \A t \in result : t.id /= r.id)
  BY ChangedAre
<1>3. CASE down'[c] = q /\ (whole[c] => ~connected[c] /\ q = <<>>)
  <2>1. Agreeing(<<>>, table')
    BY DEF Agreeing
  <2>2. AgreesAt(c)'
    BY <1>3, <2>1 DEF AgreesAt
  <2>3. whole[c] /\ fresh[c] /\ phase[c] = "asked" => Asks(c) /\ view[c] = {} /\ AskFrom(up[c], 0)
    BY <1>3 DEF PageInv, PageAt, FirstAt
  <2>4. FirstAt(c)'
    BY <1>3, <2>3 DEF FirstAt, Asks
  <2>5. QED BY <2>2, <2>4
<1>4. ASSUME NEW m \in ToPage, Heard(c, a, result, m) PROVE AgreesAt(c)' /\ FirstAt(c)'
  <2>1. down'[c] = Append(q, m) /\ Told(m) = result /\ connected[c]
    BY <1>4 DEF Heard
  <2>2. \A r : ~Tells(m, r.id) => (r \in table <=> r \in table')
    BY <1>2, <2>1 DEF Tells
  <2>3. \A r \in Told(m) : /\ r.deleted = 0 => r \in table'
                           /\ \A s \in Live(table') : s.id = r.id => s \in Told(m)
    BY <1>2, <2>1 DEF Live
  <2>4. Agreeing(q, table) => Agreeing(Append(q, m), table')
    BY <1>1, <2>2, <2>3, AgreeingAppend
  <2>5. AgreesAt(c)'
    BY <2>1, <2>4 DEF PageInv, AgreesAt
  <2>6. \A id : Untold(down'[c], id) <=> Untold(q, id) /\ ~Tells(m, id)
    BY <1>1, <2>1, UntoldAppend
  <2>7. ASSUME whole[c], fresh[c], phase[c] = "asked"
        PROVE  /\ AskFrom(up[c], 0)
               /\ \A r \in view[c] : Untold(down'[c], r.id) => r \in table'
               /\ ~Asks(c) => \A r \in Live(table') : Untold(down'[c], r.id) => r \in view[c]
    <3>1. /\ AskFrom(up[c], 0)
          /\ \A r \in view[c] : Untold(q, r.id) => r \in table
          /\ ~Asks(c) => \A r \in Live(table) : Untold(q, r.id) => r \in view[c]
      BY <2>7 DEF PageInv, FirstAt
    <3>2. \A r \in Live(table') : ~Tells(m, r.id) => r \in Live(table)
      BY <2>2 DEF Live
    <3> HIDE DEF q
    <3>3. QED BY <2>2, <2>6, <3>1, <3>2
  <2>8. FirstAt(c)'
    BY <2>1, <2>7 DEF FirstAt, Asks
  <2>9. QED BY <2>5, <2>8
<1>5. QED BY <1>3, <1>4, HeardOrNot

(* What an action of this second has changed, when it is the first, is     *)
(* later than all that there is.                                           *)
LEMMA NewestIs ==
  ASSUME Typed, NEW c \in Browser, DatedAt(c), ~Crowded
  PROVE  /\ \A s \in store[c] \cup copy[c] \cup ToldBy(down[c]) : Time(s) < now
         /\ \A r \in table : Time(r) < now
<1>1. \A r \in table : r \in Record /\ Time(r) \in 1 .. now
  BY TimesAre
<1>2. now \in Nat
  BY NowIs DEF Typed
<1>3. ASSUME NEW r \in table PROVE Time(r) < now
  <2>1. Time(r) /= now
    BY DEF Crowded, Time
  <2>2. QED BY <1>1, <1>2, <2>1
<1>4. ASSUME NEW s \in store[c] \cup copy[c] \cup ToldBy(down[c]) PROVE Time(s) < now
  <2>1. PICK r \in table : Time(s) <= Time(r)
    BY DEF DatedAt
  <2>2. Time(s) \in 0 .. now /\ Time(r) \in 1 .. now /\ Time(r) < now
    BY <1>3, TimesAre
  <2>3. QED BY <1>2, <2>1, <2>2
<1>5. QED BY <1>3, <1>4

LEMMA NewIsSure ==
  ASSUME NEW q \in Seq(ToPage), NEW records, NEW r, NEW n \in Nat, r.updated = n, Time(r) = n,
         \A s \in records \cup ToldBy(q) : Time(s) < n /\ Time(s) \in Nat
  PROVE  Steady(records, q, r) /\ Reached(records, q, r)
<1>1. r \notin records \cup ToldBy(q)
  OBVIOUS
<1>2. \A i \in 1 .. Len(q) : \A s \in Told(q[i]) : s \in ToldBy(q)
  BY DEF ToldBy
<1>3. Steady(records, q, r)
  BY <1>1, <1>2 DEF Steady
<1>4. ASSUME NEW i \in 1 .. Len(q), NEW s \in Told(q[i]) PROVE ~ (r.updated <= Time(s))
  BY <1>2
<1>5. QED BY <1>3, <1>4 DEF Reached

LEMMA ActionDoneLater ==
  ASSUME Typed, NEW c \in Browser, PageInv(c), NEW a \in running, NEW result \in SUBSET Record,
         Changes(a, result), Hears(c, a, result),
         overlooked'[c] = overlooked[c] \cup Overlooks(c, result),
         UNCHANGED <<setting, now, phase, store, copy, view, fresh, connected, up,
                     pages, called, breaks, pending, whole>>
  PROVE  LaterAt(c)'
<1> DEFINE q == down[c]
<1>1. PICK t \in Nat : LaterFrom(c, t)
  BY DEF PageInv, LaterAt
<1>2. q \in Seq(ToPage) /\ now \in Nat
  BY NowIs DEF Typed, WiresTyped
<1>3. /\ \A r : r \in table' <=> r \in result \/ (r \in table /\ \A u \in result : u.id /= r.id)
      /\ \A r \in table : \E u \in table' : u.id = r.id /\ Time(r) <= Time(u)
      /\ \A u \in result : Time(u) = now /\ (u.deleted = 0 => u.updated = now)
  BY ChangedAre
<1>4. AskFrom(up'[c], t) /\ (t = 0 \/ \E r \in table' : t <= Time(r))
  <2>1. ASSUME NEW r \in table, t <= Time(r) PROVE \E u \in table' : t <= Time(u)
    <3>1. PICK u \in table' : Time(r) <= Time(u)
      BY <1>3
    <3>2. Time(r) \in Nat /\ Time(u) \in Nat
      <4>1. r \in Record /\ u \in Record
        BY <1>3 DEF Typed, TableTyped
      <4>2. QED BY <4>1, RecordIs
    <3>3. QED BY <2>1, <3>1, <3>2
  <2>2. QED BY <1>1, <2>1 DEF LaterFrom
<1>5. ASSUME NEW r \in Sure(c)'
      PROVE  \/ r \in result /\ r.deleted = 0 /\ ~Crowded
             \/ r \in Sure(c) /\ (connected[c] => Synced(c)) /\ \A u \in result : u.id /= r.id
  <2>1. r \in table' /\ r.deleted = 0 /\ r.version \notin overlooked[c] /\ r.version \notin Overlooks(c, result)
    BY DEF Sure, Live
  <2>2. CASE r \in result
    BY <2>1, <2>2 DEF Overlooks, Versions
  <2>3. CASE r \notin result
    <3>1. r \in Live(table) /\ \A u \in result : u.id /= r.id
      BY <1>3, <2>1, <2>3 DEF Live
    <3>2. connected[c] => Synced(c)
      BY <2>1, <3>1 DEF Overlooks, Versions
    <3>3. QED BY <2>1, <3>1, <3>2 DEF Sure
  <2>4. QED BY <2>2, <2>3
<1>6. ASSUME NEW r \in result, r.deleted = 0, ~Crowded
      PROVE  /\ Steady(store[c], q, r) /\ Reached(store[c], q, r)
             /\ \A s \in copy[c] : Time(s) < r.updated
             /\ t < r.updated
  <2>1. r.updated = now /\ Time(r) = now /\ now \in Nat \ {0}
    BY <1>3, <1>6, NowIs DEF Typed
  <2>2. /\ \A s \in store[c] \cup copy[c] \cup ToldBy(q) : Time(s) < now
        /\ \A u \in table : Time(u) < now
    BY <1>6, NewestIs DEF PageInv
  <2>3. /\ \A s \in store[c] \cup copy[c] \cup ToldBy(q) : Time(s) \in Nat
        /\ \A u \in table : Time(u) \in Nat
    BY TimesAre, RecordIs DEF PageInv
  <2>4. t < now
    BY <1>1, <2>1, <2>2, <2>3 DEF LaterFrom
  <2> HIDE DEF q
  <2>5. Steady(store[c], q, r) /\ Reached(store[c], q, r)
    BY <1>2, <2>1, <2>2, <2>3, NewIsSure
  <2>6. QED BY <2>1, <2>2, <2>4, <2>5
<1>7. ASSUME whole[c], down'[c] = q, ~connected[c], NEW r \in Sure(c)' PROVE SureAt(c, r, t)'
  <2>1. CASE r \in Sure(c)
    BY <1>1, <1>7, <2>1 DEF LaterFrom, SureAt, Shows, Kept, Asks
  <2>2. CASE r \in result /\ r.deleted = 0 /\ ~Crowded
    <3>1. phase[c] = "asked" => Asks(c)
      BY <1>7 DEF PageInv, PageAt
    <3>2. QED BY <1>6, <1>7, <2>2, <3>1 DEF SureAt, Asks
  <2>3. QED BY <1>5, <2>1, <2>2
<1>8. ASSUME whole[c], NEW m \in ToPage, Heard(c, a, result, m), NEW r \in Sure(c)' PROVE SureAt(c, r, t)'
  <2>1. down'[c] = Append(q, m) /\ Told(m) = result /\ connected[c]
    BY <1>8 DEF Heard
  <2>2. ToldBy(down'[c]) = ToldBy(q) \cup result
    BY <1>2, <2>1, ToldByAppend
  <2>3. CASE r \in result /\ r.deleted = 0 /\ ~Crowded
    <3>1. Steady(store[c], q, r) /\ Reached(store[c], q, r) /\ \A s \in copy[c] : Time(s) < r.updated
      BY <1>6, <2>3
    <3>2. \A u \in Told(m) : u.id = r.id => u = r
      BY <2>1, <2>3 DEF Changes, Unique
    <3> HIDE DEF q
    <3>3. Steady(store[c], down'[c], r)
      BY <1>2, <2>1, <3>1, <3>2, SteadyAppend
    <3>4. Reached(store[c], down'[c], r)
      BY <1>2, <2>1, <2>3, <3>1, ReachedAppend
    <3>5. Shows(c, r)' /\ Kept(c, r)'
      BY <2>2, <2>3 DEF Shows, Kept
    <3>6. QED BY <3>1, <3>3, <3>4, <3>5 DEF SureAt
  <2>4. CASE r \in Sure(c) /\ (connected[c] => Synced(c)) /\ \A u \in result : u.id /= r.id
    <3>1. phase[c] = "asked" /\ ~Asks(c)
      BY <2>1, <2>4, SyncedIs
    <3>2. SureAt(c, r, t)
      BY <1>1, <1>8, <2>4 DEF LaterFrom
    <3>3. Shows(c, r) /\ Kept(c, r) /\ Steady(store[c], q, r) /\ Reached(store[c], q, r)
      BY <3>1, <3>2 DEF SureAt
    <3>4. r \in store[c] \cup ToldBy(q) \cup Told(m) /\ Shows(c, r)' /\ Kept(c, r)'
      BY <2>2, <3>3 DEF Shows, Kept
    <3> HIDE DEF q
    <3>5. Steady(store[c], down'[c], r)
      BY <1>2, <2>1, <2>4, <3>3, SteadyAppend
    <3>6. Reached(store[c], down'[c], r)
      BY <1>2, <2>1, <3>3, <3>4, ReachedAppend
    <3>7. QED BY <3>1, <3>4, <3>5, <3>6 DEF SureAt
  <2>5. QED BY <1>5, <2>3, <2>4
<1>9. LaterFrom(c, t)'
  BY <1>4, <1>7, <1>8, HeardOrNot DEF LaterFrom
<1>10. QED BY <1>9 DEF LaterAt

LEMMA ActionDoneAt ==
  ASSUME Typed, NEW c \in Browser, PageInv(c), ActionDone
  PROVE  PageInv(c)'
<1>1. PICK a \in running, result \in SUBSET Record :
        /\ Changes(a, result) /\ running' = running \ {a}
        /\ overlooked'[c] = overlooked[c] \cup Overlooks(c, result)
        /\ \A b \in Browser : Hears(b, a, result)
        /\ UNCHANGED <<setting, now, phase, store, copy, view, fresh, connected, up,
                       pages, called, breaks, pending, whole>>
  BY ActionIs
<1>2. DatedAt(c)' /\ PageAt(c)' /\ AwaitingAt(c)'
  BY <1>1, ActionDoneKeeps
<1>3. AgreesAt(c)' /\ FirstAt(c)'
  BY <1>1, ActionDoneAgrees
<1>4. LaterAt(c)'
  BY <1>1, ActionDoneLater
<1>5. QED BY <1>2, <1>3, <1>4 DEF PageInv

(* An INSERT that fails tells nothing. *)
LEMMA ActionThrowsAt ==
  ASSUME Typed, NEW c \in Browser, PageInv(c), ActionThrows
  PROVE  PageInv(c)'
<1> DEFINE q == down[c]
<1>1. PICK a \in running :
        /\ running' = running \ {a}
        /\ \/ down'[c] = q
           \/ \E m \in ToPage : /\ down'[c] = Append(q, m) /\ Told(m) = {}
                                /\ m.type = "error" /\ m.n = a.call.n
                                /\ a \in Own(c) /\ a.page = "connected"
        /\ UNCHANGED <<setting, now, table, phase, store, copy, view, fresh, connected, up,
                       pages, called, breaks, pending, whole, overlooked>>
  BY ThrowIs
<1>2. Own(c)' = Own(c) \ {a}
  BY <1>1 DEF Own
<1>3. q \in Seq(ToPage)
  BY DEF Typed, WiresTyped
<1>4. CASE down'[c] = q
  <2>1. DatedAt(c)' /\ AgreesAt(c)' /\ FirstAt(c)' /\ LaterAt(c)'
    <3>1. DatedAt(c)' /\ AgreesAt(c)' /\ FirstAt(c)'
      BY <1>1, <1>4 DEF PageInv, DatedAt, AgreesAt, FirstAt, Asks
    <3>2. PICK t \in Nat : LaterFrom(c, t)
      BY DEF PageInv, LaterAt
    <3>3. \A r : (r \in Sure(c)' <=> r \in Sure(c)) /\ (SureAt(c, r, t) => SureAt(c, r, t)')
      BY <1>1, <1>4 DEF Sure, SureAt, Kept, Shows, Asks
    <3>4. LaterFrom(c, t)'
      BY <1>1, <3>2, <3>3 DEF LaterFrom
    <3>5. QED BY <3>1, <3>4 DEF LaterAt
  <2>2. PageAt(c)'
    BY <1>1, <1>2, <1>4 DEF PageInv, PageAt, Asks
  <2>3. AwaitingAt(c)'
    <3>1. \A n : Runs(c, n)' = Runs(c, n) \ {a}
      BY <1>2 DEF Runs
    <3>2. QED BY <1>1, <1>4, <3>1 DEF PageInv, AwaitingAt
  <2>4. QED BY <2>1, <2>2, <2>3 DEF PageInv
<1>5. ASSUME NEW m \in ToPage, down'[c] = Append(q, m), Told(m) = {},
             m.type = "error", m.n = a.call.n, a \in Own(c), a.page = "connected"
      PROVE  PageInv(c)'
  <2>1. connected[c]
    BY <1>5 DEF PageInv, PageAt
  <2>2. ToldBy(down'[c]) = ToldBy(q)
    BY <1>3, <1>5, ToldByAppend
  <2>3. DatedAt(c)'
    BY <1>1, <2>2 DEF PageInv, DatedAt
  <2>4. PageAt(c)'
    BY <1>1, <1>2, <2>1 DEF PageInv, PageAt, Asks
  <2>5. AwaitingAt(c)'
    <3>1. ASSUME whole[c], NEW n \in 1 .. MaxCalls
          PROVE  /\ Sole(up[c], n) /\ Sole(down'[c], n) /\ \A b, d \in Runs(c, n)' : b = d
                 /\ Has(up[c], n) \/ Runs(c, n)' /= {} \/ Has(down'[c], n) => n \in pending[c]
                 /\ ~ (Has(up[c], n) /\ Runs(c, n)' /= {})
                 /\ ~ (Has(up[c], n) /\ Has(down'[c], n))
                 /\ ~ (Runs(c, n)' /= {} /\ Has(down'[c], n))
      <4>1. /\ Sole(up[c], n) /\ Sole(q, n) /\ \A b, d \in Runs(c, n) : b = d
            /\ Has(up[c], n) \/ Runs(c, n) /= {} \/ Has(q, n) => n \in pending[c]
            /\ ~ (Has(up[c], n) /\ Runs(c, n) /= {})
            /\ ~ (Has(up[c], n) /\ Has(q, n))
            /\ ~ (Runs(c, n) /= {} /\ Has(q, n))
        BY <3>1 DEF PageInv, AwaitingAt
      <4>2. Runs(c, n)' = Runs(c, n) \ {a}
        BY <1>2 DEF Runs
      <4>3. /\ Has(down'[c], n) <=> Has(q, n) \/ Numbered(m, n)
            /\ Sole(q, n) /\ ~ (Has(q, n) /\ Numbered(m, n)) => Sole(down'[c], n)
        BY <1>3, <1>5, NumbersAppend
      <4>4. Numbered(m, n) => a \in Runs(c, n)
        BY <1>5 DEF Numbered, Runs
      <4>5. CASE Numbered(m, n)
        <5>1. Runs(c, n)' = {}
          BY <4>1, <4>2, <4>4, <4>5
        <5>2. QED BY <4>1, <4>3, <4>4, <4>5, <5>1
      <4>6. CASE ~Numbered(m, n)
        BY <4>1, <4>2, <4>3, <4>6
      <4>7. QED BY <4>5, <4>6
    <3>2. QED BY <1>1, <3>1 DEF AwaitingAt
  <2>6. \A id : ~Tells(m, id) /\ (Untold(down'[c], id) <=> Untold(q, id))
    BY <1>3, <1>5, UntoldAppend DEF Tells
  <2>7. AgreesAt(c)'
    <3>1. Agreeing(q, table) => Agreeing(Append(q, m), table)
      BY <1>3, <1>5, AgreeingAppend
    <3>2. QED BY <1>1, <1>5, <3>1 DEF PageInv, AgreesAt
  <2>8. FirstAt(c)'
    BY <1>1, <2>6 DEF PageInv, FirstAt, Asks
  <2>9. LaterAt(c)'
    <3>1. PICK t \in Nat : LaterFrom(c, t)
      BY DEF PageInv, LaterAt
    <3>2. Sure(c)' = Sure(c)
      BY <1>1 DEF Sure
    <3>3. ASSUME whole[c], NEW r \in Sure(c) PROVE SureAt(c, r, t)'
      <4>1. SureAt(c, r, t)
        BY <3>1, <3>3 DEF LaterFrom
      <4>2. Steady(store[c], down'[c], r)
        BY <1>3, <1>5, <4>1, SteadyAppend DEF SureAt
      <4>3. Reached(store[c], down'[c], r)
        BY <1>3, <1>5, <4>1, ReachedAppend DEF SureAt
      <4>4. QED BY <1>1, <2>2, <4>1, <4>2, <4>3 DEF SureAt, Shows, Kept, Asks
    <3>4. LaterFrom(c, t)'
      BY <1>1, <3>1, <3>2, <3>3 DEF LaterFrom
    <3>5. QED BY <3>4 DEF LaterAt
  <2>10. QED BY <2>3, <2>4, <2>5, <2>7, <2>8, <2>9 DEF PageInv
<1>6. QED BY <1>1, <1>4, <1>5

(***************************************************************************)
(* The invariant holds.                                                    *)
(***************************************************************************)
LEMMA SyncBegins == SyncInit => SyncInv
<1> SUFFICES ASSUME SyncInit PROVE SyncInv
  OBVIOUS
<1>1. /\ setting \in Settings /\ now = 1 /\ table = {} /\ running = {}
      /\ phase = [c \in Browser |-> "away"]
      /\ store = [c \in Browser |-> {}] /\ copy = [c \in Browser |-> {}] /\ view = [c \in Browser |-> {}]
      /\ connected = [c \in Browser |-> FALSE]
      /\ up = [c \in Browser |-> <<>>] /\ down = [c \in Browser |-> <<>>]
      /\ pending = [c \in Browser |-> {}] /\ pages = [c \in Browser |-> 0] /\ called = 0 /\ breaks = 0
      /\ whole = [c \in Browser |-> TRUE] /\ fresh = [c \in Browser |-> FALSE]
      /\ overlooked = [c \in Browser |-> {}]
  BY DEF SyncInit
<1>2. setting.maxTime \in Nat \ {0} /\ setting.maxPages \in Nat /\ setting.breaks \in Nat /\ MaxCalls \in Nat
  BY <1>1, SyncServerAssumption
<1>3. Unique({})
  BY DEF Unique
<1>4. TableTyped
  BY <1>1, <1>2, <1>3 DEF TableTyped
<1>5. PagesTyped
  BY <1>1, <1>3 DEF PagesTyped
<1>6. WiresTyped
  BY <1>1 DEF WiresTyped
<1>7. CountsTyped
  BY <1>1, <1>2 DEF CountsTyped
<1>8. ASSUME NEW c \in Browser PROVE PageInv(c)
  <2>1. /\ phase[c] = "away" /\ store[c] = {} /\ copy[c] = {} /\ view[c] = {} /\ ~connected[c]
        /\ up[c] = <<>> /\ down[c] = <<>> /\ Own(c) = {} /\ ~fresh[c]
    BY <1>1 DEF Own
  <2>2. DatedAt(c)
    BY <2>1, NothingTold DEF DatedAt
  <2>3. PageAt(c)
    BY <2>1, NothingSent DEF PageAt, Asks
  <2>4. AwaitingAt(c)
    <3>1. \A n : Runs(c, n) = {}
      BY <2>1 DEF Runs
    <3>2. QED BY <2>1, <3>1, NumbersNone DEF AwaitingAt
  <2>5. AgreesAt(c) /\ FirstAt(c)
    BY <2>1, NothingTold DEF AgreesAt, FirstAt
  <2>6. LaterAt(c)
    <3>1. Sure(c) = {}
      BY <1>1 DEF Sure, Live
    <3>2. LaterFrom(c, 0)
      BY <2>1, <3>1, NothingSent DEF LaterFrom
    <3>3. QED BY <3>2 DEF LaterAt
  <2>7. QED BY <2>2, <2>3, <2>4, <2>5, <2>6 DEF PageInv
<1>9. QED BY <1>4, <1>5, <1>6, <1>7, <1>8 DEF SyncInv, Typed

LEMMA PageStepTyped ==
  ASSUME Typed, NEW b \in Browser, PageInv(b), PageStep(b)
  PROVE  Typed'
<1>1. DatedAt(b)
  BY DEF PageInv
<1>2. QED BY <1>1, MountTyped, LoadedTyped, ReceiveTyped, ServerReceivesTyped, CallActionTyped,
             LeavingTyped, OtherTyped DEF PageStep

LEMMA PageStepAt ==
  ASSUME Typed, NEW b \in Browser, PageInv(b), PageStep(b)
  PROVE  PageInv(b)'
BY MountAt, GetAllAt, LoadedAt, LeaveAt, CallActionAt, CallTimesOutAt, PageReceivesAt,
   ServerReceivesAt, ConnectsAt, BreakAt DEF PageStep

LEMMA SyncStep == SyncInv /\ [SyncNext]_syncVars => SyncInv'
<1> SUFFICES ASSUME SyncInv, [SyncNext]_syncVars PROVE SyncInv'
  OBVIOUS
<1>1. Typed /\ \A c \in Browser : PageInv(c)
  BY DEF SyncInv
<1>2. ASSUME NEW b \in Browser, PageStep(b) PROVE SyncInv'
  <2>1. Typed'
    BY <1>1, <1>2, PageStepTyped
  <2>2. ASSUME NEW c \in Browser PROVE PageInv(c)'
    <3>1. CASE c = b
      BY <1>1, <1>2, <3>1, PageStepAt
    <3>2. CASE c /= b
      BY <1>1, <1>2, <3>2, Elsewhere, SameKeeps
    <3>3. QED BY <3>1, <3>2
  <2>3. QED BY <2>1, <2>2 DEF SyncInv
<1>3. CASE ActionDone
  BY <1>1, <1>3, ServerTyped, ActionDoneAt DEF SyncInv
<1>4. CASE ActionThrows
  BY <1>1, <1>4, ServerTyped, ActionThrowsAt DEF SyncInv
<1>5. CASE Tick
  <2>1. ASSUME NEW c \in Browser PROVE Same(c)
    BY <1>5 DEF Tick, Same, Own, pageVars, wireVars, countVars
  <2>2. QED BY <1>1, <1>5, <2>1, SameKeeps, ServerTyped DEF SyncInv
<1>6. CASE UNCHANGED syncVars
  <2>1. UNCHANGED <<setting, now, table, running, phase, store, copy, view, fresh, connected, up, down,
                    pages, called, breaks, pending, whole, overlooked>>
    BY <1>6 DEF syncVars, serverVars, pageVars, wireVars, countVars
  <2>2. ASSUME NEW c \in Browser PROVE Same(c)
    BY <2>1 DEF Same, Own
  <2>3. Typed'
    BY <1>1, <2>1, SameTyped DEF Typed
  <2>4. QED BY <1>1, <2>2, <2>3, SameKeeps DEF SyncInv
<1>7. QED BY <1>2, <1>3, <1>4, <1>5, <1>6 DEF SyncNext, PageStep

LEMMA SyncInvariance == SyncSpec => []SyncInv
BY SyncBegins, SyncStep, PTL DEF SyncSpec

(***************************************************************************)
(* What follows.                                                           *)
(***************************************************************************)

(* Types: what is sent, stored and shown are records of the table's form,  *)
(* one of each id, and a page that is gone or not connected has nothing    *)
(* under way to it.                                                        *)
THEOREM SyncTypeCorrect == SyncSpec => []SyncTypeOK
<1>1. SyncInv => SyncTypeOK
  <2> SUFFICES ASSUME SyncInv PROVE SyncTypeOK
    OBVIOUS
  <2>1. TableTyped /\ PagesTyped /\ WiresTyped /\ CountsTyped
    BY DEF SyncInv, Typed
  <2>2. ASSUME NEW c \in Browser
        PROVE  /\ phase[c] = "away" => ~connected[c] /\ view[c] = {} /\ up[c] = <<>>
               /\ ~connected[c] => down[c] = <<>>
    BY DEF SyncInv, PageInv, PageAt
  <2>3. ASSUME NEW c \in Browser
        PROVE  /\ store[c] \subseteq Record /\ copy[c] \subseteq Record
               /\ \A r, s \in store[c] : r.id = s.id => r = s
               /\ view[c] \subseteq Live(Record) /\ \A r, s \in view[c] : r.id = s.id => r = s
    BY <2>1 DEF PagesTyped, Unique
  <2>4. ASSUME NEW c \in Browser PROVE up[c] \in Seq(ToServer) /\ down[c] \in Seq(ToPage)
    BY <2>1 DEF WiresTyped
  <2>5. ASSUME NEW c \in Browser PROVE pending[c] \subseteq 1 .. called
    BY <2>1 DEF CountsTyped
  <2>6. /\ setting \in Settings /\ now \in 1 .. setting.maxTime
        /\ table \subseteq Record /\ \A r, s \in table : r.id = s.id => r = s
        /\ running \subseteq [call : Call, page : {"connected", "reconnected", "gone"}]
    BY <2>1 DEF TableTyped, Unique
  <2>7. /\ phase \in [Browser -> {"away", "loading", "read", "asked"}]
        /\ whole \in [Browser -> BOOLEAN] /\ fresh \in [Browser -> BOOLEAN]
    BY <2>1 DEF PagesTyped
  <2>8. connected \in [Browser -> BOOLEAN]
    BY <2>1 DEF WiresTyped
  <2>9. /\ pages \in [Browser -> 0 .. setting.maxPages]
        /\ called \in 0 .. MaxCalls /\ breaks \in 0 .. setting.breaks
        /\ overlooked \in [Browser -> SUBSET (1 .. MaxCalls)]
    BY <2>1 DEF CountsTyped
  <2>10. QED BY <2>2, <2>3, <2>4, <2>5, <2>6, <2>7, <2>8, <2>9 DEF SyncTypeOK
<1>2. QED BY <1>1, SyncInvariance, PTL

LEMMA WillShowIs ==
  ASSUME NEW c, NEW r
  PROVE  r \in WillShow(c) <=>
           \/ r \in view[c] /\ Untold(down[c], r.id)
           \/ \E i \in 1 .. Len(down[c]) : r \in Live(Told(down[c][i])) /\ ToldLast(down[c], i, r.id)
BY DEF WillShow

(* FirstPageAgrees: a browser's first page comes to show the table's       *)
(* records and nothing else, whatever order its sync, the broadcasts and   *)
(* the answers were sent in.                                               *)
THEOREM FirstPageIsRight == SyncSpec => []FirstPageAgrees
<1>1. SyncInv => FirstPageAgrees
  <2> SUFFICES ASSUME SyncInv, NEW c \in Browser, Synced(c), fresh[c], whole[c]
               PROVE  WillShow(c) = Live(table)
    BY DEF FirstPageAgrees
  <2> DEFINE q == down[c]
  <2>1. phase[c] = "asked" /\ ~Asks(c)
    BY SyncedIs DEF SyncInv
  <2>2. q \in Seq(ToPage) /\ view[c] \in SUBSET Live(Record)
    BY DEF SyncInv, Typed, WiresTyped, PagesTyped
  <2>3. /\ \A r \in view[c] : Untold(q, r.id) => r \in table
        /\ \A r \in Live(table) : Untold(q, r.id) => r \in view[c]
        /\ Agreeing(q, table)
    BY <2>1 DEF SyncInv, PageInv, FirstAt, AgreesAt
  <2>4. ASSUME NEW r \in WillShow(c) PROVE r \in Live(table)
    <3>1. CASE r \in view[c] /\ Untold(q, r.id)
      BY <2>2, <2>3, <3>1 DEF Live
    <3>2. ASSUME NEW i \in 1 .. Len(q), r \in Live(Told(q[i])), ToldLast(q, i, r.id)
          PROVE  r \in Live(table)
      <4>1. r \in Told(q[i]) /\ r.deleted = 0
        BY <3>2 DEF Live
      <4>2. r \in table
        BY <2>3, <3>2, <4>1 DEF Agreeing
      <4>3. QED BY <4>1, <4>2 DEF Live
    <3>3. QED BY <3>1, <3>2, WillShowIs
  <2>5. ASSUME NEW r \in Live(table) PROVE r \in WillShow(c)
    <3>1. CASE Untold(q, r.id)
      BY <2>3, <3>1, WillShowIs
    <3>2. CASE ~Untold(q, r.id)
      BY <2>2, <2>3, <3>2, ToldAsItIs, WillShowIs
    <3>3. QED BY <3>1, <3>2
  <2>6. QED BY <2>4, <2>5
<1>2. QED BY <1>1, SyncInvariance, PTL

(* NothingMissing: a page that comes back with what it had stored misses   *)
(* none of the table's records, and shows none as it was, but for changes  *)
(* that were made in the second of an earlier one, or were there when the  *)
(* page was told of another before its sync.                               *)
THEOREM NothingIsMissing == SyncSpec => []NothingMissing
<1>1. SyncInv => NothingMissing
  <2> SUFFICES ASSUME SyncInv, NEW c \in Browser, Synced(c), whole[c],
                      NEW r \in Live(table), r.version \notin overlooked[c]
               PROVE  r \in WillShow(c)
    BY DEF NothingMissing
  <2> DEFINE q == down[c]
  <2>1. phase[c] = "asked" /\ ~Asks(c)
    BY SyncedIs DEF SyncInv
  <2>2. r \in view[c] \cup ToldBy(q) /\ Agreeing(q, table) /\ q \in Seq(ToPage)
    BY <2>1 DEF SyncInv, PageInv, LaterAt, LaterFrom, Sure, SureAt, Shows, AgreesAt, Typed, WiresTyped
  <2>3. CASE Untold(q, r.id)
    <3>1. r \notin ToldBy(q)
      BY <2>3 DEF ToldBy, Untold, Tells
    <3>2. QED BY <2>2, <2>3, <3>1, WillShowIs
  <2>4. CASE ~Untold(q, r.id)
    BY <2>2, <2>4, ToldAsItIs, WillShowIs
  <2>5. QED BY <2>3, <2>4
<1>2. QED BY <1>1, SyncInvariance, PTL
=============================================================================
