---------------------------- MODULE Lists_proofs ----------------------------
(***************************************************************************)
(* The properties of the two components that are made of lists and of the  *)
(* rows Rows takes from them.                                              *)
(*                                                                         *)
(* Panel: for every set of nodes, every lists the core may have, every     *)
(* filter and any number of workers.                                       *)
(*                                                                         *)
(* ConfigGen: for every set of subscriptions, of settings and of written   *)
(* nodes, and whatever the decoders make of a word.                        *)
(***************************************************************************)
EXTENDS Panel, ConfigGen, FiniteSetTheorems, SequenceTheorems, TLAPS

-----------------------------------------------------------------------------
(* Ordered: a finite set in a strict total order.                          *)

TotalOrder(S, R) ==
  /\ \A a \in S : <<a, a>> \notin R
  /\ \A a, b, c \in S : <<a, b>> \in R /\ <<b, c>> \in R => <<a, c>> \in R
  /\ \A a, b \in S : a # b => <<a, b>> \in R \/ <<b, a>> \in R

Increasing(s, n, R) ==
  \A i, j \in 1 .. n : i < j => <<s[i], s[j]>> \in R

(* The rank of a member, the number of those up to it, is a bijection      *)
(* between S and 1 .. Cardinality(S); its inverse is the order.            *)
LEMMA OrderExists ==
  ASSUME NEW S, IsFiniteSet(S), NEW R, TotalOrder(S, R)
  PROVE  \E s \in [1 .. Cardinality(S) -> S] : Increasing(s, Cardinality(S), R)
<1> DEFINE n == Cardinality(S)
           Below(x) == {y \in S : y = x \/ <<y, x>> \in R}
           rank == [x \in S |-> Cardinality(Below(x))]
<1>1. n \in Nat /\ IsFiniteSet(1 .. n) /\ Cardinality(1 .. n) = n
  BY FS_CardinalityType, FS_Interval
<1>2. ASSUME NEW x \in S
      PROVE  IsFiniteSet(Below(x)) /\ rank[x] \in 1 .. n
  <2>1. Below(x) \in SUBSET S /\ x \in Below(x)
    OBVIOUS
  <2>2. IsFiniteSet(Below(x)) /\ Cardinality(Below(x)) <= n
    BY <2>1, FS_Subset
  <2>3. Cardinality(Below(x)) \in Nat /\ Cardinality(Below(x)) # 0
    <3> HIDE DEF Below
    <3>. QED BY <2>1, <2>2, FS_CardinalityType, FS_EmptySet
  <2>. QED BY <1>1, <2>2, <2>3
<1>3. ASSUME NEW x \in S, NEW y \in S, <<x, y>> \in R
      PROVE  rank[x] < rank[y]
  <2>1. Below(x) \in SUBSET Below(y)
    BY <1>3 DEF TotalOrder
  <2>2. y \in Below(y) /\ y \notin Below(x)
    BY <1>3 DEF TotalOrder
  <2>3. Cardinality(Below(x)) <= Cardinality(Below(y))
        /\ Cardinality(Below(x)) # Cardinality(Below(y))
    <3>1. IsFiniteSet(Below(y))
      BY <1>2
    <3> HIDE DEF Below
    <3>. QED BY <2>1, <2>2, <3>1, FS_Subset
  <2>4. rank[x] \in 1 .. n /\ rank[y] \in 1 .. n
    BY <1>2
  <2>. QED BY <1>1, <2>3, <2>4
<1>4. rank \in [S -> 1 .. n]
  BY <1>2
<1> HIDE DEF rank
<1>5. rank \in Surjection(S, 1 .. n)
  <2>1. ASSUME NEW x \in S, NEW y \in S, x # y PROVE rank[x] # rank[y]
    <3>1. rank[x] < rank[y] \/ rank[y] < rank[x]
      BY <1>3, <2>1 DEF TotalOrder
    <3>. QED BY <1>1, <1>4, <3>1
  <2>2. rank \in Injection(S, 1 .. n)
    BY <1>4, <2>1 DEF Injection, IsInjective
  <2>. QED BY <1>1, <2>2, FS_Injection
<1>6. \A i \in 1 .. n : \E x \in S : rank[x] = i
  BY <1>5 DEF Surjection
<1> DEFINE s == [i \in 1 .. n |-> CHOOSE x \in S : rank[x] = i]
<1>7. \A i \in 1 .. n : s[i] \in S /\ rank[s[i]] = i
  BY <1>6
<1>8. s \in [1 .. n -> S]
  BY <1>7
<1> HIDE DEF s
<1>9. ASSUME NEW i \in 1 .. n, NEW j \in 1 .. n, i < j
      PROVE  <<s[i], s[j]>> \in R
  <2>1. s[i] \in S /\ s[j] \in S /\ rank[s[i]] = i /\ rank[s[j]] = j
    BY <1>7
  <2>2. s[i] # s[j]
    BY <1>1, <1>9, <2>1
  <2>3. ~(<<s[j], s[i]>> \in R)
    <3>1. ~(j < i)
      BY <1>1, <1>9
    <3>. QED BY <1>3, <2>1, <3>1
  <2>. QED BY <2>1, <2>2, <2>3 DEF TotalOrder
<1>. QED BY <1>8, <1>9 DEF Increasing

LEMMA OrderedFacts ==
  ASSUME NEW S, IsFiniteSet(S), NEW R, TotalOrder(S, R)
  PROVE  /\ Cardinality(S) \in Nat
         /\ Ordered(S, R) \in [1 .. Cardinality(S) -> S]
         /\ Increasing(Ordered(S, R), Cardinality(S), R)
         /\ \A x \in S : \E i \in 1 .. Cardinality(S) : Ordered(S, R)[i] = x
<1> DEFINE n == Cardinality(S)
           s == Ordered(S, R)
<1>1. n \in Nat /\ IsFiniteSet(1 .. n) /\ Cardinality(1 .. n) = n
  BY FS_CardinalityType, FS_Interval
<1>2. s \in [1 .. n -> S] /\ Increasing(s, n, R)
  <2>1. \E t \in [1 .. n -> S] :
          \A i, j \in 1 .. n : i < j => <<t[i], t[j]>> \in R
    BY OrderExists DEF Increasing
  <2>2. /\ s \in [1 .. n -> S]
        /\ \A i, j \in 1 .. n : i < j => <<s[i], s[j]>> \in R
    <3> HIDE DEF n
    <3>. QED BY <2>1 DEF Ordered, n
  <2>. QED BY <2>2 DEF Increasing
<1> HIDE DEF s
<1>3. s \in Surjection(1 .. n, S)
  <2>1. ASSUME NEW i \in 1 .. n, NEW j \in 1 .. n, i # j PROVE s[i] # s[j]
    <3>1. i < j \/ j < i
      BY <1>1, <2>1
    <3>2. <<s[i], s[j]>> \in R \/ <<s[j], s[i]>> \in R
      BY <1>2, <3>1 DEF Increasing
    <3>. QED BY <1>2, <3>2 DEF TotalOrder
  <2>2. s \in Injection(1 .. n, S)
    BY <1>2, <2>1 DEF Injection, IsInjective
  <2>. QED BY <1>1, <2>2, FS_Injection
<1>4. \A x \in S : \E i \in 1 .. n : s[i] = x
  BY <1>3 DEF Surjection
<1>. QED BY <1>1, <1>2, <1>4 DEF s

LEMMA InOrderFacts ==
  ASSUME NEW S, IsFiniteSet(S), S \subseteq Nat
  PROVE  /\ Cardinality(S) \in Nat
         /\ InOrder(S) \in [1 .. Cardinality(S) -> S]
         /\ \A i, j \in 1 .. Cardinality(S) : i < j => InOrder(S)[i] < InOrder(S)[j]
         /\ \A x \in S : \E i \in 1 .. Cardinality(S) : InOrder(S)[i] = x
<1> DEFINE R == {p \in S \X S : p[1] < p[2]}
<1>1. \A a, b \in S : <<a, b>> \in R <=> a < b
  OBVIOUS
<1> HIDE DEF R
<1>2. TotalOrder(S, R)
  <2>1. \A a, b \in S : a # b => a < b \/ b < a
    OBVIOUS
  <2>2. \A a, b, c \in S : a < b /\ b < c => a < c
    OBVIOUS
  <2>. QED BY <1>1, <2>1, <2>2 DEF TotalOrder
<1>3. InOrder(S) = Ordered(S, R)
  BY DEF InOrder, R
<1>4. \A i, j \in 1 .. Cardinality(S) : i < j => InOrder(S)[i] < InOrder(S)[j]
  BY <1>1, <1>2, <1>3, OrderedFacts DEF Increasing
<1>. QED BY <1>2, <1>3, <1>4, OrderedFacts

LEMMA OrderedEmpty == ASSUME NEW R PROVE Ordered({}, R) = <<>>
<1>1. TotalOrder({}, R)
  BY DEF TotalOrder
<1>2. IsFiniteSet({}) /\ Cardinality({}) = 0
  BY FS_EmptySet
<1>3. Ordered({}, R) \in [1 .. 0 -> {}]
  BY <1>1, <1>2, OrderedFacts
<1>. QED BY <1>3
-----------------------------------------------------------------------------
(* The lists.                                                              *)

(* What a page keeps of the core's list: rows in the order of their names, *)
(* no name twice; groups with their nodes in order, no node twice; and     *)
(* connections with their traffic.                                         *)
NodeListing(ns) ==
  /\ \E n \in Nat : ns \in [1 .. n -> NODES]
  /\ \A i, j \in DOMAIN ns : i < j => ns[i] < ns[j]

Group(r) == r = [name |-> r.name, all |-> r.all, now |-> r.now]

Listing(p, list) ==
  /\ \E n \in Nat : DOMAIN list = 1 .. n
  /\ \A i \in DOMAIN list : list[i].name \in Nat \ {0}
  /\ \A i, j \in DOMAIN list : i < j => list[i].name < list[j].name
  /\ p = "Proxies" =>
       \A i \in DOMAIN list : /\ Group(list[i])
                             /\ NodeListing(list[i].all)
  /\ p = "Connections" =>
       \A i \in DOMAIN list : list[i].up \in Nat /\ list[i].down \in Nat

CoreTypes ==
  /\ page \in PAGES
  /\ page = "Proxies" => /\ IsFiniteSet(DOMAIN core)
                         /\ DOMAIN core \subseteq Nat \ {0}
                         /\ core \in [DOMAIN core -> SUBSET NODES]
  /\ page = "Connections" => /\ DOMAIN core \subseteq NODES
                             /\ core \in [DOMAIN core -> [up : Nat, down : Nat]]
  /\ page = "Rules" => \E n \in Nat : DOMAIN core = 1 .. n
  /\ page = "Providers" => core \subseteq NODES

ShownTypes ==
  /\ Listing(page, all) /\ filter \subseteq NODES /\ sort \in {"Upload", "Download"}

TestRecord == [nodes : Seq(NODES), next : Nat \ {0},
          at : [Workers -> NODES \cup {FREE, OVER}],
          taken : Seq(NODES), reported : SUBSET NODES, told : BOOLEAN]

TestTypes == tests \in Seq(TestRecord)

Busy(r) == {w \in Workers : r.at[w] \notin {FREE, OVER}}

(* The workers of one test take a prefix of its nodes, which are all       *)
(* different; what is taken is reported or in the hands of a worker; and a *)
(* worker ends only when nothing is left.                                  *)
Shared(r) ==
  /\ \A i, j \in 1 .. Len(r.nodes) : i # j => r.nodes[i] # r.nodes[j]
  /\ Len(r.taken) = IF r.next > Len(r.nodes) THEN Len(r.nodes) ELSE r.next - 1
  /\ \A k \in 1 .. Len(r.taken) : r.taken[k] = r.nodes[k]
  /\ ToSet(r.taken) = r.reported \cup {r.at[w] : w \in Busy(r)}
  /\ \A w \in Workers : r.at[w] = OVER => r.next > Len(r.nodes)
  /\ r.told => \A w \in Workers : r.at[w] = OVER

Sharing == \A t \in DOMAIN tests : Shared(tests[t])

(* What the user sees: the rows and nodes that match the filter and no     *)
(* others, each once, by name; connections with most traffic first, and    *)
(* those with the same traffic by name.                                    *)
Bytes(c, by) == IF by = "Upload" THEN c.up ELSE c.down

ViewShowsMatches ==
  /\ \A i, j \in DOMAIN view : i # j => view[i].name # view[j].name
  /\ page \in {"Connections", "Rules"} =>
       ToSet(view) = {r \in ToSet(all) : r.name \in filter}
  /\ page = "Connections" =>
       \A i, j \in DOMAIN view : i < j =>
         \/ Bytes(view[i], sort) > Bytes(view[j], sort)
         \/ /\ Bytes(view[i], sort) = Bytes(view[j], sort)
            /\ view[i].name < view[j].name
  /\ page = "Rules" =>
       \A i, j \in DOMAIN view : i < j => view[i].name < view[j].name
  /\ page = "Proxies" =>
       /\ DOMAIN view = DOMAIN all
       /\ \A i \in DOMAIN all :
            /\ view[i].name = all[i].name /\ view[i].now = all[i].now
            /\ ToSet(view[i].all) = ToSet(all[i].all) \cap filter
            /\ NodeListing(view[i].all)

-----------------------------------------------------------------------------
(* The rows at some positions, and the list the core sends.                *)

LEMMA NodesFacts ==
  /\ IsFiniteSet(NODES) /\ NODES \subseteq Nat \ {0}
  /\ CONCURRENCY \in Nat \ {0} /\ MAX_CHANGES \in Nat /\ MAX_TASKS \in Nat
  /\ FILTERS \subseteq SUBSET NODES
BY PanelAssumption

LEMMA InOrderOfPositions ==
  ASSUME NEW n \in Nat, NEW I \in SUBSET (1 .. n)
  PROVE  /\ Cardinality(I) \in Nat
         /\ InOrder(I) \in [1 .. Cardinality(I) -> I]
         /\ \A i, j \in 1 .. Cardinality(I) : i < j => InOrder(I)[i] < InOrder(I)[j]
         /\ \A x \in I : \E i \in 1 .. Cardinality(I) : InOrder(I)[i] = x
<1>1. IsFiniteSet(I) /\ I \subseteq Nat
  <2>1. IsFiniteSet(1 .. n)
    BY FS_Interval
  <2>2. IsFiniteSet(I)
    BY <2>1, FS_Subset
  <2>. QED BY <2>2
<1>. QED BY <1>1, InOrderFacts

(* filter(..).collect() keeps the rows of I, in their order.               *)
LEMMA RowsAtFacts ==
  ASSUME NEW seq, NEW n \in Nat, DOMAIN seq = 1 .. n, NEW I \in SUBSET (1 .. n)
  PROVE  /\ Cardinality(I) \in Nat
         /\ DOMAIN RowsAt(seq, I) = 1 .. Cardinality(I)
         /\ \A k \in 1 .. Cardinality(I) : \E i \in I : RowsAt(seq, I)[k] = seq[i]
         /\ \A i \in I : \E k \in 1 .. Cardinality(I) : RowsAt(seq, I)[k] = seq[i]
         /\ \A k, m \in 1 .. Cardinality(I) : k < m =>
              \E i, j \in I : /\ i < j
                              /\ RowsAt(seq, I)[k] = seq[i] /\ RowsAt(seq, I)[m] = seq[j]
<1> DEFINE is == InOrder(I)
           c == Cardinality(I)
<1>1. /\ c \in Nat /\ is \in [1 .. c -> I]
      /\ \A i, j \in 1 .. c : i < j => is[i] < is[j]
      /\ \A x \in I : \E i \in 1 .. c : is[i] = x
  BY InOrderOfPositions
<1>2. /\ DOMAIN RowsAt(seq, I) = 1 .. c
      /\ \A k \in 1 .. c : RowsAt(seq, I)[k] = seq[is[k]]
  BY <1>1 DEF RowsAt
<1> HIDE DEF is, c
<1>3. \A k, m \in 1 .. c : k < m =>
        \E i, j \in I : /\ i < j
                        /\ RowsAt(seq, I)[k] = seq[i] /\ RowsAt(seq, I)[m] = seq[j]
  <2> SUFFICES ASSUME NEW k \in 1 .. c, NEW m \in 1 .. c, k < m
      PROVE  \E i, j \in I : /\ i < j
                             /\ RowsAt(seq, I)[k] = seq[i] /\ RowsAt(seq, I)[m] = seq[j]
    OBVIOUS
  <2>1. is[k] \in I /\ is[m] \in I /\ is[k] < is[m]
    BY <1>1
  <2>. QED BY <1>2, <2>1
<1>4. /\ \A k \in 1 .. c : \E i \in I : RowsAt(seq, I)[k] = seq[i]
      /\ \A i \in I : \E k \in 1 .. c : RowsAt(seq, I)[k] = seq[i]
  <2>1. ASSUME NEW k \in 1 .. c PROVE \E i \in I : RowsAt(seq, I)[k] = seq[i]
    <3>1. is[k] \in I
      BY <1>1
    <3>. QED BY <1>2, <3>1
  <2>2. ASSUME NEW i \in I PROVE \E k \in 1 .. c : RowsAt(seq, I)[k] = seq[i]
    <3>1. PICK k \in 1 .. c : is[k] = i
      BY <1>1
    <3>. QED BY <1>2, <3>1
  <2>. QED BY <2>1, <2>2
<1>. QED BY <1>1, <1>2, <1>3, <1>4 DEF c

LEMMA NoRows == RowsAt(<<>>, {}) = <<>>
<1>1. /\ Cardinality({}) = 0 /\ InOrder({}) \in [1 .. Cardinality({}) -> {}]
  BY FS_EmptySet, InOrderFacts
<1>2. DOMAIN InOrder({}) = {}
  BY <1>1
<1>. QED BY <1>2 DEF RowsAt

LEMMA NodesInOrder ==
  ASSUME NEW S \in SUBSET NODES PROVE NodeListing(InOrder(S))
<1>1. IsFiniteSet(S) /\ S \subseteq Nat
  BY NodesFacts, FS_Subset
<1>2. /\ Cardinality(S) \in Nat
      /\ InOrder(S) \in [1 .. Cardinality(S) -> S]
      /\ \A i, j \in 1 .. Cardinality(S) : i < j => InOrder(S)[i] < InOrder(S)[j]
  BY <1>1, InOrderFacts
<1>3. InOrder(S) \in [1 .. Cardinality(S) -> NODES]
  BY <1>2
<1>. QED BY <1>2, <1>3 DEF NodeListing

(* Named rows: a list of records built over the names of a set in order.   *)
LEMMA NamedInOrder ==
  ASSUME NEW S, IsFiniteSet(S), S \subseteq Nat \ {0}, NEW list,
         DOMAIN list = DOMAIN InOrder(S),
         \A i \in DOMAIN list : list[i].name = InOrder(S)[i]
  PROVE  /\ \E n \in Nat : DOMAIN list = 1 .. n
         /\ \A i \in DOMAIN list : InOrder(S)[i] \in S
         /\ \A i \in DOMAIN list : list[i].name \in Nat \ {0}
         /\ \A i, j \in DOMAIN list : i < j => list[i].name < list[j].name
<1>1. S \subseteq Nat
  OBVIOUS
<1>2. /\ Cardinality(S) \in Nat
      /\ InOrder(S) \in [1 .. Cardinality(S) -> S]
      /\ \A i, j \in 1 .. Cardinality(S) : i < j => InOrder(S)[i] < InOrder(S)[j]
  BY <1>1, InOrderFacts
<1>3. DOMAIN list = 1 .. Cardinality(S)
  BY <1>2
<1>. QED BY <1>2, <1>3

LEMMA SentIsListing == ASSUME CoreTypes PROVE Listing(page, Sent)
<1>1. CASE page = "Proxies"
  <2> DEFINE S == {g \in DOMAIN core : core[g] # {}}
             gs == InOrder(S)
  <2>1. Sent = [i \in DOMAIN gs |-> [name |-> gs[i], all |-> InOrder(core[gs[i]]),
                                     now |-> now[gs[i]]]]
    BY <1>1 DEF Sent
  <2>2. IsFiniteSet(S) /\ S \subseteq Nat \ {0}
    BY <1>1, FS_Subset DEF CoreTypes
  <2>3. /\ DOMAIN Sent = DOMAIN gs
        /\ \A i \in DOMAIN Sent : /\ Sent[i].name = gs[i]
                                  /\ Sent[i].all = InOrder(core[gs[i]])
    BY <2>1
  <2>4. /\ \E n \in Nat : DOMAIN Sent = 1 .. n
        /\ \A i \in DOMAIN Sent : gs[i] \in S
        /\ \A i \in DOMAIN Sent : Sent[i].name \in Nat \ {0}
        /\ \A i, j \in DOMAIN Sent : i < j => Sent[i].name < Sent[j].name
    <3> HIDE DEF S
    <3>. QED BY <2>2, <2>3, NamedInOrder
  <2>5. ASSUME NEW i \in DOMAIN Sent
        PROVE  Group(Sent[i]) /\ NodeListing(Sent[i].all)
    <3>0. Group(Sent[i])
      BY <2>1 DEF Group
    <3>1. core[gs[i]] \in SUBSET NODES
      BY <1>1, <2>4 DEF CoreTypes
    <3>. QED BY <2>3, <3>0, <3>1, NodesInOrder
  <2>. QED BY <1>1, <2>4, <2>5 DEF Listing
<1>2. CASE page = "Connections"
  <2> DEFINE ids == InOrder(DOMAIN core)
  <2>1. Sent = [i \in DOMAIN ids |-> [name |-> ids[i], up |-> core[ids[i]].up,
                                      down |-> core[ids[i]].down]]
    BY <1>2 DEF Sent
  <2>2. IsFiniteSet(DOMAIN core) /\ DOMAIN core \subseteq Nat \ {0}
    BY <1>2, NodesFacts, FS_Subset DEF CoreTypes
  <2>3. /\ DOMAIN Sent = DOMAIN ids
        /\ \A i \in DOMAIN Sent : /\ Sent[i].name = ids[i]
                                  /\ Sent[i].up = core[ids[i]].up
                                  /\ Sent[i].down = core[ids[i]].down
    BY <2>1
  <2>4. /\ \E n \in Nat : DOMAIN Sent = 1 .. n
        /\ \A i \in DOMAIN Sent : ids[i] \in DOMAIN core
        /\ \A i \in DOMAIN Sent : Sent[i].name \in Nat \ {0}
        /\ \A i, j \in DOMAIN Sent : i < j => Sent[i].name < Sent[j].name
    BY <2>2, <2>3, NamedInOrder
  <2>5. \A i \in DOMAIN Sent : Sent[i].up \in Nat /\ Sent[i].down \in Nat
    BY <1>2, <2>3, <2>4 DEF CoreTypes
  <2>. QED BY <1>2, <2>4, <2>5 DEF Listing
<1>3. CASE page = "Rules"
  <2>1. Sent = [i \in DOMAIN core |-> [name |-> i, disabled |-> core[i]]]
    BY <1>3 DEF Sent
  <2>2. PICK n \in Nat : DOMAIN core = 1 .. n
    BY <1>3 DEF CoreTypes
  <2>3. DOMAIN Sent = 1 .. n /\ \A i \in 1 .. n : Sent[i].name = i
    BY <2>1, <2>2
  <2>. QED BY <1>3, <2>3 DEF Listing
<1>4. CASE page = "Providers"
  <2> DEFINE ps == InOrder(core)
  <2>1. Sent = [i \in DOMAIN ps |-> [name |-> ps[i]]]
    BY <1>4 DEF Sent
  <2>2. IsFiniteSet(core) /\ core \subseteq Nat \ {0}
    BY <1>4, NodesFacts, FS_Subset DEF CoreTypes
  <2>3. /\ DOMAIN Sent = DOMAIN ps
        /\ \A i \in DOMAIN Sent : Sent[i].name = ps[i]
    BY <2>1
  <2>4. /\ \E n \in Nat : DOMAIN Sent = 1 .. n
        /\ \A i \in DOMAIN Sent : Sent[i].name \in Nat \ {0}
        /\ \A i, j \in DOMAIN Sent : i < j => Sent[i].name < Sent[j].name
    BY <2>2, <2>3, NamedInOrder
  <2>. QED BY <1>4, <2>4 DEF Listing
<1>. QED BY <1>1, <1>2, <1>3, <1>4 DEF CoreTypes, PAGES

-----------------------------------------------------------------------------
(* The view of a list.                                                     *)

LEMMA MatchingFacts ==
  ASSUME NEW list, NEW n \in Nat, DOMAIN list = 1 .. n, NEW f,
         \A i \in 1 .. n : list[i].name \in Nat,
         \A i, j \in 1 .. n : i < j => list[i].name < list[j].name
  PROVE  /\ \E m \in Nat : DOMAIN Matching(list, f) = 1 .. m
         /\ ToSet(Matching(list, f)) = {r \in ToSet(list) : r.name \in f}
         /\ \A i, j \in DOMAIN Matching(list, f) : i < j =>
              Matching(list, f)[i].name < Matching(list, f)[j].name
<1> DEFINE I == {i \in 1 .. n : list[i].name \in f}
           c == Cardinality(I)
           rows == RowsAt(list, I)
<1>1. Matching(list, f) = rows
  BY DEF Matching
<1>2. I \in SUBSET (1 .. n) /\ \A i \in 1 .. n : i \in I <=> list[i].name \in f
  OBVIOUS
<1> HIDE DEF I
<1>3. /\ c \in Nat /\ DOMAIN rows = 1 .. c
      /\ \A k \in 1 .. c : \E i \in I : rows[k] = list[i]
      /\ \A i \in I : \E k \in 1 .. c : rows[k] = list[i]
      /\ \A k, m \in 1 .. c : k < m =>
           \E i, j \in I : i < j /\ rows[k] = list[i] /\ rows[m] = list[j]
  <2> HIDE DEF c, rows
  <2>1. I \in SUBSET (1 .. n)
    BY <1>2
  <2>2. /\ Cardinality(I) \in Nat
        /\ DOMAIN RowsAt(list, I) = 1 .. Cardinality(I)
        /\ \A k \in 1 .. Cardinality(I) : \E i \in I : RowsAt(list, I)[k] = list[i]
        /\ \A i \in I : \E k \in 1 .. Cardinality(I) : RowsAt(list, I)[k] = list[i]
        /\ \A k, m \in 1 .. Cardinality(I) : k < m =>
             \E i, j \in I : /\ i < j
                             /\ RowsAt(list, I)[k] = list[i]
                             /\ RowsAt(list, I)[m] = list[j]
    BY <2>1, RowsAtFacts
  <2>. QED BY <2>2 DEF c, rows
<1> HIDE DEF c, rows
<1>4. ToSet(rows) = {r \in ToSet(list) : r.name \in f}
  <2>1. ASSUME NEW k \in DOMAIN rows
        PROVE  rows[k] \in ToSet(list) /\ rows[k].name \in f
    <3>1. PICK i \in I : rows[k] = list[i]
      BY <1>3
    <3>. QED BY <1>2, <3>1 DEF ToSet
  <2>2. ASSUME NEW i \in DOMAIN list, list[i].name \in f
        PROVE  list[i] \in ToSet(rows)
    <3>1. PICK k \in 1 .. c : rows[k] = list[i]
      BY <1>2, <1>3, <2>2
    <3>. QED BY <1>3, <3>1 DEF ToSet
  <2>. QED BY <2>1, <2>2 DEF ToSet
<1>5. ASSUME NEW k \in DOMAIN rows, NEW m \in DOMAIN rows, k < m
      PROVE  rows[k].name < rows[m].name
  <2>0. k \in 1 .. c /\ m \in 1 .. c
    BY <1>3
  <2>1. PICK i \in I, j \in I : i < j /\ rows[k] = list[i] /\ rows[m] = list[j]
    BY <1>3, <1>5, <2>0
  <2>. QED BY <1>2, <2>1
<1>. QED BY <1>1, <1>3, <1>4, <1>5

(* The rows v are those of seq, 1 .. n, with most bytes first, and rows    *)
(* with the same bytes as they were.                                       *)
InSortOrder(v, seq, n, by) ==
  /\ DOMAIN v = 1 .. n
  /\ ToSet(v) = ToSet(seq)
  /\ \A k, m \in 1 .. n : k < m =>
       \E i, j \in 1 .. n :
         /\ v[k] = seq[i] /\ v[m] = seq[j]
         /\ \/ Bytes(seq[i], by) > Bytes(seq[j], by)
            \/ Bytes(seq[i], by) = Bytes(seq[j], by) /\ i < j

LEMMA SortedFacts ==
  ASSUME NEW seq, NEW n \in Nat, DOMAIN seq = 1 .. n, NEW by,
         \A i \in 1 .. n : seq[i].up \in Nat /\ seq[i].down \in Nat
  PROVE  InSortOrder(Sorted(seq, by), seq, n, by)
<1> DEFINE bytes == [i \in 1 .. n |->
                       IF by = "Upload" THEN seq[i].up ELSE seq[i].down]
           R == {p \in (1 .. n) \X (1 .. n) :
                   \/ bytes[p[1]] > bytes[p[2]]
                   \/ bytes[p[1]] = bytes[p[2]] /\ p[1] < p[2]}
           is == Ordered(1 .. n, R)
           rows == Sorted(seq, by)
<1>1. \A i \in 1 .. n :
        /\ bytes[i] \in Nat
        /\ bytes[i] = Bytes(seq[i], by)
  BY DEF Bytes
<1>2. rows = [k \in DOMAIN is |-> seq[is[k]]]
  BY DEF Sorted
<1> HIDE DEF bytes
<1>3. \A i, j \in 1 .. n : <<i, j>> \in R <=> \/ bytes[i] > bytes[j]
                                              \/ bytes[i] = bytes[j] /\ i < j
  OBVIOUS
<1> HIDE DEF R
<1>4. TotalOrder(1 .. n, R)
  <2>1. \A a \in 1 .. n : <<a, a>> \notin R
    BY <1>1, <1>3
  <2>2. \A a, b, c \in 1 .. n :
          <<a, b>> \in R /\ <<b, c>> \in R => <<a, c>> \in R
    <3> SUFFICES ASSUME NEW a \in 1 .. n, NEW b \in 1 .. n, NEW c \in 1 .. n,
                        <<a, b>> \in R, <<b, c>> \in R
                 PROVE  <<a, c>> \in R
      OBVIOUS
    <3>1. /\ bytes[a] > bytes[b] \/ (bytes[a] = bytes[b] /\ a < b)
          /\ bytes[b] > bytes[c] \/ (bytes[b] = bytes[c] /\ b < c)
      BY <1>3
    <3>2. bytes[a] \in Nat /\ bytes[b] \in Nat /\ bytes[c] \in Nat
      BY <1>1
    <3>3. bytes[a] > bytes[c] \/ (bytes[a] = bytes[c] /\ a < c)
      BY <3>1, <3>2
    <3>. QED BY <1>3, <3>3
  <2>3. \A a, b \in 1 .. n : a # b => <<a, b>> \in R \/ <<b, a>> \in R
    BY <1>1, <1>3
  <2>. QED BY <2>1, <2>2, <2>3 DEF TotalOrder
<1>5. /\ is \in [1 .. n -> 1 .. n]
      /\ \A i, j \in 1 .. n : i < j => <<is[i], is[j]>> \in R
      /\ \A x \in 1 .. n : \E i \in 1 .. n : is[i] = x
  <2>1. IsFiniteSet(1 .. n) /\ Cardinality(1 .. n) = n
    BY FS_Interval
  <2>2. /\ Ordered(1 .. n, R) \in [1 .. Cardinality(1 .. n) -> 1 .. n]
        /\ Increasing(Ordered(1 .. n, R), Cardinality(1 .. n), R)
        /\ \A x \in 1 .. n : \E i \in 1 .. Cardinality(1 .. n) :
             Ordered(1 .. n, R)[i] = x
    <3> DEFINE S == 1 .. n
    <3>1. IsFiniteSet(S) /\ TotalOrder(S, R)
      BY <1>4, <2>1
    <3> HIDE DEF S
    <3>2. /\ Ordered(S, R) \in [1 .. Cardinality(S) -> S]
          /\ Increasing(Ordered(S, R), Cardinality(S), R)
          /\ \A x \in S : \E i \in 1 .. Cardinality(S) : Ordered(S, R)[i] = x
      BY <3>1, OrderedFacts
    <3>. QED BY <3>2 DEF S
  <2>. QED BY <2>1, <2>2 DEF Increasing
<1> HIDE DEF is
<1>6. DOMAIN rows = 1 .. n /\ \A k \in 1 .. n : rows[k] = seq[is[k]]
  BY <1>2, <1>5
<1> HIDE DEF rows
<1>7. ToSet(rows) = ToSet(seq)
  <2>1. \A k \in 1 .. n : rows[k] \in ToSet(seq)
    BY <1>5, <1>6 DEF ToSet
  <2>2. ASSUME NEW i \in 1 .. n PROVE seq[i] \in ToSet(rows)
    <3>1. PICK k \in 1 .. n : is[k] = i
      BY <1>5
    <3>. QED BY <1>6, <3>1 DEF ToSet
  <2>. QED BY <1>6, <2>1, <2>2 DEF ToSet
<1>8. ASSUME NEW k \in 1 .. n, NEW m \in 1 .. n, k < m
      PROVE  \E i, j \in 1 .. n :
               /\ rows[k] = seq[i] /\ rows[m] = seq[j]
               /\ \/ Bytes(seq[i], by) > Bytes(seq[j], by)
                  \/ Bytes(seq[i], by) = Bytes(seq[j], by) /\ i < j
  <2>1. is[k] \in 1 .. n /\ is[m] \in 1 .. n /\ <<is[k], is[m]>> \in R
    BY <1>5, <1>8
  <2>2. \/ bytes[is[k]] > bytes[is[m]]
        \/ bytes[is[k]] = bytes[is[m]] /\ is[k] < is[m]
    BY <1>3, <2>1
  <2>. QED BY <1>1, <1>6, <2>1, <2>2
<1>9. InSortOrder(rows, seq, n, by)
  BY <1>6, <1>7, <1>8 DEF InSortOrder
<1>. QED BY <1>9 DEF rows

(* ViewOf, page by page.                                                   *)
LEMMA NodesMatching ==
  ASSUME NEW ns, NodeListing(ns), NEW f
  PROVE  LET rows == RowsAt(ns, {k \in DOMAIN ns : ns[k] \in f})
         IN  ToSet(rows) = ToSet(ns) \cap f /\ NodeListing(rows)
<1> DEFINE I == {k \in DOMAIN ns : ns[k] \in f}
           c == Cardinality(I)
           rows == RowsAt(ns, I)
<1>1. PICK n \in Nat : ns \in [1 .. n -> NODES]
  BY DEF NodeListing
<1>2. /\ I \in SUBSET (1 .. n) /\ DOMAIN ns = 1 .. n
      /\ \A k \in 1 .. n : k \in I <=> ns[k] \in f
  BY <1>1
<1> HIDE DEF I
<1>3. /\ c \in Nat /\ DOMAIN rows = 1 .. c
      /\ \A k \in 1 .. c : \E i \in I : rows[k] = ns[i]
      /\ \A i \in I : \E k \in 1 .. c : rows[k] = ns[i]
      /\ \A k, m \in 1 .. c : k < m =>
           \E i, j \in I : i < j /\ rows[k] = ns[i] /\ rows[m] = ns[j]
  <2> HIDE DEF c, rows
  <2>1. /\ Cardinality(I) \in Nat
        /\ DOMAIN RowsAt(ns, I) = 1 .. Cardinality(I)
        /\ \A k \in 1 .. Cardinality(I) : \E i \in I : RowsAt(ns, I)[k] = ns[i]
        /\ \A i \in I : \E k \in 1 .. Cardinality(I) : RowsAt(ns, I)[k] = ns[i]
        /\ \A k, m \in 1 .. Cardinality(I) : k < m =>
             \E i, j \in I : /\ i < j
                             /\ RowsAt(ns, I)[k] = ns[i]
                             /\ RowsAt(ns, I)[m] = ns[j]
    BY <1>2, RowsAtFacts
  <2>. QED BY <2>1 DEF c, rows
<1>4. rows = [k \in 1 .. c |-> rows[k]]
  <2>1. rows = [k \in DOMAIN InOrder(I) |-> ns[InOrder(I)[k]]]
    BY DEF RowsAt
  <2> HIDE DEF c, rows
  <2>. QED BY <1>3, <2>1
<1> HIDE DEF c, rows
<1>5. \A k \in 1 .. c : rows[k] \in NODES
  BY <1>1, <1>2, <1>3
<1>6. rows \in [1 .. c -> NODES]
  BY <1>4, <1>5
<1>7. ToSet(rows) = ToSet(ns) \cap f
  <2>1. ASSUME NEW k \in 1 .. c PROVE rows[k] \in ToSet(ns) \cap f
    <3>1. PICK i \in I : rows[k] = ns[i]
      BY <1>3
    <3>. QED BY <1>2, <3>1 DEF ToSet
  <2>2. ASSUME NEW i \in 1 .. n, ns[i] \in f PROVE ns[i] \in ToSet(rows)
    <3>1. PICK k \in 1 .. c : rows[k] = ns[i]
      BY <1>2, <1>3, <2>2
    <3>. QED BY <1>3, <3>1 DEF ToSet
  <2>3. /\ ToSet(rows) = {rows[k] : k \in 1 .. c}
        /\ ToSet(ns) = {ns[i] : i \in 1 .. n}
    BY <1>2, <1>3 DEF ToSet
  <2>4. ToSet(rows) \subseteq ToSet(ns) \cap f
    BY <2>1, <2>3
  <2>5. ToSet(ns) \cap f \subseteq ToSet(rows)
    BY <2>2, <2>3
  <2>. QED BY <2>4, <2>5
<1>8. ASSUME NEW k \in 1 .. c, NEW m \in 1 .. c, k < m PROVE rows[k] < rows[m]
  <2>1. PICK i \in I, j \in I : i < j /\ rows[k] = ns[i] /\ rows[m] = ns[j]
    BY <1>3, <1>8
  <2>. QED BY <1>2, <2>1 DEF NodeListing
<1>9. NodeListing(rows)
  BY <1>3, <1>6, <1>8 DEF NodeListing
<1>. QED BY <1>7, <1>9 DEF rows, I

LEMMA ProxiesView ==
  ASSUME page = "Proxies", NEW list, NEW f, NEW by, Listing(page, list)
  PROVE  /\ DOMAIN ViewOf(list, f, by) = DOMAIN list
         /\ \A i \in DOMAIN list :
              /\ ViewOf(list, f, by)[i].name = list[i].name
              /\ ViewOf(list, f, by)[i].now = list[i].now
              /\ ToSet(ViewOf(list, f, by)[i].all) = ToSet(list[i].all) \cap f
              /\ NodeListing(ViewOf(list, f, by)[i].all)
<1> DEFINE v == ViewOf(list, f, by)
<1>1. v = [i \in DOMAIN list |->
             [list[i] EXCEPT !.all = RowsAt(list[i].all,
                {k \in DOMAIN list[i].all : list[i].all[k] \in f})]]
  BY DEF ViewOf
<1>2. ASSUME NEW i \in DOMAIN list
      PROVE  /\ v[i].name = list[i].name /\ v[i].now = list[i].now
             /\ ToSet(v[i].all) = ToSet(list[i].all) \cap f
             /\ NodeListing(v[i].all)
  <2> DEFINE rows == RowsAt(list[i].all, {k \in DOMAIN list[i].all :
                                            list[i].all[k] \in f})
  <2>1. v[i] = [list[i] EXCEPT !.all = rows]
    BY <1>1
  <2>2. Group(list[i]) /\ NodeListing(list[i].all)
    BY DEF Listing
  <2>3. ToSet(rows) = ToSet(list[i].all) \cap f /\ NodeListing(rows)
    BY <2>2, NodesMatching
  <2> HIDE DEF rows, v
  <2>4. /\ v[i].name = list[i].name /\ v[i].now = list[i].now
        /\ v[i].all = rows
    BY <2>1, <2>2 DEF Group
  <2>. QED BY <2>3, <2>4
<1>. QED BY <1>1, <1>2

LEMMA RulesView ==
  ASSUME page = "Rules", NEW list, NEW f, NEW by, Listing(page, list)
  PROVE  /\ \E n \in Nat : DOMAIN ViewOf(list, f, by) = 1 .. n
         /\ ToSet(ViewOf(list, f, by)) = {r \in ToSet(list) : r.name \in f}
         /\ \A i, j \in DOMAIN ViewOf(list, f, by) : i < j =>
              ViewOf(list, f, by)[i].name < ViewOf(list, f, by)[j].name
<1>1. ViewOf(list, f, by) = Matching(list, f)
  BY DEF ViewOf
<1>2. PICK n \in Nat : DOMAIN list = 1 .. n
  BY DEF Listing
<1>3. /\ \A i \in 1 .. n : list[i].name \in Nat
      /\ \A i, j \in 1 .. n : i < j => list[i].name < list[j].name
  BY <1>2 DEF Listing
<1>. QED BY <1>1, <1>2, <1>3, MatchingFacts

LEMMA ConnectionsView ==
  ASSUME page = "Connections", NEW list, NEW f, NEW by, Listing(page, list)
  PROVE  /\ \E n \in Nat : DOMAIN ViewOf(list, f, by) = 1 .. n
         /\ ToSet(ViewOf(list, f, by)) = {r \in ToSet(list) : r.name \in f}
         /\ \A k, m \in DOMAIN ViewOf(list, f, by) : k < m =>
              LET c == ViewOf(list, f, by)[k]
                  d == ViewOf(list, f, by)[m]
              IN  \/ Bytes(c, by) > Bytes(d, by)
                  \/ Bytes(c, by) = Bytes(d, by) /\ c.name < d.name
<1> DEFINE kept == Matching(list, f)
           v == ViewOf(list, f, by)
<1>1. v = Sorted(kept, by)
  BY DEF ViewOf
<1>2. PICK n \in Nat : DOMAIN list = 1 .. n
  BY DEF Listing
<1>3. /\ \A i \in 1 .. n : list[i].name \in Nat
      /\ \A i, j \in 1 .. n : i < j => list[i].name < list[j].name
  BY <1>2 DEF Listing
<1>4. /\ \E m \in Nat : DOMAIN kept = 1 .. m
      /\ ToSet(kept) = {r \in ToSet(list) : r.name \in f}
      /\ \A i, j \in DOMAIN kept : i < j => kept[i].name < kept[j].name
  BY <1>2, <1>3, MatchingFacts
<1> HIDE DEF kept, v
<1>5. PICK m \in Nat : DOMAIN kept = 1 .. m
  BY <1>4
<1>6. ASSUME NEW i \in 1 .. m PROVE kept[i].up \in Nat /\ kept[i].down \in Nat
  <2>1. kept[i] \in ToSet(list)
    BY <1>4, <1>5 DEF ToSet
  <2>2. PICK j \in DOMAIN list : kept[i] = list[j]
    BY <2>1 DEF ToSet
  <2>. QED BY <2>2 DEF Listing
<1>7. /\ DOMAIN v = 1 .. m
      /\ ToSet(v) = ToSet(kept)
      /\ \A k, l \in 1 .. m : k < l =>
           \E i, j \in 1 .. m :
             /\ v[k] = kept[i] /\ v[l] = kept[j]
             /\ \/ Bytes(kept[i], by) > Bytes(kept[j], by)
                \/ Bytes(kept[i], by) = Bytes(kept[j], by) /\ i < j
  <2>1. InSortOrder(Sorted(kept, by), kept, m, by)
    <3>1. \A i \in 1 .. m : kept[i].up \in Nat /\ kept[i].down \in Nat
      BY <1>6
    <3>. QED BY <1>5, <3>1, SortedFacts
  <2>. QED BY <1>1, <2>1 DEF InSortOrder
<1>8. ASSUME NEW k \in 1 .. m, NEW l \in 1 .. m, k < l
      PROVE  \/ Bytes(v[k], by) > Bytes(v[l], by)
             \/ Bytes(v[k], by) = Bytes(v[l], by) /\ v[k].name < v[l].name
  <2>1. PICK i \in 1 .. m, j \in 1 .. m :
          /\ v[k] = kept[i] /\ v[l] = kept[j]
          /\ \/ Bytes(kept[i], by) > Bytes(kept[j], by)
             \/ Bytes(kept[i], by) = Bytes(kept[j], by) /\ i < j
    BY <1>7, <1>8
  <2>2. i < j => kept[i].name < kept[j].name
    BY <1>4, <1>5
  <2>. QED BY <2>1, <2>2
<1>. QED BY <1>4, <1>7, <1>8 DEF v

-----------------------------------------------------------------------------
(* What steps there are.                                                   *)

LEMMA CoreSteps ==
  ASSUME [Next]_vars
  PROVE  /\ UNCHANGED page
         /\ UNCHANGED core \/ CoreChanges \/ Close \/ ToggleRule
<1>1. CASE CoreChanges \/ Close \/ ToggleRule
  BY <1>1 DEF CoreChanges, Close, ToggleRule
<1>2. CASE Fetched \/ Filter \/ SortBy
  BY <1>2 DEF Fetched, Filter, SortBy
<1>3. CASE Left \/ Right \/ \E step \in {-1, 1} : MoveGroup(step) \/ MoveItem(step)
  BY <1>3 DEF Left, Right, MoveGroup, MoveItem
<1>4. CASE SelectNode \/ ClearSelection \/ Test
  BY <1>4 DEF SelectNode, ClearSelection, Test
<1>5. CASE \E i \in DOMAIN selects : Put(i) \/ Memorize(i)
  BY <1>5 DEF Put, Memorize
<1>6. CASE Work
  BY <1>6 DEF Work, Tell, Grab, Report
<1>7. CASE UNCHANGED vars
  BY <1>7 DEF vars
<1>. QED BY <1>1, <1>2, <1>3, <1>4, <1>5, <1>6, <1>7 DEF Next

LEMMA ViewSteps ==
  ASSUME [Next]_vars
  PROVE  \/ UNCHANGED <<all, view, filter, sort>>
         \/ Fetched \/ Filter \/ SortBy
         \/ \E t \in DOMAIN tests, w \in Workers : Report(t, w)
<1>1. CASE CoreChanges \/ Close \/ ToggleRule
  BY <1>1 DEF CoreChanges, Close, ToggleRule, shown
<1>2. CASE Left \/ Right \/ \E step \in {-1, 1} : MoveGroup(step) \/ MoveItem(step)
  BY <1>2 DEF Left, Right, MoveGroup, MoveItem
<1>3. CASE SelectNode \/ ClearSelection \/ Test
  BY <1>3 DEF SelectNode, ClearSelection, Test, shown
<1>4. CASE \E i \in DOMAIN selects : Put(i) \/ Memorize(i)
  BY <1>4 DEF Put, Memorize, shown
<1>5. CASE Work
  BY <1>5 DEF Work, Tell, Grab, shown
<1>6. CASE UNCHANGED vars
  BY <1>6 DEF vars, shown
<1>. QED BY <1>1, <1>2, <1>3, <1>4, <1>5, <1>6 DEF Next

LEMMA TestSteps ==
  ASSUME [Next]_vars PROVE UNCHANGED tests \/ Test \/ Work
<1>1. CASE CoreChanges \/ Close \/ ToggleRule
  BY <1>1 DEF CoreChanges, Close, ToggleRule, tasks
<1>2. CASE Fetched \/ Filter \/ SortBy
  BY <1>2 DEF Fetched, Filter, SortBy, tasks
<1>3. CASE Left \/ Right \/ \E step \in {-1, 1} : MoveGroup(step) \/ MoveItem(step)
  BY <1>3 DEF Left, Right, MoveGroup, MoveItem, tasks
<1>4. CASE SelectNode \/ ClearSelection
  BY <1>4 DEF SelectNode, ClearSelection, tasks
<1>5. CASE \E i \in DOMAIN selects : Put(i) \/ Memorize(i)
  BY <1>5 DEF Put, Memorize
<1>6. CASE UNCHANGED vars
  BY <1>6 DEF vars, tasks
<1>. QED BY <1>1, <1>2, <1>3, <1>4, <1>5, <1>6 DEF Next

-----------------------------------------------------------------------------
(* The types.                                                              *)

LEMMA ListsFit ==
  ASSUME page \in PAGES, NEW c, c \in Lists(page)
  PROVE  /\ page = "Proxies" => /\ IsFiniteSet(DOMAIN c)
                                /\ DOMAIN c \subseteq Nat \ {0}
                                /\ c \in [DOMAIN c -> SUBSET NODES]
         /\ page = "Connections" => /\ DOMAIN c \subseteq NODES
                                    /\ c \in [DOMAIN c -> [up : Nat, down : Nat]]
         /\ page = "Rules" => \E n \in Nat : DOMAIN c = 1 .. n
         /\ page = "Providers" => c \subseteq NODES
<1>1. CASE page = "Proxies"
  BY <1>1, PanelAssumption DEF Lists
<1>2. CASE page = "Connections"
  BY <1>2, PanelAssumption DEF Lists
<1>3. CASE page = "Rules"
  <2>1. PICK n \in 0 .. Cardinality(NODES) : c \in [1 .. n -> BOOLEAN]
    BY <1>3 DEF Lists, RuleLists
  <2>2. n \in Nat
    BY NodesFacts, FS_CardinalityType
  <2>. QED BY <1>3, <2>1, <2>2
<1>4. CASE page = "Providers"
  BY <1>4 DEF Lists
<1>. QED BY <1>1, <1>2, <1>3, <1>4 DEF PAGES

LEMMA NoListing == ASSUME NEW p PROVE Listing(p, <<>>)
<1>1. DOMAIN <<>> = 1 .. 0
  OBVIOUS
<1>. QED BY <1>1 DEF Listing

LEMMA InitTypes == ASSUME Init PROVE CoreTypes /\ ShownTypes
<1>1. CoreTypes
  BY ListsFit DEF Init, CoreTypes
<1>2. ShownTypes
  BY NoListing DEF Init, ShownTypes
<1>. QED BY <1>1, <1>2

LEMMA NextCoreTypes == ASSUME CoreTypes, [Next]_vars PROVE CoreTypes'
<1>1. page' = page /\ page \in PAGES
  BY CoreSteps DEF CoreTypes
<1>2. CASE UNCHANGED core
  BY <1>1, <1>2 DEF CoreTypes
<1>3. CASE CoreChanges
  <2>1. core' \in Lists(page)
    BY <1>3 DEF CoreChanges
  <2>2. /\ page = "Proxies" => /\ IsFiniteSet(DOMAIN core')
                               /\ DOMAIN core' \subseteq Nat \ {0}
                               /\ core' \in [DOMAIN core' -> SUBSET NODES]
        /\ page = "Connections" =>
             /\ DOMAIN core' \subseteq NODES
             /\ core' \in [DOMAIN core' -> [up : Nat, down : Nat]]
        /\ page = "Rules" => \E n \in Nat : DOMAIN core' = 1 .. n
        /\ page = "Providers" => core' \subseteq NODES
    BY <1>1, <2>1, ListsFit
  <2>. QED BY <1>1, <2>2 DEF CoreTypes
<1>4. CASE Close
  <2>1. page = "Connections"
    BY <1>4 DEF Close
  <2>2. PICK gone : core' = [c \in DOMAIN core \ gone |-> core[c]]
    BY <1>4 DEF Close
  <2>3. /\ DOMAIN core' \subseteq NODES
        /\ core' \in [DOMAIN core' -> [up : Nat, down : Nat]]
    BY <2>1, <2>2 DEF CoreTypes
  <2>. QED BY <1>1, <2>1, <2>3 DEF CoreTypes
<1>5. CASE ToggleRule
  <2>1. page = "Rules" /\ DOMAIN core' = DOMAIN core
    BY <1>5 DEF ToggleRule
  <2>. QED BY <1>1, <2>1 DEF CoreTypes
<1>. QED BY <1>2, <1>3, <1>4, <1>5, CoreSteps

LEMMA NextShownTypes ==
  ASSUME CoreTypes, ShownTypes, [Next]_vars PROVE ShownTypes'
<1>1. page' = page
  BY CoreSteps
<1>2. CASE UNCHANGED <<all, view, filter, sort>>
  BY <1>1, <1>2 DEF ShownTypes
<1>3. CASE Fetched
  <2>1. all' = Sent /\ filter' = filter /\ sort' = sort
    BY <1>3 DEF Fetched, Shows
  <2>. QED BY <1>1, <2>1, SentIsListing DEF ShownTypes
<1>4. CASE Filter
  <2>1. all' = all /\ filter' \in FILTERS /\ sort' = sort
    BY <1>4 DEF Filter, SetFilter
  <2>. QED BY <1>1, <2>1, NodesFacts DEF ShownTypes
<1>5. CASE SortBy
  BY <1>1, <1>5 DEF SortBy, ShownTypes
<1>6. CASE \E t \in DOMAIN tests, w \in Workers : Report(t, w)
  BY <1>1, <1>6 DEF Report, ShownTypes
<1>. QED BY <1>2, <1>3, <1>4, <1>5, <1>6, ViewSteps

(* The core's lists and the page's are of their kind: rows by name, no     *)
(* name twice, and the nodes of a group by name and no node twice.         *)
THEOREM TypeInvariant == Spec => [](CoreTypes /\ ShownTypes)
<1>1. Init => CoreTypes /\ ShownTypes
  BY InitTypes
<1>2. CoreTypes /\ ShownTypes /\ [Next]_vars => (CoreTypes /\ ShownTypes)'
  BY NextCoreTypes, NextShownTypes
<1>. QED BY <1>1, <1>2, PTL DEF Spec

-----------------------------------------------------------------------------
(* The view.                                                               *)

LEMMA NoView ==
  ASSUME page \in PAGES, NEW f, NEW by PROVE ViewOf(<<>>, f, by) = <<>>
<1>1. Matching(<<>>, f) = <<>>
  <2>1. {i \in DOMAIN <<>> : <<>>[i].name \in f} = {}
    OBVIOUS
  <2>. QED BY <2>1, NoRows DEF Matching
<1>2. Sorted(<<>>, by) = <<>>
  <2>1. DOMAIN <<>> = {}
    OBVIOUS
  <2>2. \A R : Ordered(DOMAIN <<>>, R) = <<>>
    BY <2>1, OrderedEmpty
  <2>3. \E R : Sorted(<<>>, by) = [k \in DOMAIN Ordered(DOMAIN <<>>, R) |->
                                     <<>>[Ordered(DOMAIN <<>>, R)[k]]]
    BY Zenon DEF Sorted
  <2>. QED BY <2>1, <2>2, <2>3
<1>3. CASE page = "Proxies"
  BY <1>3 DEF ViewOf
<1>4. CASE page = "Connections"
  BY <1>1, <1>2, <1>4 DEF ViewOf
<1>5. CASE page = "Rules"
  BY <1>1, <1>5 DEF ViewOf
<1>6. CASE page = "Providers"
  BY <1>6 DEF ViewOf
<1>. QED BY <1>3, <1>4, <1>5, <1>6 DEF PAGES

LEMMA InitView == ASSUME Init PROVE ViewIsCurrent
<1>1. page \in PAGES /\ all = <<>> /\ view = <<>>
  BY DEF Init
<1>. QED BY <1>1, NoView DEF ViewIsCurrent

LEMMA NextView == ASSUME ViewIsCurrent, [Next]_vars PROVE ViewIsCurrent'
<1>1. page' = page
  BY CoreSteps
<1>2. ASSUME view' = ViewOf(all', filter', sort') PROVE ViewIsCurrent'
  BY <1>1, <1>2 DEF ViewIsCurrent, ViewOf
<1>3. CASE UNCHANGED <<all, view, filter, sort>>
  BY <1>2, <1>3 DEF ViewIsCurrent
<1>4. CASE Fetched
  BY <1>2, <1>4 DEF Fetched, Shows
<1>5. CASE Filter
  BY <1>2, <1>5 DEF Filter, SetFilter
<1>6. CASE SortBy
  BY <1>2, <1>6 DEF SortBy
<1>7. CASE \E t \in DOMAIN tests, w \in Workers : Report(t, w)
  BY <1>2, <1>7 DEF Report
<1>. QED BY <1>3, <1>4, <1>5, <1>6, <1>7, ViewSteps

(* The view is that of the last list, the filter and the order in force,   *)
(* after whatever list, key or measured delay changed one of them.         *)
THEOREM ViewIsCurrentAlways == Spec => []ViewIsCurrent
<1>1. Init => ViewIsCurrent
  BY InitView
<1>2. ViewIsCurrent /\ [Next]_vars => ViewIsCurrent'
  BY NextView
<1>. QED BY <1>1, <1>2, PTL DEF Spec

LEMMA CurrentShowsMatches ==
  ASSUME CoreTypes, ShownTypes, ViewIsCurrent PROVE ViewShowsMatches
<1>1. page \in PAGES /\ Listing(page, all) /\ view = ViewOf(all, filter, sort)
  BY DEF CoreTypes, ShownTypes, ViewIsCurrent
<1>2. CASE page = "Proxies"
  <2>1. /\ DOMAIN view = DOMAIN all
        /\ \A i \in DOMAIN all :
             /\ view[i].name = all[i].name /\ view[i].now = all[i].now
             /\ ToSet(view[i].all) = ToSet(all[i].all) \cap filter
             /\ NodeListing(view[i].all)
    BY <1>1, <1>2, ProxiesView
  <2>2. ASSUME NEW i \in DOMAIN view, NEW j \in DOMAIN view, i # j
        PROVE  view[i].name # view[j].name
    <3>1. i \in Nat /\ j \in Nat /\ all[i].name \in Nat /\ all[j].name \in Nat
      BY <1>1, <2>1 DEF Listing
    <3>2. i < j \/ j < i
      BY <2>2, <3>1
    <3>3. all[i].name < all[j].name \/ all[j].name < all[i].name
      BY <1>1, <2>1, <3>2 DEF Listing
    <3>. QED BY <2>1, <3>1, <3>3
  <2>. QED BY <1>2, <2>1, <2>2 DEF ViewShowsMatches
<1>3. CASE page \in {"Connections", "Rules"}
  <2>1. /\ \E n \in Nat : DOMAIN view = 1 .. n
        /\ ToSet(view) = {r \in ToSet(all) : r.name \in filter}
    BY <1>1, <1>3, RulesView, ConnectionsView
  <2>2. page = "Rules" =>
          \A i, j \in DOMAIN view : i < j => view[i].name < view[j].name
    BY <1>1, RulesView
  <2>3. page = "Connections" =>
          \A i, j \in DOMAIN view : i < j =>
            \/ Bytes(view[i], sort) > Bytes(view[j], sort)
            \/ /\ Bytes(view[i], sort) = Bytes(view[j], sort)
               /\ view[i].name < view[j].name
    BY <1>1, ConnectionsView
  <2>4. ASSUME NEW i \in DOMAIN view
        PROVE  /\ i \in Nat /\ view[i].name \in Nat
               /\ page = "Connections" => Bytes(view[i], sort) \in Nat
    <3>0. i \in Nat /\ view[i] \in ToSet(view)
      BY <2>1, <2>4 DEF ToSet
    <3>1. view[i] \in ToSet(all) /\ i \in Nat
      BY <2>1, <3>0
    <3>2. PICK k \in DOMAIN all : view[i] = all[k]
      BY <3>1 DEF ToSet
    <3>. QED BY <1>1, <3>1, <3>2 DEF Listing, Bytes
  <2>5. ASSUME NEW i \in DOMAIN view, NEW j \in DOMAIN view, i < j
        PROVE  view[i].name # view[j].name
    <3>1. CASE page = "Rules"
      BY <2>2, <2>4, <2>5, <3>1
    <3>2. CASE page = "Connections"
      <4>1. \/ Bytes(view[i], sort) > Bytes(view[j], sort)
            \/ /\ Bytes(view[i], sort) = Bytes(view[j], sort)
               /\ view[i].name < view[j].name
        BY <2>3, <2>5, <3>2
      <4>2. CASE view[i] = view[j]
        BY <2>4, <3>2, <4>1, <4>2
      <4>3. CASE view[i] # view[j]
        <5>1. view[i] \in ToSet(all) /\ view[j] \in ToSet(all)
          BY <2>1 DEF ToSet
        <5>2. PICK k \in DOMAIN all, m \in DOMAIN all :
                view[i] = all[k] /\ view[j] = all[m]
          BY <5>1 DEF ToSet
        <5>3. k \in Nat /\ m \in Nat /\ k # m
          BY <1>1, <4>3, <5>2 DEF Listing
        <5>4. k < m \/ m < k
          BY <5>3
        <5>5. all[k].name < all[m].name \/ all[m].name < all[k].name
          BY <1>1, <5>4 DEF Listing
        <5>. QED BY <2>4, <5>2, <5>5
      <4>. QED BY <4>2, <4>3
    <3>. QED BY <1>3, <3>1, <3>2
  <2>6. \A i, j \in DOMAIN view : i # j => view[i].name # view[j].name
    BY <2>4, <2>5
  <2>. QED BY <1>3, <2>1, <2>2, <2>3, <2>6 DEF ViewShowsMatches
<1>4. CASE page = "Providers"
  <2>1. view = all
    BY <1>1, <1>4 DEF ViewOf
  <2>2. ASSUME NEW i \in DOMAIN view, NEW j \in DOMAIN view, i # j
        PROVE  view[i].name # view[j].name
    <3>1. i \in Nat /\ j \in Nat /\ all[i].name \in Nat /\ all[j].name \in Nat
      BY <1>1, <2>1 DEF Listing
    <3>2. i < j \/ j < i
      BY <2>2, <3>1
    <3>3. all[i].name < all[j].name \/ all[j].name < all[i].name
      BY <1>1, <2>1, <3>2 DEF Listing
    <3>. QED BY <2>1, <3>1, <3>3
  <2>. QED BY <1>4, <2>2 DEF ViewShowsMatches
<1>. QED BY <1>1, <1>2, <1>3, <1>4 DEF PAGES

(* The user sees every row and node that matches the filter and no other,  *)
(* once, in the order of names, or of traffic for connections.             *)
THEOREM ViewShowsMatchesAlways == Spec => []ViewShowsMatches
<1>1. Spec => [](CoreTypes /\ ShownTypes)
  BY TypeInvariant
<1>2. Spec => []ViewIsCurrent
  BY ViewIsCurrentAlways
<1>3. CoreTypes /\ ShownTypes /\ ViewIsCurrent => ViewShowsMatches
  BY CurrentShowsMatches
<1>. QED BY <1>1, <1>2, <1>3, PTL

-----------------------------------------------------------------------------
(* The cursor.                                                             *)

LEMMA PositionFacts ==
  ASSUME NEW seq, NEW g \in DOMAIN seq, g # 0,
         \A i \in DOMAIN seq : i # g => seq[i] # seq[g]
  PROVE  PositionOf(seq, seq[g]) = g
BY DEF PositionOf

LEMMA FoundAt ==
  ASSUME NEW seq, NEW x, \E i \in DOMAIN seq : seq[i] = x
  PROVE  PositionOf(seq, x) \in DOMAIN seq /\ seq[PositionOf(seq, x)] = x
BY DEF PositionOf

LEMMA FetchFollows ==
  ASSUME CoreTypes, ShownTypes, page = "Proxies", Fetched,
         SelectedNode # NOBODY,
         NEW g \in DOMAIN view', view'[g].name = SelectedGroup,
         SelectedNode \in ToSet(view'[g].all)
  PROVE  SelectedGroup' = SelectedGroup /\ SelectedNode' = SelectedNode
<1> DEFINE v == view'
           names == [i \in DOMAIN v |-> v[i].name]
<1>1. Listing(page, Sent)
  BY SentIsListing
<1>2. /\ DOMAIN v = DOMAIN Sent
      /\ \A i \in DOMAIN Sent : v[i].name = Sent[i].name /\ NodeListing(v[i].all)
  <2>1. v = ViewOf(Sent, filter, sort)
    BY DEF Fetched, Shows
  <2>. QED BY <1>1, <2>1, ProxiesView
<1>3. PICK n \in Nat : DOMAIN v = 1 .. n
  BY <1>1, <1>2 DEF Listing
<1>4. ASSUME NEW i \in DOMAIN v, i # g PROVE v[i].name # v[g].name
  <2>1. /\ i \in Nat /\ g \in Nat /\ Sent[i].name \in Nat /\ Sent[g].name \in Nat
    BY <1>1, <1>2, <1>3 DEF Listing
  <2>2. i < g \/ g < i
    BY <1>4, <2>1
  <2>3. Sent[i].name < Sent[g].name \/ Sent[g].name < Sent[i].name
    BY <1>1, <1>2, <2>2 DEF Listing
  <2>. QED BY <1>2, <2>1, <2>3
<1>5. cursor' = GroupCursor(v)
  BY DEF Fetched, Shows
<1> HIDE DEF v
<1>6. PositionOf(names, SelectedGroup) = g
  <2>1. /\ g \in DOMAIN names /\ g # 0 /\ names[g] = SelectedGroup
        /\ \A i \in DOMAIN names : i # g => names[i] # names[g]
    BY <1>3, <1>4 DEF v
  <2> HIDE DEF names
  <2>. QED BY <2>1, PositionFacts
<1> DEFINE i == PositionOf(v[g].all, SelectedNode)
<1>7. i \in DOMAIN v[g].all /\ v[g].all[i] = SelectedNode
  <2>1. \E k \in DOMAIN v[g].all : v[g].all[k] = SelectedNode
    BY DEF v, ToSet
  <2>. QED BY <2>1, FoundAt
<1>8. i # 0
  <2>1. PICK m \in Nat : v[g].all \in [1 .. m -> NODES]
    BY <1>2 DEF NodeListing, v
  <2>. QED BY <1>7, <2>1
<1> HIDE DEF i
<1>9. cursor' = [group |-> g, item |-> i]
  <2>1. v # <<>> /\ g # 0
    BY <1>3 DEF v
  <2>. QED BY <1>5, <1>6, <1>8, <2>1 DEF GroupCursor, i
<1>10. SelectedGroup' = SelectedGroup
  BY <1>9 DEF SelectedGroup
<1>11. SelectedNode' = SelectedNode
  <2>1. NodesAt(v, cursor') = v[g].all
    BY <1>9 DEF NodesAt, v
  <2>2. SelectedNode' = (IF cursor'.item \in DOMAIN NodesAt(v, cursor')
                         THEN NodesAt(v, cursor')[cursor'.item] ELSE NOBODY)
    BY DEF SelectedNode, NodesAt, v, NOBODY
  <2>. QED BY <1>7, <1>9, <2>1, <2>2
<1>. QED BY <1>10, <1>11

LEMMA OnlyFetchedLists ==
  ASSUME [Next]_vars, all' # all PROVE Fetched
<1>1. ~Filter /\ ~SortBy /\ ~\E t \in DOMAIN tests, w \in Workers : Report(t, w)
  BY DEF Filter, SortBy, Report
<1>. QED BY <1>1, ViewSteps

(* When the core's list of groups arrives, the cursor stays on its node as *)
(* long as the group is there and still shows it, wherever the list moved  *)
(* the two.                                                                *)
THEOREM CursorFollowsNodeAlways == Spec => CursorFollowsNode
<1> DEFINE Follows ==
      page = "Proxies" /\ all' # all /\ SelectedNode # NOBODY =>
        \A g \in DOMAIN view' :
          /\ view'[g].name = SelectedGroup
          /\ SelectedNode \in ToSet(view'[g].all)
          => SelectedGroup' = SelectedGroup /\ SelectedNode' = SelectedNode
<1>1. Spec => [](CoreTypes /\ ShownTypes)
  BY TypeInvariant
<1>2. CoreTypes /\ ShownTypes /\ [Next]_vars => [Follows]_vars
  BY OnlyFetchedLists, FetchFollows
<1>. QED BY <1>1, <1>2, PTL DEF Spec, CursorFollowsNode

-----------------------------------------------------------------------------
(* The tests.                                                              *)

LEMMA WorkerFacts ==
  /\ CONCURRENCY \in Nat /\ 1 \in Workers /\ Workers \subseteq Nat
  /\ FREE = 0 /\ OVER = -1
  /\ \A n \in NODES : n \in Nat /\ n # FREE /\ n # OVER
BY NodesFacts DEF Workers, FREE, OVER

(* What a test begins with.                                                *)
Fresh(ns) == [nodes |-> ns, next |-> 1, at |-> [w \in Workers |-> FREE],
              taken |-> <<>>, reported |-> {}, told |-> FALSE]

LEMMA FreshIsShared ==
  ASSUME NEW ns, NodeListing(ns)
  PROVE  Fresh(ns) \in TestRecord /\ Shared(Fresh(ns))
<1> DEFINE r == Fresh(ns)
<1>1. PICK n \in Nat : ns \in [1 .. n -> NODES]
  BY DEF NodeListing
<1>2. ns \in Seq(NODES) /\ Len(ns) = n /\ DOMAIN ns = 1 .. n
  BY <1>1
<1>3. /\ r.nodes = ns /\ r.next = 1 /\ r.taken = <<>> /\ r.reported = {}
      /\ r.told = FALSE /\ \A w \in Workers : r.at[w] = FREE
      /\ r.at \in [Workers -> {FREE}]
  BY DEF Fresh
<1>4. r \in TestRecord
  BY <1>2 DEF Fresh, TestRecord
<1>5. ASSUME NEW i \in 1 .. Len(ns), NEW j \in 1 .. Len(ns), i # j
      PROVE  ns[i] # ns[j]
  <2>1. i < j \/ j < i
    BY <1>2, <1>5
  <2>2. ns[i] < ns[j] \/ ns[j] < ns[i]
    BY <1>2, <2>1 DEF NodeListing
  <2>3. ns[i] \in Nat /\ ns[j] \in Nat
    BY <1>1, <1>2, WorkerFacts
  <2>. QED BY <2>2, <2>3
<1>6. Len(r.taken) = 0 /\ ToSet(r.taken) = {}
  BY <1>3 DEF ToSet
<1>7. Busy(r) = {}
  BY <1>3 DEF Busy
<1> HIDE DEF r
<1>8. Shared(r)
  <2>1. Len(r.taken) = IF r.next > Len(r.nodes) THEN Len(r.nodes) ELSE r.next - 1
    BY <1>2, <1>3, <1>6
  <2>2. ToSet(r.taken) = r.reported \cup {r.at[w] : w \in Busy(r)}
    BY <1>3, <1>6, <1>7
  <2>3. \A w \in Workers : r.at[w] = OVER => r.next > Len(r.nodes)
    BY <1>3, WorkerFacts
  <2>4. \A k \in 1 .. Len(r.taken) : r.taken[k] = r.nodes[k]
    BY <1>6
  <2>5. \A i, j \in 1 .. Len(r.nodes) : i # j => r.nodes[i] # r.nodes[j]
    BY <1>3, <1>5
  <2>. QED BY <1>3, <2>1, <2>2, <2>3, <2>4, <2>5 DEF Shared
<1>. QED BY <1>4, <1>8 DEF r

(* The group under the cursor is one of the list.                          *)
LEMMA TestedGroup ==
  ASSUME CoreTypes, ShownTypes, ViewIsCurrent, page = "Proxies",
         SelectedGroup # NOBODY
  PROVE  NodeListing(GroupNodes)
<1> DEFINE names == [i \in DOMAIN all |-> all[i].name]
<1>1. Listing(page, all) /\ view = ViewOf(all, filter, sort)
  BY DEF ShownTypes, ViewIsCurrent
<1>2. /\ DOMAIN view = DOMAIN all
      /\ \A i \in DOMAIN all : view[i].name = all[i].name
  BY <1>1, ProxiesView
<1>3. cursor.group \in DOMAIN view /\ SelectedGroup = view[cursor.group].name
  BY DEF SelectedGroup
<1>4. \E i \in DOMAIN names : names[i] = SelectedGroup
  BY <1>2, <1>3
<1>5. PositionOf(names, SelectedGroup) \in DOMAIN names
  <2> HIDE DEF names
  <2>. QED BY <1>4, FoundAt
<1>6. PositionOf(names, SelectedGroup) \in DOMAIN all
  BY <1>5
<1> HIDE DEF names
<1>7. GroupNodes = all[PositionOf(names, SelectedGroup)].all
  BY DEF GroupNodes, names
<1>. QED BY <1>1, <1>6, <1>7 DEF Listing

(* One worker's step, seen from its test: r becomes q.                     *)
Took(r, w, q) ==
  /\ r.at[w] = FREE
  /\ r.next \in 1 .. Len(r.nodes)
  /\ q = [r EXCEPT !.next = r.next + 1,
                   !.at = [r.at EXCEPT ![w] = r.nodes[r.next]],
                   !.taken = Append(r.taken, r.nodes[r.next])]

Ended(r, w, q) ==
  /\ r.at[w] = FREE
  /\ r.next \notin 1 .. Len(r.nodes)
  /\ q = [r EXCEPT !.next = r.next + 1, !.at = [r.at EXCEPT ![w] = OVER]]

ReportedBy(r, w, q) ==
  /\ r.at[w] \notin {FREE, OVER}
  /\ q = [r EXCEPT !.at = [r.at EXCEPT ![w] = FREE],
                   !.reported = r.reported \cup {r.at[w]}]

Told(r, q) ==
  /\ \A w \in Workers : r.at[w] = OVER
  /\ q = [r EXCEPT !.told = TRUE]

LEMMA TookShares ==
  ASSUME NEW r \in TestRecord, Shared(r), NEW w \in Workers, NEW q, Took(r, w, q)
  PROVE  q \in TestRecord /\ Shared(q)
<1> DEFINE n == Len(r.nodes)
           x == r.nodes[r.next]
<1>1. /\ r.nodes \in Seq(NODES) /\ r.next \in Nat \ {0}
      /\ r.at \in [Workers -> NODES \cup {FREE, OVER}]
      /\ r.taken \in Seq(NODES) /\ r.reported \in SUBSET NODES /\ r.told \in BOOLEAN
  BY DEF TestRecord
<1>2. n \in Nat /\ r.next \in 1 .. n /\ r.at[w] = FREE /\ x \in NODES
  BY <1>1 DEF Took
<1>3. /\ q.nodes = r.nodes /\ q.next = r.next + 1
      /\ q.at = [r.at EXCEPT ![w] = x] /\ q.taken = Append(r.taken, x)
      /\ q.reported = r.reported /\ q.told = r.told
  BY DEF Took, TestRecord
<1>4. q \in TestRecord
  <2>1. q.at \in [Workers -> NODES \cup {FREE, OVER}] /\ q.taken \in Seq(NODES)
    BY <1>1, <1>2, <1>3
  <2>2. q.next \in Nat \ {0}
    BY <1>1, <1>3
  <2>3. q = [nodes |-> q.nodes, next |-> q.next, at |-> q.at, taken |-> q.taken,
             reported |-> q.reported, told |-> q.told]
    BY DEF Took, TestRecord
  <2>. QED BY <1>1, <1>3, <2>1, <2>2, <2>3 DEF TestRecord
<1>5. Len(r.taken) = r.next - 1 /\ \A k \in 1 .. Len(r.taken) : r.taken[k] = r.nodes[k]
  BY <1>1, <1>2 DEF Shared
<1> HIDE DEF x
<1>6. /\ Len(q.taken) = r.next
      /\ \A k \in 1 .. r.next - 1 : q.taken[k] = r.taken[k]
      /\ q.taken[r.next] = x
  <2>1. Len(Append(r.taken, x)) = Len(r.taken) + 1
    BY <1>1, <1>2
  <2>2. \A k \in 1 .. Len(r.taken) : Append(r.taken, x)[k] = r.taken[k]
    BY <1>1, <1>2
  <2>3. Append(r.taken, x)[Len(r.taken) + 1] = x
    BY <1>1, <1>2
  <2>. QED BY <1>1, <1>3, <1>5, <2>1, <2>2, <2>3
<1>7. Len(q.taken) = IF q.next > n THEN n ELSE q.next - 1
  BY <1>1, <1>2, <1>3, <1>6
<1>8. \A k \in 1 .. Len(q.taken) : q.taken[k] = r.nodes[k]
  BY <1>1, <1>2, <1>5, <1>6 DEF x
<1>9. ToSet(q.taken) = q.reported \cup {q.at[v] : v \in Busy(q)}
  <2>1. ToSet(q.taken) = ToSet(r.taken) \cup {x}
    <3>1. DOMAIN q.taken = 1 .. r.next /\ DOMAIN r.taken = 1 .. r.next - 1
      BY <1>1, <1>2, <1>3, <1>5, <1>6
    <3>2. \A k \in 1 .. r.next : k = r.next \/ k \in 1 .. r.next - 1
      BY <1>1
    <3>3. r.next \in 1 .. r.next /\ \A k \in 1 .. r.next - 1 : k \in 1 .. r.next
      BY <1>1
    <3>4. ToSet(q.taken) \subseteq ToSet(r.taken) \cup {x}
      BY <1>6, <3>1, <3>2 DEF ToSet
    <3>5. ToSet(r.taken) \cup {x} \subseteq ToSet(q.taken)
      BY <1>6, <3>1, <3>3 DEF ToSet
    <3>. QED BY <3>4, <3>5
  <2>2. /\ q.at[w] = x /\ x \notin {FREE, OVER}
        /\ \A v \in Workers : v # w => q.at[v] = r.at[v]
    BY <1>1, <1>2, <1>3, WorkerFacts
  <2>3. Busy(q) = Busy(r) \cup {w} /\ w \notin Busy(r)
    BY <1>2, <2>2 DEF Busy
  <2>4. {q.at[v] : v \in Busy(q)} = {r.at[v] : v \in Busy(r)} \cup {x}
    BY <2>2, <2>3 DEF Busy
  <2>5. ToSet(r.taken) = r.reported \cup {r.at[v] : v \in Busy(r)}
    BY DEF Shared
  <2>. QED BY <1>3, <2>1, <2>4, <2>5
<1>10. \A v \in Workers : q.at[v] = OVER => q.next > n
  <2>1. ASSUME NEW v \in Workers, q.at[v] = OVER PROVE q.next > n
    <3>1. v # w /\ r.at[v] = OVER
      BY <1>1, <1>2, <1>3, <2>1, WorkerFacts
    <3>2. r.next > n
      BY <3>1 DEF Shared
    <3>. QED BY <1>2, <3>2
  <2>. QED BY <2>1
<1>11. ~q.told
  <2>1. r.told => r.at[w] = OVER
    BY DEF Shared
  <2>. QED BY <1>2, <1>3, <2>1, WorkerFacts
<1>12. \A i, j \in 1 .. Len(q.nodes) : i # j => q.nodes[i] # q.nodes[j]
  BY <1>3 DEF Shared
<1>. QED BY <1>3, <1>4, <1>7, <1>8, <1>9, <1>10, <1>11, <1>12 DEF Shared

LEMMA EndedShares ==
  ASSUME NEW r \in TestRecord, Shared(r), NEW w \in Workers, NEW q, Ended(r, w, q)
  PROVE  q \in TestRecord /\ Shared(q)
<1> DEFINE n == Len(r.nodes)
<1>1. /\ r.nodes \in Seq(NODES) /\ r.next \in Nat \ {0}
      /\ r.at \in [Workers -> NODES \cup {FREE, OVER}]
      /\ r.taken \in Seq(NODES) /\ r.reported \in SUBSET NODES /\ r.told \in BOOLEAN
  BY DEF TestRecord
<1>2. n \in Nat /\ r.next > n /\ r.at[w] = FREE
  BY <1>1 DEF Ended
<1>3. /\ q.nodes = r.nodes /\ q.next = r.next + 1
      /\ q.at = [r.at EXCEPT ![w] = OVER] /\ q.taken = r.taken
      /\ q.reported = r.reported /\ q.told = r.told
  BY DEF Ended, TestRecord
<1>4. q \in TestRecord
  <2>1. q.at \in [Workers -> NODES \cup {FREE, OVER}] /\ q.next \in Nat \ {0}
    BY <1>1, <1>3
  <2>2. q = [nodes |-> q.nodes, next |-> q.next, at |-> q.at, taken |-> q.taken,
             reported |-> q.reported, told |-> q.told]
    BY DEF Ended, TestRecord
  <2>. QED BY <1>1, <1>3, <2>1, <2>2 DEF TestRecord
<1>5. Len(r.taken) = n
  BY <1>2 DEF Shared
<1>6. Len(q.taken) = IF q.next > Len(q.nodes) THEN Len(q.nodes) ELSE q.next - 1
  BY <1>1, <1>2, <1>3, <1>5
<1>7. ToSet(q.taken) = q.reported \cup {q.at[v] : v \in Busy(q)}
  <2>1. /\ q.at[w] = OVER
        /\ \A v \in Workers : v # w => q.at[v] = r.at[v]
    BY <1>1, <1>3
  <2>2. Busy(q) = Busy(r) /\ w \notin Busy(r)
    BY <1>2, <2>1 DEF Busy
  <2>3. {q.at[v] : v \in Busy(q)} = {r.at[v] : v \in Busy(r)}
    BY <2>1, <2>2 DEF Busy
  <2>4. ToSet(r.taken) = r.reported \cup {r.at[v] : v \in Busy(r)}
    BY DEF Shared
  <2>. QED BY <1>3, <2>3, <2>4
<1>8. \A v \in Workers : q.at[v] = OVER => q.next > Len(q.nodes)
  BY <1>1, <1>2, <1>3
<1>9. ~q.told
  <2>1. r.told => r.at[w] = OVER
    BY DEF Shared
  <2>. QED BY <1>2, <1>3, <2>1, WorkerFacts
<1>10. /\ \A i, j \in 1 .. Len(q.nodes) : i # j => q.nodes[i] # q.nodes[j]
       /\ \A k \in 1 .. Len(q.taken) : q.taken[k] = q.nodes[k]
  BY <1>3 DEF Shared
<1>. QED BY <1>4, <1>6, <1>7, <1>8, <1>9, <1>10 DEF Shared

LEMMA ReportedShares ==
  ASSUME NEW r \in TestRecord, Shared(r), NEW w \in Workers, NEW q, ReportedBy(r, w, q)
  PROVE  q \in TestRecord /\ Shared(q)
<1> DEFINE x == r.at[w]
<1>1. /\ r.nodes \in Seq(NODES) /\ r.next \in Nat \ {0}
      /\ r.at \in [Workers -> NODES \cup {FREE, OVER}]
      /\ r.taken \in Seq(NODES) /\ r.reported \in SUBSET NODES /\ r.told \in BOOLEAN
  BY DEF TestRecord
<1>2. x \in NODES /\ x \notin {FREE, OVER}
  BY <1>1 DEF ReportedBy
<1>3. /\ q.nodes = r.nodes /\ q.next = r.next
      /\ q.at = [r.at EXCEPT ![w] = FREE] /\ q.taken = r.taken
      /\ q.reported = r.reported \cup {x} /\ q.told = r.told
  BY DEF ReportedBy, TestRecord
<1>4. q \in TestRecord
  <2>1. q.at \in [Workers -> NODES \cup {FREE, OVER}] /\ q.reported \in SUBSET NODES
    BY <1>1, <1>2, <1>3
  <2>2. q = [nodes |-> q.nodes, next |-> q.next, at |-> q.at, taken |-> q.taken,
             reported |-> q.reported, told |-> q.told]
    BY DEF ReportedBy, TestRecord
  <2>. QED BY <1>1, <1>3, <2>1, <2>2 DEF TestRecord
<1> HIDE DEF x
<1>5. ToSet(q.taken) = q.reported \cup {q.at[v] : v \in Busy(q)}
  <2>1. /\ q.at[w] = FREE
        /\ \A v \in Workers : v # w => q.at[v] = r.at[v]
    BY <1>1, <1>3
  <2>2. Busy(r) = Busy(q) \cup {w} /\ w \notin Busy(q)
    BY <1>2, <2>1 DEF Busy, x
  <2>3. {r.at[v] : v \in Busy(r)} = {q.at[v] : v \in Busy(q)} \cup {x}
    BY <2>1, <2>2 DEF Busy, x
  <2>4. ToSet(r.taken) = r.reported \cup {r.at[v] : v \in Busy(r)}
    BY DEF Shared
  <2>. QED BY <1>3, <2>3, <2>4
<1>6. \A v \in Workers : q.at[v] = OVER => r.at[v] = OVER
  BY <1>1, <1>3, WorkerFacts
<1>7. ~q.told
  <2>1. r.told => r.at[w] = OVER
    BY DEF Shared
  <2>. QED BY <1>2, <1>3, <2>1 DEF x
<1>. QED BY <1>3, <1>4, <1>5, <1>6, <1>7 DEF Shared

LEMMA ToldShares ==
  ASSUME NEW r \in TestRecord, Shared(r), NEW q, Told(r, q)
  PROVE  q \in TestRecord /\ Shared(q)
<1>1. /\ q.nodes = r.nodes /\ q.next = r.next /\ q.at = r.at /\ q.taken = r.taken
      /\ q.reported = r.reported /\ q.told = TRUE
  BY DEF Told, TestRecord
<1>2. q \in TestRecord
  BY DEF Told, TestRecord
<1>3. Busy(q) = Busy(r)
  BY <1>1 DEF Busy
<1>4. \A w \in Workers : q.at[w] = OVER
  BY <1>1 DEF Told
<1>. QED BY <1>1, <1>2, <1>3, <1>4 DEF Shared

(* Every step of the workers is one of these, in one test.                 *)
LEMMA WorkSteps ==
  ASSUME TestTypes, Work
  PROVE  \E t \in DOMAIN tests : \E q :
           /\ tests' = [tests EXCEPT ![t] = q]
           /\ \/ Told(tests[t], q)
              \/ \E w \in Workers : \/ Took(tests[t], w, q)
                                    \/ Ended(tests[t], w, q)
                                    \/ ReportedBy(tests[t], w, q)
<1>1. PICK t \in DOMAIN tests :
        Tell(t) \/ \E w \in Workers : Grab(t, w) \/ Report(t, w)
  BY DEF Work
<1> DEFINE r == tests[t]
<1>2. r \in TestRecord
  BY DEF TestTypes
<1>3. ASSUME Tell(t)
      PROVE  \E q : tests' = [tests EXCEPT ![t] = q] /\ Told(r, q)
  <2> DEFINE q == [r EXCEPT !.told = TRUE]
  <2>1. tests' = [tests EXCEPT ![t] = q]
    BY <1>3 DEF Tell
  <2>2. Told(r, q)
    BY <1>3 DEF Tell, Told
  <2>. QED BY <2>1, <2>2
<1>4. ASSUME NEW w \in Workers, Grab(t, w), r.next \in DOMAIN r.nodes
      PROVE  \E q : tests' = [tests EXCEPT ![t] = q] /\ Took(r, w, q)
  <2> DEFINE q == [r EXCEPT !.next = r.next + 1,
                            !.at = [r.at EXCEPT ![w] = r.nodes[r.next]],
                            !.taken = Append(r.taken, r.nodes[r.next])]
  <2>1. tests' = [tests EXCEPT ![t] = q]
    BY <1>2, <1>4 DEF Grab, TestRecord
  <2>2. Took(r, w, q)
    BY <1>2, <1>4 DEF Grab, Took, TestRecord
  <2>. QED BY <2>1, <2>2
<1>5. ASSUME NEW w \in Workers, Grab(t, w), r.next \notin DOMAIN r.nodes
      PROVE  \E q : tests' = [tests EXCEPT ![t] = q] /\ Ended(r, w, q)
  <2> DEFINE q == [r EXCEPT !.next = r.next + 1,
                            !.at = [r.at EXCEPT ![w] = OVER]]
  <2>1. tests' = [tests EXCEPT ![t] = q]
    BY <1>2, <1>5 DEF Grab, TestRecord
  <2>2. Ended(r, w, q)
    BY <1>2, <1>5 DEF Grab, Ended, TestRecord
  <2>. QED BY <2>1, <2>2
<1>6. ASSUME NEW w \in Workers, Report(t, w)
      PROVE  \E q : tests' = [tests EXCEPT ![t] = q] /\ ReportedBy(r, w, q)
  <2> DEFINE q == [r EXCEPT !.at = [r.at EXCEPT ![w] = FREE],
                            !.reported = r.reported \cup {r.at[w]}]
  <2>1. tests' = [tests EXCEPT ![t] = q]
    BY <1>2, <1>6 DEF Report, TestRecord
  <2>2. ReportedBy(r, w, q)
    BY <1>6 DEF Report, ReportedBy
  <2>. QED BY <2>1, <2>2
<1>. QED BY <1>1, <1>3, <1>4, <1>5, <1>6

LEMMA NextSharing ==
  ASSUME CoreTypes, ShownTypes, ViewIsCurrent, TestTypes, Sharing, [Next]_vars
  PROVE  TestTypes' /\ Sharing'
<1>1. CASE UNCHANGED tests
  BY <1>1 DEF TestTypes, Sharing
<1>2. CASE Test
  <2>1. tests' = Append(tests, Fresh(GroupNodes))
    BY <1>2 DEF Test, Fresh
  <2>2. Fresh(GroupNodes) \in TestRecord /\ Shared(Fresh(GroupNodes))
    <3>1. page = "Proxies" /\ SelectedGroup # NOBODY
      BY <1>2 DEF Test
    <3>. QED BY <3>1, TestedGroup, FreshIsShared
  <2> DEFINE r == Fresh(GroupNodes)
  <2> HIDE DEF r
  <2>3. tests' \in Seq(TestRecord)
    BY <2>1, <2>2 DEF TestTypes, r
  <2>4. ASSUME NEW t \in DOMAIN tests' PROVE Shared(tests'[t])
    <3>1. /\ DOMAIN tests' = 1 .. Len(tests) + 1 /\ DOMAIN tests = 1 .. Len(tests)
          /\ Len(tests) \in Nat
      BY <2>1, <2>2 DEF TestTypes, r
    <3>2. CASE t \in DOMAIN tests
      <4>1. tests'[t] = tests[t]
        BY <2>1, <2>2, <3>1, <3>2 DEF TestTypes, r
      <4>. QED BY <3>2, <4>1 DEF Sharing
    <3>3. CASE t = Len(tests) + 1
      <4>1. tests'[t] = r
        BY <2>1, <2>2, <3>3 DEF TestTypes, r
      <4>. QED BY <2>2, <4>1 DEF r
    <3>. QED BY <3>1, <3>2, <3>3
  <2>. QED BY <2>3, <2>4 DEF TestTypes, Sharing
<1>3. CASE Work
  <2>0. PICK t \in DOMAIN tests :
          \E q : /\ tests' = [tests EXCEPT ![t] = q]
                /\ \/ Told(tests[t], q)
                   \/ \E w \in Workers : \/ Took(tests[t], w, q)
                                         \/ Ended(tests[t], w, q)
                                         \/ ReportedBy(tests[t], w, q)
    BY <1>3, WorkSteps
  <2>1. PICK q :
          /\ tests' = [tests EXCEPT ![t] = q]
          /\ \/ Told(tests[t], q)
             \/ \E w \in Workers : \/ Took(tests[t], w, q)
                                   \/ Ended(tests[t], w, q)
                                   \/ ReportedBy(tests[t], w, q)
    BY <2>0
  <2>2. tests[t] \in TestRecord /\ Shared(tests[t])
    BY DEF TestTypes, Sharing
  <2>3. q \in TestRecord /\ Shared(q)
    BY <2>1, <2>2, TookShares, EndedShares, ReportedShares, ToldShares
  <2>4. /\ DOMAIN tests' = DOMAIN tests /\ tests'[t] = q
        /\ \A u \in DOMAIN tests : u # t => tests'[u] = tests[u]
    BY <2>1
  <2>5. tests' \in Seq(TestRecord)
    BY <2>1, <2>3 DEF TestTypes
  <2>6. \A u \in DOMAIN tests' : Shared(tests'[u])
    BY <2>3, <2>4 DEF Sharing
  <2>. QED BY <2>5, <2>6 DEF TestTypes, Sharing
<1>. QED BY <1>1, <1>2, <1>3, TestSteps

LEMMA TakenOnce ==
  ASSUME NEW r \in TestRecord, Shared(r)
  PROVE  /\ Cardinality(ToSet(r.taken)) = Len(r.taken)
         /\ r.told => r.reported = ToSet(r.nodes)
<1> DEFINE m == Len(r.taken)
<1>1. /\ r.taken \in Seq(NODES) /\ r.nodes \in Seq(NODES) /\ r.next \in Nat
      /\ m \in Nat /\ Len(r.nodes) \in Nat /\ m <= Len(r.nodes)
  BY DEF TestRecord, Shared
<1>2. Cardinality(ToSet(r.taken)) = m
  <2>1. r.taken \in [1 .. m -> ToSet(r.taken)]
    BY <1>1 DEF ToSet
  <2>2. ASSUME NEW i \in 1 .. m, NEW j \in 1 .. m, i # j
        PROVE  r.taken[i] # r.taken[j]
    <3>1. i \in 1 .. Len(r.nodes) /\ j \in 1 .. Len(r.nodes)
      BY <1>1
    <3>. QED BY <2>2, <3>1 DEF Shared
  <2>3. r.taken \in Injection(1 .. m, ToSet(r.taken))
    BY <2>1, <2>2 DEF Injection, IsInjective
  <2>4. \A x \in ToSet(r.taken) : \E i \in 1 .. m : r.taken[i] = x
    BY <1>1 DEF ToSet
  <2>5. r.taken \in Surjection(1 .. m, ToSet(r.taken))
    BY <2>1, <2>4 DEF Surjection
  <2>6. IsFiniteSet(1 .. m) /\ Cardinality(1 .. m) = m
    <3> HIDE DEF m
    <3>1. m \in Int /\ 1 \in Int /\ m >= 0
      BY <1>1
    <3>2. IsFiniteSet(1 .. m) /\ Cardinality(1 .. m) = IF 1 > m THEN 0 ELSE m - 1 + 1
      BY <3>1, FS_Interval
    <3>. QED BY <3>1, <3>2
  <2> HIDE DEF m
  <2>. QED BY <2>3, <2>5, <2>6, FS_Surjection
<1>3. ASSUME r.told PROVE r.reported = ToSet(r.nodes)
  <2>1. \A w \in Workers : r.at[w] = OVER
    BY <1>3 DEF Shared
  <2>2. r.next > Len(r.nodes)
    BY <2>1, WorkerFacts DEF Shared
  <2>3. m = Len(r.nodes) /\ \A k \in 1 .. m : r.taken[k] = r.nodes[k]
    BY <2>2 DEF Shared
  <2>4. ToSet(r.taken) = ToSet(r.nodes)
    BY <1>1, <2>3 DEF ToSet
  <2>5. Busy(r) = {}
    BY <2>1 DEF Busy
  <2>. QED BY <2>4, <2>5 DEF Shared
<1>. QED BY <1>2, <1>3

(* However the workers interleave, each node of a group is taken once, and *)
(* the end of a test is announced when every node, the filtered ones too,  *)
(* has its result, for any number of workers and of tests at a time.       *)
THEOREM TestIsCompleteAlways == Spec => []TestIsComplete
<1>1. Spec => [](CoreTypes /\ ShownTypes)
  BY TypeInvariant
<1>2. Spec => []ViewIsCurrent
  BY ViewIsCurrentAlways
<1>3. Init => TestTypes /\ Sharing
  BY DEF Init, TestTypes, Sharing
<1>4. CoreTypes /\ ShownTypes /\ ViewIsCurrent /\ TestTypes /\ Sharing
        /\ [Next]_vars => (TestTypes /\ Sharing)'
  BY NextSharing
<1>5. TestTypes /\ Sharing => TestIsComplete
  <2> SUFFICES ASSUME TestTypes, Sharing, NEW t \in DOMAIN tests
      PROVE  /\ Cardinality(ToSet(tests[t].taken)) = Len(tests[t].taken)
             /\ tests[t].told => tests[t].reported = ToSet(tests[t].nodes)
    BY DEF TestIsComplete
  <2>1. tests[t] \in TestRecord /\ Shared(tests[t])
    BY DEF TestTypes, Sharing
  <2>. QED BY <2>1, TakenOnce
<1>. QED BY <1>1, <1>2, <1>3, <1>4, <1>5, PTL DEF Spec
-----------------------------------------------------------------------------
(* Mappings.                                                               *)

(* h is f over g.                                                          *)
Covers(h, f, g) ==
  /\ DOMAIN h = DOMAIN f \cup DOMAIN g
  /\ \A k \in DOMAIN f : h[k] = f[k]
  /\ \A k \in DOMAIN g \ DOMAIN f : h[k] = g[k]

(* h is m with v for k where m has no k.                                   *)
Completes(h, m, k, v) ==
  /\ DOMAIN h = DOMAIN m \cup {k}
  /\ \A j \in DOMAIN m : h[j] = m[j]
  /\ k \notin DOMAIN m => h[k] = v

(* h has v for k and nothing else.                                         *)
Single(h, k, v) == DOMAIN h = {k} /\ h[k] = v

LEMMA OverFacts == \A f, g : Covers(f ++ g, f, g)
<1> SUFFICES ASSUME NEW f, NEW g PROVE Covers(f ++ g, f, g)
  OBVIOUS
<1>1. f ++ g = Over(f, g)
  BY DEF ++
<1>2. Covers(Over(f, g), f, g)
  BY DEF Over, Covers
<1>. QED BY <1>1, <1>2

LEMMA KvFacts == \A k, v : Single(Kv(k, v), k, v)
BY DEF Kv, Single

LEMMA AddFacts == \A m, k, v : Completes(m ++ Kv(k, v), m, k, v)
<1> SUFFICES ASSUME NEW m, NEW k, NEW v PROVE Completes(m ++ Kv(k, v), m, k, v)
  OBVIOUS
<1> DEFINE g == Kv(k, v)
<1>1. Covers(m ++ g, m, g) /\ Single(g, k, v)
  BY OverFacts, KvFacts
<1> HIDE DEF g
<1>2. Completes(m ++ g, m, k, v)
  BY <1>1 DEF Covers, Single, Completes
<1>. QED BY <1>2 DEF g

LEMMA KvIfFacts ==
  \A k, v : KvIf(TRUE, k, v) = Kv(k, v) /\ KvIf(FALSE, k, v) = <<>>
BY DEF KvIf

-----------------------------------------------------------------------------
(* The managed fields.                                                     *)

LEMMA HostsFacts ==
  ASSUME NEW doc, NEW entries
  PROVE  LET h == InjectHosts(doc, entries)
         IN  /\ DOMAIN h = IF entries # <<>> THEN {"hosts"} ELSE {}
             /\ entries # <<>> =>
                  /\ IsMap(h["hosts"])
                  /\ DOMAIN SubMap(doc, "hosts") \subseteq DOMAIN h["hosts"].map
<1> DEFINE m == Pairs([i \in DOMAIN entries |->
                         LET kv == SplitOnce(entries[i], "=")
                         IN  <<Trim(kv[1]), Trim(Or(kv[2], <<>>))>>])
           own == SubMap(doc, "hosts")
           new == [k \in DOMAIN m |-> Str(m[k])]
           both == new ++ own
           c == entries # <<>>
           h == InjectHosts(doc, entries)
<1>1. h = KvIf(c, "hosts", Map(both))
  BY DEF InjectHosts
<1>2. Covers(both, new, own)
  BY OverFacts
<1> HIDE DEF both, own, new, h
<1>3. DOMAIN own \subseteq DOMAIN both
  BY <1>2 DEF Covers
<1>4. IsMap(Map(both)) /\ Map(both).map = both
  BY DEF IsMap, Map
<1>5. c => Single(h, "hosts", Map(both))
  <2>1. c => h = KvIf(TRUE, "hosts", Map(both))
    BY <1>1
  <2>. QED BY <2>1, KvIfFacts, KvFacts
<1>6. ~c => h = <<>>
  <2>1. ~c => h = KvIf(FALSE, "hosts", Map(both))
    BY <1>1
  <2>. QED BY <2>1, KvIfFacts
<1>. QED BY <1>3, <1>4, <1>5, <1>6 DEF Single, own, h

LEMMA TunFacts ==
  ASSUME NEW doc, NEW o, o.tun_enabled \in BOOLEAN
  PROVE  LET t == TunPart(doc, o)
         IN  /\ DOMAIN t = IF o.tun_enabled THEN {"tun", "dns"} ELSE {"tun"}
             /\ IsMap(t["tun"])
             /\ t["tun"].map["enable"] = Bool(o.tun_enabled)
<1> DEFINE t == TunPart(doc, o)
<1>1. CASE o.tun_enabled
  <2> DEFINE a == Kv("tun", TunBlock(o))
             b == Kv("dns", DnsBlock(doc, o))
  <2>1. t = a ++ b
    BY <1>1 DEF TunPart
  <2>2. Covers(t, a, b) /\ Single(a, "tun", TunBlock(o))
        /\ Single(b, "dns", DnsBlock(doc, o))
    BY <2>1, OverFacts, KvFacts, Zenon
  <2>3. IsMap(TunBlock(o)) /\ TunBlock(o).map["enable"] = Bool(TRUE)
    <3> DEFINE E(f) == "enable" \in DOMAIN f /\ f["enable"] = Bool(TRUE)
               e == Kv("enable", Bool(TRUE))
    <3>1. ASSUME NEW f, NEW g, E(f) PROVE E(f ++ g)
      <4>1. Covers(f ++ g, f, g)
        BY OverFacts
      <4>. QED BY <3>1, <4>1 DEF Covers
    <3>2. E(e)
      <4>1. Single(e, "enable", Bool(TRUE))
        BY KvFacts
      <4>. QED BY <4>1 DEF Single
    <3> HIDE DEF E
    <3>3. \A f, g : E(f) => E(f ++ g)
      BY <3>1
    <3> DEFINE table == Num(2023)
               rule == Num(9100)
               m == e ++ Kv("device", Word("clard0"))
                    ++ Kv("stack", Str(o.tun_stack)) ++ Kv("auto-route", Bool(TRUE))
                    ++ Kv("auto-detect-interface", Bool(TRUE))
                    ++ Kv("dns-hijack", Strings(o.dns_hijack))
                    ++ Kv("iproute2-table-index", table)
                    ++ Kv("iproute2-rule-index", rule)
                    ++ Kv("strict-route", Bool(o.strict_route))
                    ++ Kv("auto-redirect", Bool(o.auto_redirect))
                    ++ Kv("route-exclude-address", Strings(o.route_exclude_address))
    <3>4. TunBlock(o) = Map(m)
      BY DEF TunBlock
    <3> HIDE DEF e, table, rule
    <3>5. E(m)
      BY <3>2, <3>3, Zenon
    <3> HIDE DEF m
    <3>6. IsMap(Map(m)) /\ Map(m).map = m
      BY DEF IsMap, Map
    <3>. QED BY <3>4, <3>5, <3>6 DEF E
  <2> HIDE DEF t, a, b
  <2>4. DOMAIN t = {"tun", "dns"} /\ t["tun"] = TunBlock(o)
    BY <2>2 DEF Covers, Single
  <2>. QED BY <1>1, <2>3, <2>4 DEF t
<1>2. CASE ~o.tun_enabled
  <2> DEFINE m == Kv("enable", Bool(FALSE))
  <2>1. t = Kv("tun", Map(m))
    BY <1>2 DEF TunPart
  <2>2. Single(t, "tun", Map(m)) /\ Single(m, "enable", Bool(FALSE))
    BY <2>1, KvFacts
  <2>3. IsMap(Map(m)) /\ Map(m).map = m
    BY DEF IsMap, Map
  <2> HIDE DEF t, m
  <2>. QED BY <1>2, <2>2, <2>3 DEF Single, t
<1>. QED BY <1>1, <1>2

(* What the settings put into every configuration.                         *)
ManagedKeys(o) ==
  {"tun", "mixed-port", "bind-address", "allow-lan", "log-level", "mode",
   "external-controller", "external-controller-unix", "geo-auto-update"}
  \cup ENTRANCES \cup (IF o.tun_enabled THEN {"dns"} ELSE {})
  \cup (IF o.dns_hosts # <<>> THEN {"hosts"} ELSE {})

HasSettings(m, doc, o) ==
  /\ m["mixed-port"] = Num(o.mixed_port)
  /\ m["log-level"] = Str(o.log_level)
  /\ \A k \in ENTRANCES : m[k] = Num(0)
  /\ IsMap(m["tun"]) /\ m["tun"].map["enable"] = Bool(o.tun_enabled)
  /\ o.dns_hosts # <<>> =>
       /\ IsMap(m["hosts"])
       /\ DOMAIN SubMap(doc, "hosts") \subseteq DOMAIN m["hosts"].map

LEMMA ManagedFacts ==
  ASSUME NEW doc, NEW o, o.tun_enabled \in BOOLEAN
  PROVE  DOMAIN Managed(doc, o) = ManagedKeys(o) /\ HasSettings(Managed(doc, o), doc, o)
<1> DEFINE h == InjectHosts(doc, o.dns_hosts)
           t == TunPart(doc, o)
           m1 == h ++ t
           m2 == m1 ++ Kv("mixed-port", Num(o.mixed_port))
           m3 == m2 ++ Kv("bind-address", Word("127.0.0.1"))
           m4 == m3 ++ Kv("allow-lan", Bool(FALSE))
           m5 == m4 ++ Kv("log-level", Str(o.log_level))
           m6 == m5 ++ Kv("mode", Str(o.mode))
           m7 == m6 ++ Closed
           m8 == m7 ++ Kv("external-controller-unix", ControllerUnix)
           m9 == m8 ++ Kv("geo-auto-update", Bool(FALSE))
<1>0. Managed(doc, o) = m9
  BY DEF Managed
<1>1. /\ DOMAIN h = IF o.dns_hosts # <<>> THEN {"hosts"} ELSE {}
      /\ o.dns_hosts # <<>> =>
           /\ IsMap(h["hosts"])
           /\ DOMAIN SubMap(doc, "hosts") \subseteq DOMAIN h["hosts"].map
  BY HostsFacts
<1>2. /\ DOMAIN t = IF o.tun_enabled THEN {"tun", "dns"} ELSE {"tun"}
      /\ IsMap(t["tun"]) /\ t["tun"].map["enable"] = Bool(o.tun_enabled)
  BY TunFacts
<1>3. /\ DOMAIN Closed = ENTRANCES \cup {"external-controller"}
      /\ \A k \in ENTRANCES : Closed[k] = Num(0)
  <2> DEFINE z == [k \in ENTRANCES |-> Num(0)]
  <2>1. Completes(Closed, z, "external-controller", Str(<<>>))
    BY AddFacts DEF Closed
  <2>. QED BY <2>1 DEF Completes
<1>4. /\ Covers(m1, h, t) /\ Covers(m7, m6, Closed)
      /\ Completes(m2, m1, "mixed-port", Num(o.mixed_port))
      /\ Completes(m3, m2, "bind-address", Word("127.0.0.1"))
      /\ Completes(m4, m3, "allow-lan", Bool(FALSE))
      /\ Completes(m5, m4, "log-level", Str(o.log_level))
      /\ Completes(m6, m5, "mode", Str(o.mode))
      /\ Completes(m8, m7, "external-controller-unix", ControllerUnix)
      /\ Completes(m9, m8, "geo-auto-update", Bool(FALSE))
  BY OverFacts, AddFacts, Zenon
<1> HIDE DEF h, t, m1, m2, m3, m4, m5, m6, m7, m8, m9
<1>5. /\ DOMAIN m1 = DOMAIN h \cup DOMAIN t
      /\ m1["tun"] = t["tun"] /\ (o.dns_hosts # <<>> => m1["hosts"] = h["hosts"])
  BY <1>1, <1>2, <1>4 DEF Covers
<1>6. /\ DOMAIN m2 = DOMAIN m1 \cup {"mixed-port"}
      /\ \A k \in DOMAIN m1 : m2[k] = m1[k]
      /\ m2["mixed-port"] = Num(o.mixed_port)
  BY <1>1, <1>2, <1>4, <1>5 DEF Completes
<1>7. /\ DOMAIN m4 = DOMAIN m2 \cup {"bind-address", "allow-lan"}
      /\ \A k \in DOMAIN m2 : m4[k] = m2[k]
  BY <1>4 DEF Completes
<1>8. /\ DOMAIN m6 = DOMAIN m4 \cup {"log-level", "mode"}
      /\ \A k \in DOMAIN m4 : m6[k] = m4[k]
      /\ m6["log-level"] = Str(o.log_level)
  <2>1. "log-level" \notin DOMAIN m4
    BY <1>1, <1>2, <1>5, <1>6, <1>7
  <2>. QED BY <1>4, <2>1 DEF Completes
<1>9. /\ DOMAIN m7 = DOMAIN m6 \cup ENTRANCES \cup {"external-controller"}
      /\ \A k \in DOMAIN m6 : m7[k] = m6[k]
      /\ \A k \in ENTRANCES : m7[k] = Num(0)
  <2>1. \A k \in ENTRANCES : k \notin DOMAIN m6
    BY <1>1, <1>2, <1>5, <1>6, <1>7, <1>8 DEF ENTRANCES
  <2>. QED BY <1>3, <1>4, <2>1 DEF Covers
<1>10. /\ DOMAIN m9 = DOMAIN m7 \cup {"external-controller-unix", "geo-auto-update"}
       /\ \A k \in DOMAIN m7 : m9[k] = m7[k]
  BY <1>4 DEF Completes
<1>11. DOMAIN m9 = ManagedKeys(o)
  BY <1>1, <1>2, <1>5, <1>6, <1>7, <1>8, <1>9, <1>10 DEF ManagedKeys
<1>12. \A k \in DOMAIN m6 : m9[k] = m6[k]
  BY <1>9, <1>10
<1>13. \A k \in DOMAIN m1 : k \in DOMAIN m6 /\ m6[k] = m1[k]
  BY <1>6, <1>7, <1>8
<1>14. m9["mixed-port"] = Num(o.mixed_port) /\ m9["log-level"] = Str(o.log_level)
  BY <1>6, <1>7, <1>8, <1>12
<1>15. \A k \in ENTRANCES : m9[k] = Num(0)
  BY <1>9, <1>10
<1>16. m9["tun"] = t["tun"] /\ (o.dns_hosts # <<>> => m9["hosts"] = h["hosts"])
  BY <1>1, <1>2, <1>5, <1>12, <1>13
<1>. QED BY <1>0, <1>1, <1>2, <1>11, <1>14, <1>15, <1>16 DEF HasSettings

LEMMA InjectFacts ==
  ASSUME NEW doc, NEW o, o.tun_enabled \in BOOLEAN
  PROVE  /\ DOMAIN Inject(doc, o) = ManagedKeys(o) \cup DOMAIN doc
         /\ HasSettings(Inject(doc, o), doc, o)
         /\ \A k \in DOMAIN doc \ ManagedKeys(o) : Inject(doc, o)[k] = doc[k]
<1> DEFINE m == Managed(doc, o)
<1>1. DOMAIN m = ManagedKeys(o) /\ HasSettings(m, doc, o)
  BY ManagedFacts
<1> HIDE DEF m
<1>2. Inject(doc, o) = m ++ doc /\ Covers(m ++ doc, m, doc)
  BY OverFacts DEF Inject, m
<1>3. /\ DOMAIN Inject(doc, o) = ManagedKeys(o) \cup DOMAIN doc
      /\ \A k \in ManagedKeys(o) : Inject(doc, o)[k] = m[k]
      /\ \A k \in DOMAIN doc \ ManagedKeys(o) : Inject(doc, o)[k] = doc[k]
  BY <1>1, <1>2 DEF Covers
<1>4. HasSettings(Inject(doc, o), doc, o)
  <2>1. /\ {"mixed-port", "log-level", "tun"} \cup ENTRANCES \subseteq ManagedKeys(o)
        /\ o.dns_hosts # <<>> => "hosts" \in ManagedKeys(o)
    BY DEF ManagedKeys
  <2>. QED BY <1>1, <1>3, <2>1 DEF HasSettings
<1>. QED BY <1>3, <1>4

(* Default routing adds rules and, where there are none, groups.           *)
LEMMA RoutingFacts ==
  ASSUME NEW m
  PROVE  LET r == EnsureDefaultRouting(m)
         IN  /\ DOMAIN m \subseteq DOMAIN r
             /\ DOMAIN r \subseteq DOMAIN m \cup {"rules", "proxy-groups"}
             /\ \A k \in DOMAIN m \ {"rules", "proxy-groups"} : r[k] = m[k]
             /\ SubList(m, "rules") # <<>> => r = m
             /\ SubList(m, "proxy-groups") # <<>> =>
                  r["proxy-groups"] = m["proxy-groups"]
             /\ SubList(m, "rules") = <<>> /\ Names(m) # <<>> =>
                  /\ "rules" \in DOMAIN r /\ r["rules"] = DefaultRules
                  /\ SubList(m, "proxy-groups") = <<>> =>
                       /\ "proxy-groups" \in DOMAIN r
                       /\ r["proxy-groups"] = List(<<GlobalGroup(Names(m))>>)
<1> DEFINE r == EnsureDefaultRouting(m)
<1>1. CASE SubList(m, "rules") # <<>> \/ Names(m) = <<>>
  BY <1>1 DEF EnsureDefaultRouting
<1>2. CASE SubList(m, "rules") = <<>> /\ Names(m) # <<>>
  <2> DEFINE c == SubList(m, "proxy-groups") = <<>>
             g == KvIf(c, "proxy-groups", List(<<GlobalGroup(Names(m))>>))
             a == Kv("rules", DefaultRules) ++ g
  <2>1. r = a ++ m
    BY <1>2 DEF EnsureDefaultRouting
  <2>2. ASSUME c PROVE Single(g, "proxy-groups", List(<<GlobalGroup(Names(m))>>))
    <3>1. g = KvIf(TRUE, "proxy-groups", List(<<GlobalGroup(Names(m))>>))
      BY <2>2
    <3>2. g = Kv("proxy-groups", List(<<GlobalGroup(Names(m))>>))
      BY <3>1, KvIfFacts, Zenon
    <3>. QED BY <3>2, KvFacts, Zenon
  <2>3. ~c => g = <<>>
    <3>1. ~c => g = KvIf(FALSE, "proxy-groups", List(<<GlobalGroup(Names(m))>>))
      OBVIOUS
    <3>. QED BY <3>1, KvIfFacts, Zenon
  <2>4. Single(Kv("rules", DefaultRules), "rules", DefaultRules)
        /\ Covers(a, Kv("rules", DefaultRules), g) /\ Covers(a ++ m, a, m)
    BY KvFacts, OverFacts, Zenon
  <2> DEFINE u == Kv("rules", DefaultRules)
  <2> HIDE DEF r, a, g, u
  <2>6. /\ DOMAIN a = {"rules"} \cup (IF c THEN {"proxy-groups"} ELSE {})
        /\ a["rules"] = DefaultRules
        /\ c => a["proxy-groups"] = List(<<GlobalGroup(Names(m))>>)
    BY <2>2, <2>3, <2>4 DEF Single, Covers, u
  <2>5. ~c => "proxy-groups" \in DOMAIN m
    BY DEF SubList
  <2>. QED BY <1>2, <2>1, <2>4, <2>5, <2>6 DEF Covers, r
<1>. QED BY <1>1, <1>2

-----------------------------------------------------------------------------
(* The entry of a node.                                                    *)

(* An address the core can dial; vless and ss see to it that the server is *)
(* not empty either.                                                       *)
Dialable(m) ==
  /\ {"type", "server", "port"} \subseteq DOMAIN m
  /\ m["port"].num \in Ports
  /\ m["type"] \in {Word("vless"), Word("ss")} => m["server"].str # <<>>

Dials(r) == IsOk(r) => Dialable(r.ok)

LEMMA PortFacts ==
  /\ \A t : IsSome(RequiredPort(t)) => RequiredPort(t)[1] \in Ports
  /\ \A o, d : d \in Ports => PortOrDefault(o, d) \in Ports
  /\ 443 \in Ports
  /\ ~IsSome(None)
<1>1. ASSUME NEW t, IsSome(RequiredPort(t)) PROVE RequiredPort(t)[1] \in Ports
  BY <1>1 DEF RequiredPort, IsSome, Some, None
<1>2. ASSUME NEW o, NEW d \in Ports PROVE PortOrDefault(o, d) \in Ports
  <2>1. Or(RequiredPort(o[1]), d) \in Ports
    <3>1. Some(d)[1] = d
      BY DEF Some
    <3>. QED BY <1>1, <3>1 DEF Or, OrElse
  <2>. QED BY <1>2, <2>1 DEF PortOrDefault
<1>3. 443 \in Ports
  BY SMT DEF Ports
<1>4. ~IsSome(None)
  BY DEF IsSome
<1>. QED BY <1>1, <1>2, <1>3, <1>4

LEMMA EntryFacts ==
  ASSUME NEW type, NEW name, NEW label, NEW server, NEW port \in Ports,
         type \in {"vless", "ss"} => server # <<>>
  PROVE  Dialable(Entry(type, name, label, server, port))
<1> DEFINE word == Word(type)
           called == Str(Or(name, <<label, " ">> \o server \o <<":">>))
           m1 == Kv("type", word)
           m2 == m1 ++ Kv("name", called)
           m3 == m2 ++ Kv("server", Str(server))
           m4 == m3 ++ Kv("port", Num(port))
<1>1. Entry(type, name, label, server, port) = m4
  BY DEF Entry
<1>2. /\ Single(m1, "type", word) /\ Completes(m2, m1, "name", called)
      /\ Completes(m3, m2, "server", Str(server))
      /\ Completes(m4, m3, "port", Num(port))
  BY KvFacts, AddFacts, Zenon
<1>3. Str(server).str = server /\ Num(port).num = port
  BY DEF Str, Num
<1>4. word \in {Word("vless"), Word("ss")} => type \in {"vless", "ss"}
  BY DEF Word, Str
<1> HIDE DEF word, called, m1, m2, m3, m4
<1>5. DOMAIN m3 = {"type", "name", "server"} /\ DOMAIN m4 = DOMAIN m3 \cup {"port"}
  BY <1>2 DEF Single, Completes
<1>6. m4["type"] = word /\ m4["server"] = Str(server) /\ m4["port"] = Num(port)
  BY <1>2, <1>5 DEF Single, Completes
<1>. QED BY <1>1, <1>3, <1>4, <1>5, <1>6 DEF Dialable

LEMMA DialableOver == \A f, g : Dialable(f) => Dialable(f ++ g)
<1> SUFFICES ASSUME NEW f, NEW g, Dialable(f) PROVE Dialable(f ++ g)
  OBVIOUS
<1>1. Covers(f ++ g, f, g)
  BY OverFacts
<1>. QED BY <1>1 DEF Covers, Dialable

LEMMA DialableUnder ==
  \A f, g : Dialable(g) /\ DOMAIN f \cap {"type", "server", "port"} = {}
            => Dialable(f ++ g)
<1> SUFFICES ASSUME NEW f, NEW g, Dialable(g),
                    DOMAIN f \cap {"type", "server", "port"} = {}
             PROVE  Dialable(f ++ g)
  OBVIOUS
<1>1. Covers(f ++ g, f, g)
  BY OverFacts
<1>2. /\ DOMAIN g \subseteq DOMAIN (f ++ g)
      /\ \A k \in {"type", "server", "port"} : (f ++ g)[k] = g[k]
  BY <1>1 DEF Covers, Dialable
<1>. QED BY <1>2 DEF Dialable

LEMMA OkFacts ==
  /\ \A m : Dialable(m) => Dials(Ok(m))
  /\ Dials(Invalid)
  /\ \A e : Dials(Err(e))
BY DEF Dials, Ok, Invalid, Err, IsOk

LEMMA Hysteria2EntryDials ==
  ASSUME NEW u PROVE Dialable(Hysteria2Entry(u))
<1> DEFINE q == Query(u.query)
           obfs == Get(q, "obfs")
           p == PortOrDefault(u.port, 443)
           e == Entry("hysteria2", DecodeAndTrim(u.fragment), "Hysteria2",
                      u.host, p)
           a1 == Kv("password", Str(Decoded(u.auth[1])))
           a2 == KvOpt("sni", GetEither(q, "sni", "peer"))
           a3 == KvOpt("obfs", IF obfs = Some(<<"none">>) THEN None ELSE obfs)
           a4 == KvOpt("ports", Get(q, "mport"))
           a5 == KvOpt("obfs-password", Get(q, "obfs-password"))
           a6 == KvFlag(q, "insecure", "skip-cert-verify")
           a7 == KvFlag(q, "fastopen", "tfo")
           a8 == KvOpt("fingerprint", Get(q, "pinSHA256"))
<1>1. Hysteria2Entry(u) = e ++ a1 ++ a2 ++ a3 ++ a4 ++ a5 ++ a6 ++ a7 ++ a8
  BY DEF Hysteria2Entry
<1>2. p \in Ports
  BY PortFacts
<1> HIDE DEF p
<1>3. Dialable(e)
  BY <1>2, EntryFacts
<1> HIDE DEF e, a1, a2, a3, a4, a5, a6, a7, a8
<1>. QED BY <1>1, <1>3, DialableOver, Zenon

LEMMA Hysteria2Dials == ASSUME NEW rest PROVE Dials(Hysteria2(rest))
BY Hysteria2EntryDials, OkFacts DEF Hysteria2

LEMMA TrojanEntryDials ==
  ASSUME NEW u PROVE Dialable(TrojanEntry(u))
<1> DEFINE q == Query(u.query)
           network == IF Get(q, "type") \in
                           {Some(<<t>>) : t \in {"ws", "grpc", "h2", "tcp"}}
                      THEN Get(q, "type") ELSE None
           mix == Split(Or(Get(q, "encryption"), <<>>), ";")
           transport ==
             CASE network = Some(<<"ws">>) ->
                    WsOpts(Get(q, "host"), Get(q, "path"), FALSE)
               [] network = Some(<<"grpc">>) -> GrpcOpts(Get(q, "path"))
               [] OTHER -> <<>>
           p == PortOrDefault(u.port, 443)
           e == Entry("trojan", DecodeAndTrim(u.fragment), "Trojan", u.host, p)
           a1 == Kv("password", Str(Decoded(u.auth[1])))
           a2 == KvOpt("network", network)
           a3 == KvAlpn(q)
           a4 == KvOpt("sni", Get(q, "sni"))
           a5 == KvFlag(q, "skip-cert-verify", "skip-cert-verify")
           a6 == KvOpt("fingerprint", GetEither(q, "fingerprint", "fp"))
           a7 == IF Len(mix) = 3
                 THEN Kv("ss-opts", Map(Kv("enabled", Bool(TRUE)) ++
                        Kv("method", Str(mix[2])) ++
                        Kv("password", Str(mix[3]))))
                 ELSE <<>>
           a8 == KvOpt("client-fingerprint", Get(q, "client-fingerprint"))
<1>1. TrojanEntry(u)
      = e ++ a1 ++ a2 ++ a3 ++ a4 ++ a5 ++ a6 ++ a7 ++ a8 ++ transport
  BY DEF TrojanEntry
<1>2. p \in Ports
  BY PortFacts
<1> HIDE DEF p
<1>3. Dialable(e)
  BY <1>2, EntryFacts
<1> HIDE DEF e, a1, a2, a3, a4, a5, a6, a7, a8, transport
<1>. QED BY <1>1, <1>3, DialableOver, Zenon

LEMMA TrojanDials == ASSUME NEW rest PROVE Dials(Trojan(rest))
BY TrojanEntryDials, OkFacts DEF Trojan

LEMMA ProxyEntryDials ==
  ASSUME NEW type \in {"http", "socks5"}, NEW label, NEW u
  PROVE  Dialable(ProxyEntry(type, label, u))
<1> DEFINE q == Query(Some(Or(u.query, <<>>)))
           login == SplitOnce(Decoded(Or(u.auth, <<>>)), ":")
           p == PortOrDefault(u.port, 443)
           e == Entry(type, DecodeAndTrim(u.fragment), label, u.host, p)
           a1 == IF IsSome(login[2])
                 THEN Kv("username", Str(login[1])) ++
                      Kv("password", Str(login[2][1]))
                 ELSE <<>>
           a2 == KvFlag(q, "tls", "tls")
           a3 == KvOpt("fingerprint", Get(q, "fingerprint"))
           a4 == KvFlag(q, "skip-cert-verify", "skip-cert-verify")
           a5 == KvOpt("ip-version", Get(q, "ip-version"))
           a6 == IF type = "socks5" THEN KvFlag(q, "udp", "udp") ELSE <<>>
<1>1. ProxyEntry(type, label, u) = e ++ a1 ++ a2 ++ a3 ++ a4 ++ a5 ++ a6
  BY DEF ProxyEntry
<1>2. p \in Ports
  BY PortFacts
<1> HIDE DEF p
<1>3. Dialable(e)
  BY <1>2, EntryFacts
<1> HIDE DEF e, a1, a2, a3, a4, a5, a6
<1>. QED BY <1>1, <1>3, DialableOver, Zenon

LEMMA ProxyDials ==
  ASSUME NEW type \in {"http", "socks5"}, NEW label, NEW rest
  PROVE  Dials(Proxy(type, label, rest))
BY ProxyEntryDials, OkFacts DEF Proxy

LEMMA VlessEntryDials ==
  ASSUME NEW u, NEW port \in Ports, NEW uuid, u.host # <<>>
  PROVE  Dialable(VlessEntry(u, port, uuid))
<1> DEFINE q == Query(u.query)
           name == OrElse(DecodeAndTrim(u.fragment),
                          GetEither(q, "remarks", "remark"))
           security == Or(Get(q, "security"), <<"none">>)
           type == Get(q, "type")
           network ==
             IF Get(q, "headerType") = Some(<<"http">>) THEN "http"
             ELSE IF type \in {Some(<<"websocket">>), Some(<<"ws">>),
                               Some(<<"httpupgrade">>)} THEN "ws"
             ELSE IF type \in {Some(<<t>>) : t \in {"http", "grpc", "h2", "xhttp"}}
                  THEN type[1][1] ELSE "tcp"
           host == GetEither(q, "host", "obfsParam")
           path == Get(q, "path")
           upgrade == type \in {Some(<<"ws">>), Some(<<"httpupgrade">>)}
           transport ==
             CASE network = "ws" -> WsOpts(host, path, upgrade)
               [] network = "grpc" -> GrpcOpts(OrElse(Get(q, "serviceName"), path))
               [] network = "h2" -> H2Opts(host, path)
               [] network = "http" -> HttpOpts(host, OneOf(path))
               [] network = "xhttp" ->
                    KvMap("xhttp-opts", KvOpt("host", host) ++ KvOpt("path", path)
                                        ++ KvOpt("mode", Get(q, "mode")))
               [] OTHER -> <<>>
           tls == security # <<"none">>
           sni == GetEither(q, "sni", "peer")
           e == Entry("vless", name, "VLESS", u.host, port)
           a1 == Kv("uuid", Str(uuid))
           a2 == Kv("udp", Bool(TRUE))
           a3 == KvIf(Or(Get(q, "encryption"), <<"none">>) # <<"none">>,
                      "encryption", Str(Or(Get(q, "encryption"), <<>>)))
           a4 == Kv("tls", Bool(tls))
           a5 == KvOpt("servername",
                       IF tls THEN OrElse(sni, Get(q, "host")) ELSE sni)
           a6 == KvOpt("flow", VlessFlow(Get(q, "flow")))
           a7 == KvOpt("client-fingerprint", Get(q, "fp"))
           a8 == KvAlpn(q)
           a9 == KvFlag(q, "allowInsecure", "skip-cert-verify")
           a10 == IF security = <<"reality">>
                  THEN KvMap("reality-opts", KvOpt("public-key", Get(q, "pbk")) ++
                                             KvOpt("short-id", Get(q, "sid")))
                  ELSE <<>>
           a11 == Kv("network", Word(network))
<1>1. VlessEntry(u, port, uuid)
      = e ++ a1 ++ a2 ++ a3 ++ a4 ++ a5 ++ a6 ++ a7 ++ a8 ++ a9 ++ a10 ++ a11
        ++ transport
  BY DEF VlessEntry
<1>2. Dialable(e)
  BY EntryFacts
<1> HIDE DEF e, a1, a2, a3, a4, a5, a6, a7, a8, a9, a10, a11, transport
<1>. QED BY <1>1, <1>2, DialableOver, Zenon

LEMMA VlessDials == ASSUME NEW rest PROVE Dials(Vless(rest))
BY PortFacts, VlessEntryDials, OkFacts DEF Vless

LEMMA VmessEntryDials ==
  ASSUME NEW obj, NEW server, NEW port \in Ports, NEW uuid
  PROVE  Dialable(VmessEntry(obj, server, port, uuid))
<1> DEFINE T(k) == GetStr(obj, k)
           tls == Field(obj, "tls") \in {Bool(TRUE), Num(1), Word("tls"),
                                         Word("1"), Word("true")}
           net == OrElse(T("net"), OrElse(T("obfs"), T("type")))
           network ==
             IF net \in {Some(<<t>>) : t \in {"ws", "websocket", "httpupgrade"}}
             THEN "ws"
             ELSE IF net \in {Some(<<t>>) : t \in {"http", "grpc", "h2"}}
             THEN net[1][1] ELSE "tcp"
           host == OrElse(T("host"), T("obfsParam"))
           path == T("path")
           transport ==
             CASE network = "ws" ->
                    WsOpts(host, path, net = Some(<<"httpupgrade">>))
               [] network = "grpc" -> GrpcOpts(path)
               [] network = "h2" -> H2Opts(host, path)
               [] network = "http" -> HttpOpts(host, OneOf(Some(Or(path, <<"/">>))))
               [] OTHER -> <<>>
           e == Entry("vmess",
                      OrElse(T("ps"), OrElse(T("remarks"), T("remark"))),
                      "VMess", server, port)
           a1 == Kv("uuid", Str(uuid))
           a2 == Kv("cipher", Str(Cipher(Some(Or(T("scy"), <<"auto">>)))))
           a3 == Kv("alterId", IF "num" \in DOMAIN Field(obj, "aid")
                               THEN Field(obj, "aid") ELSE Num(0))
           a4 == Kv("tls", Bool(tls))
           a5 == IF tls
                 THEN KvOpt("servername", OrElse(T("sni"),
                              IF network = "tcp" THEN None ELSE host))
                 ELSE <<>>
           a6 == IF "verify_cert" \in DOMAIN obj
                 THEN Kv("skip-cert-verify",
                         Bool(~ParseBool(AnyStr(obj["verify_cert"]))))
                 ELSE <<>>
<1>1. VmessEntry(obj, server, port, uuid)
      = e ++ a1 ++ a2 ++ a3 ++ a4 ++ a5 ++ a6 ++ transport
  BY DEF VmessEntry
<1>2. Dialable(e)
  BY EntryFacts
<1> HIDE DEF e, a1, a2, a3, a4, a5, a6, transport
<1>. QED BY <1>1, <1>2, DialableOver, Zenon

LEMMA VmessDials == ASSUME NEW rest PROVE Dials(Vmess(rest))
BY PortFacts, VmessEntryDials, OkFacts DEF Vmess

(* The keys of the plugin of an ss node, and of what is written before the *)
(* entry itself: they leave type, server and port alone.                   *)
SsKeys == {"udp-over-tcp", "tfo", "plugin", "plugin-opts"}

LEMMA KeysFacts ==
  /\ \A k, v : k \in SsKeys => DOMAIN Kv(k, v) \subseteq SsKeys
  /\ \A c, k, v : k \in SsKeys => DOMAIN KvIf(c, k, v) \subseteq SsKeys
  /\ \A k, m : k \in SsKeys => DOMAIN KvMap(k, m) \subseteq SsKeys
  /\ \A f, g : DOMAIN f \subseteq SsKeys /\ DOMAIN g \subseteq SsKeys
               => DOMAIN (f ++ g) \subseteq SsKeys
<1>1. \A k, v : k \in SsKeys => DOMAIN Kv(k, v) \subseteq SsKeys
  <2>1. ASSUME NEW k \in SsKeys, NEW v PROVE DOMAIN Kv(k, v) \subseteq SsKeys
    <3>1. DOMAIN Kv(k, v) = {k}
      BY KvFacts, Zenon DEF Single
    <3>. QED BY <3>1
  <2>. QED BY <2>1
<1>2. \A c, k, v : k \in SsKeys => DOMAIN KvIf(c, k, v) \subseteq SsKeys
  <2>1. ASSUME NEW c, NEW k \in SsKeys, NEW v
        PROVE  DOMAIN KvIf(c, k, v) \subseteq SsKeys
    <3>1. CASE c
      <4>1. KvIf(c, k, v) = Kv(k, v)
        BY <3>1 DEF KvIf
      <4>. QED BY <1>1, <4>1
    <3>2. CASE ~c
      <4>1. KvIf(c, k, v) = <<>>
        BY <3>2 DEF KvIf
      <4>. QED BY <4>1
    <3>. QED BY <3>1, <3>2
  <2>. QED BY <2>1
<1>3. \A k, m : k \in SsKeys => DOMAIN KvMap(k, m) \subseteq SsKeys
  BY <1>2 DEF KvMap
<1>4. ASSUME NEW f, NEW g, DOMAIN f \subseteq SsKeys, DOMAIN g \subseteq SsKeys
      PROVE  DOMAIN (f ++ g) \subseteq SsKeys
  <2>1. Covers(f ++ g, f, g)
    BY OverFacts
  <2>. QED BY <1>4, <2>1 DEF Covers
<1>. QED BY <1>1, <1>2, <1>3, <1>4

LEMMA SsPluginKeys ==
  \A param : IsOk(SsPlugin(param)) => DOMAIN SsPlugin(param).ok \subseteq SsKeys
<1>0. SUFFICES ASSUME NEW param, IsOk(SsPlugin(param))
               PROVE  DOMAIN SsPlugin(param).ok \subseteq SsKeys
  OBVIOUS
<1>1. \A x : DOMAIN (Kv("plugin", x)) \subseteq SsKeys
  BY KeysFacts DEF SsKeys
<1>2. \A x, m : DOMAIN (Kv("plugin", x) ++ KvMap("plugin-opts", m)) \subseteq SsKeys
  BY <1>1, KeysFacts DEF SsKeys
<1>3. \A m : Ok(m).ok = m
  BY DEF Ok
<1> DEFINE parts == Split(param, ";")
           opts == PluginOpts(Tail(parts))
           Opt(k) == IF <<k>> \in DOMAIN opts THEN Some(opts[<<k>>]) ELSE None
           mode == KvOpt("mode", Opt("obfs")) ++ KvOpt("host", Opt("obfs-host"))
           ws == Kv("mode", Word("websocket")) ++
                 KvOpt("host", OrElse(Opt("obfs-host"), Opt("host"))) ++
                 KvOpt("path", Opt("path")) ++
                 KvIf(IsSome(Opt("tls")), "tls", Bool(TRUE))
           r1 == Ok(Kv("plugin", Word("obfs")) ++ KvMap("plugin-opts", mode))
           r2 == Ok(Kv("plugin", Word("v2ray-plugin")) ++ KvMap("plugin-opts", ws))
<1>4. \E x, m : SsPlugin(param) = Ok(Kv("plugin", x) ++ KvMap("plugin-opts", m))
  <2>1. SsPlugin(param) =
          CASE parts[1] \in {<<"obfs-local">>, <<"simple-obfs">>} -> r1
            [] parts[1] = <<"v2ray-plugin">> -> r2
            [] OTHER -> Invalid
    BY DEF SsPlugin, PluginOf
  <2>2. Invalid # SsPlugin(param)
    BY <1>0 DEF IsOk, Invalid, Err
  <2> HIDE DEF parts, mode, ws
  <2>3. r1 = Ok(Kv("plugin", Word("obfs")) ++ KvMap("plugin-opts", mode))
    OBVIOUS
  <2>4. r2 = Ok(Kv("plugin", Word("v2ray-plugin")) ++ KvMap("plugin-opts", ws))
    OBVIOUS
  <2> HIDE DEF r1, r2
  <2>5. SsPlugin(param) = r1 \/ SsPlugin(param) = r2
    BY <2>1, <2>2
  <2>. QED BY <2>3, <2>4, <2>5
<1>. QED BY <1>2, <1>3, <1>4

LEMMA SsEntryDials ==
  ASSUME NEW q, NEW plugin, NEW name, NEW server, NEW port \in Ports,
         NEW cipher, NEW password,
         DOMAIN plugin \subseteq SsKeys, server # <<>>
  PROVE  Dialable(SsEntry(q, plugin, name, server, port, cipher, password))
<1> DEFINE v2ray == IF IsSome(Get(q, "v2ray-plugin"))
                    THEN DecodeBase64(Get(q, "v2ray-plugin")[1]) ELSE <<>>
           Flag(k, key) == KvIf(Has(q, k) /\ BoolOrPresence(Get(q, k)),
                                key, Bool(TRUE))
           b1 == Flag("uot", "udp-over-tcp")
           b2 == Flag("tfo", "tfo")
           w1 == Kv("plugin", Word("v2ray-plugin"))
           w2 == Kv("plugin-opts", JsonToMapping[Json[v2ray[1]]])
           w == w1 ++ w2
           b3 == IF Len(v2ray) = 1 /\ v2ray[1] \in DOMAIN Json THEN w ELSE <<>>
           b == b1 ++ b2 ++ b3 ++ plugin
           e == Entry("ss", name, "SS", server, port)
           a1 == Kv("cipher", Str(Cipher(Some(cipher))))
           a2 == Kv("password", Str(password))
<1>1. SsEntry(q, plugin, name, server, port, cipher, password) = b ++ e ++ a1 ++ a2
  BY DEF SsEntry
<1>2. Dialable(e)
  BY EntryFacts
<1>3. DOMAIN b \subseteq SsKeys
  <2>1. \A c, v : /\ DOMAIN KvIf(c, "udp-over-tcp", v) \subseteq SsKeys
                  /\ DOMAIN KvIf(c, "tfo", v) \subseteq SsKeys
                  /\ DOMAIN Kv("plugin", v) \subseteq SsKeys
                  /\ DOMAIN Kv("plugin-opts", v) \subseteq SsKeys
    BY KeysFacts DEF SsKeys
  <2>2. /\ DOMAIN b1 \subseteq SsKeys /\ DOMAIN b2 \subseteq SsKeys
        /\ DOMAIN w1 \subseteq SsKeys /\ DOMAIN w2 \subseteq SsKeys
    BY <2>1, Zenon
  <2> HIDE DEF b1, b2, w1, w2
  <2>3. DOMAIN w \subseteq SsKeys
    BY <2>2, KeysFacts, Zenon
  <2> HIDE DEF w
  <2>4. DOMAIN b3 \subseteq SsKeys
    <3>1. DOMAIN <<>> \subseteq SsKeys
      OBVIOUS
    <3>. QED BY <2>3, <3>1, Zenon
  <2> HIDE DEF b3
  <2>. QED BY <2>2, <2>4, KeysFacts, Zenon
<1>4. DOMAIN b \cap {"type", "server", "port"} = {}
  <2> HIDE DEF b
  <2>. QED BY <1>3 DEF SsKeys
<1> HIDE DEF b, e, a1, a2
<1>. QED BY <1>1, <1>2, <1>4, DialableOver, DialableUnder, Zenon

LEMMA SsDials == ASSUME NEW rest PROVE Dials(Ss(rest))
<1> DEFINE f == SplitOnce(rest, "#")
           cut == SplitOnce(f[1], "?")
           q == Query(cut[2])
           main == IF Contains(cut[1], "@") THEN cut[1] ELSE DecodeBase64(cut[1])
           at == SplitLast(main, "@")
           hp == SplitLast(Split(at[2][1], "/")[1], ":")
           server == Unbracketed(hp[1])
           port == RequiredPort(hp[2][1])
           user == SplitOnce(DecodeBase64(at[1]), ":")
           plugin == IF IsSome(Get(q, "plugin"))
                     THEN SsPlugin(Get(q, "plugin")[1]) ELSE Ok(<<>>)
           bad == \/ ~IsSome(at[2]) \/ ~IsSome(hp[2]) \/ ~IsSome(port)
                  \/ server = <<>> \/ Or(user[2], <<>>) = <<>> \/ ~IsOk(plugin)
           name == DecodeAndTrim(f[2])
           entry == SsEntry(q, plugin.ok, name, server, port[1], user[1], user[2][1])
<1>1. Ss(rest) = IF bad THEN Invalid ELSE Ok(entry)
  BY DEF Ss
<1> HIDE DEF f, cut, q, main, at, hp, server, user
<1>3. IsSome(port) => port[1] \in Ports
  BY PortFacts, Zenon
<1> HIDE DEF port
<1>4. IsOk(plugin) => DOMAIN plugin.ok \subseteq SsKeys
  <2>1. DOMAIN Ok(<<>>).ok \subseteq SsKeys
    BY DEF Ok
  <2>. QED BY <2>1, SsPluginKeys, Zenon
<1> HIDE DEF plugin, name
<1>2. ~bad => IsSome(port) /\ server # <<>> /\ IsOk(plugin)
  OBVIOUS
<1> HIDE DEF bad
<1>5. ~bad => Dialable(entry)
  BY <1>2, <1>3, <1>4, SsEntryDials
<1> HIDE DEF entry
<1>. QED BY <1>1, <1>5, OkFacts, Zenon

-----------------------------------------------------------------------------
(* The lists a configuration is made of.                                   *)

IsSequence(q) == q \in Seq(ToSet(q))

LEMMA SequenceFacts ==
  \A q : IsSequence(q) => Len(q) \in Nat /\ DOMAIN q = 1 .. Len(q)
BY DEF IsSequence

LEMMA CountedIsSequence ==
  ASSUME NEW n \in Nat, NEW q, q = [i \in 1 .. n |-> q[i]]
  PROVE  IsSequence(q) /\ Len(q) = n
<1>1. q \in [1 .. n -> ToSet(q)]
  BY DEF ToSet
<1>. QED BY <1>1 DEF IsSequence

LEMMA RowsAtIsSequence ==
  ASSUME NEW q, IsSequence(q), NEW I \in SUBSET DOMAIN q
  PROVE  IsSequence(RowsAt(q, I))
<1>1. Len(q) \in Nat /\ DOMAIN q = 1 .. Len(q)
  BY SequenceFacts
<1>2. Cardinality(I) \in Nat /\ DOMAIN RowsAt(q, I) = 1 .. Cardinality(I)
  BY <1>1, RowsAtFacts
<1>3. RowsAt(q, I) = [k \in DOMAIN RowsAt(q, I) |-> RowsAt(q, I)[k]]
  BY DEF RowsAt
<1>. QED BY <1>2, <1>3, CountedIsSequence

LEMMA LeastPosition ==
  ASSUME NEW n \in Nat, NEW I \in SUBSET (1 .. n), I # {}
  PROVE  \E i \in I : \A j \in I : i <= j
<1> DEFINE c == Cardinality(I)
           f == InOrder(I)
<1>0. \A i \in I : i \in Nat
  OBVIOUS
<1>1. /\ c \in Nat /\ f \in [1 .. c -> I]
      /\ \A i, j \in 1 .. c : i < j => f[i] < f[j]
      /\ \A x \in I : \E i \in 1 .. c : f[i] = x
  BY InOrderOfPositions
<1> HIDE DEF c, f
<1>2. 1 \in 1 .. c /\ f[1] \in I
  <2>1. PICK x \in I : TRUE
    OBVIOUS
  <2>2. PICK i \in 1 .. c : f[i] = x
    BY <1>1
  <2>. QED BY <1>1, <2>2
<1>3. ASSUME NEW x \in I PROVE f[1] <= x
  <2>1. PICK i \in 1 .. c : f[i] = x
    BY <1>1
  <2>2. CASE i = 1
    BY <1>2, <2>1, <2>2
  <2>3. CASE 1 < i
    <3>1. f[1] < x
      BY <1>1, <1>2, <2>1, <2>3
    <3>2. f[1] \in Nat /\ x \in Nat
      BY <1>0, <1>2, <1>3
    <3>. QED BY <3>1, <3>2
  <2>. QED BY <1>1, <2>1, <2>2, <2>3
<1>. QED BY <1>2, <1>3

LEMMA NodeDials == ASSUME NEW line PROVE Dials(ConvertNode(line))
<1> DEFINE s == line.scheme
           low == IF s \in DOMAIN Lower THEN Lower[s] ELSE s
<1>1. \/ ConvertNode(line) \in {Invalid, Err("UnsupportedScheme")}
      \/ ConvertNode(line) = Vless(line.rest)
      \/ ConvertNode(line) = Vmess(line.rest)
      \/ ConvertNode(line) = Ss(line.rest)
      \/ ConvertNode(line) = Trojan(line.rest)
      \/ ConvertNode(line) = Proxy("http", "HTTP", line.rest)
      \/ ConvertNode(line) = Proxy("socks5", "SOCKS5", line.rest)
      \/ ConvertNode(line) = Hysteria2(line.rest)
  <2>1. ConvertNode(line) =
          CASE low = "vless" ->
                 IF s = low /\ line.rest # <<>> THEN Vless(line.rest) ELSE Invalid
            [] low = "vmess" -> IF s = low THEN Vmess(line.rest) ELSE Invalid
            [] low = "ss" -> IF s = low THEN Ss(line.rest) ELSE Invalid
            [] low = "trojan" -> IF s = low THEN Trojan(line.rest) ELSE Invalid
            [] low \in {"http", "https"} ->
                 IF s = "http" THEN Proxy("http", "HTTP", line.rest) ELSE Invalid
            [] low \in {"socks5", "socks"} ->
                 IF s = "socks5" THEN Proxy("socks5", "SOCKS5", line.rest)
                 ELSE Invalid
            [] low \in {"hysteria2", "hy2"} ->
                 IF s = low THEN Hysteria2(line.rest) ELSE Invalid
            [] OTHER -> Err("UnsupportedScheme")
    BY DEF ConvertNode
  <2> HIDE DEF s, low
  <2>. QED BY <2>1
<1>2. \A rest : /\ Dials(Vless(rest)) /\ Dials(Vmess(rest)) /\ Dials(Ss(rest))
                /\ Dials(Trojan(rest)) /\ Dials(Hysteria2(rest))
                /\ Dials(Proxy("http", "HTTP", rest))
                /\ Dials(Proxy("socks5", "SOCKS5", rest))
  BY VlessDials, VmessDials, SsDials, TrojanDials, Hysteria2Dials, ProxyDials
<1>. QED BY <1>1, <1>2, OkFacts

(* A list that converts has an entry for each of its nodes.                *)
LEMMA NodeListFacts ==
  ASSUME NEW lines, IsSequence(lines), IsOk(NodeListToYaml(lines))
  PROVE  LET entries == SubList(NodeListToYaml(lines).ok, "proxies")
         IN  /\ IsSequence(entries)
             /\ Len(entries) = Len(Nodes(lines))
             /\ \A i \in DOMAIN entries : Dialable(entries[i].map)
<1> DEFINE nodes == Nodes(lines)
           results == [i \in DOMAIN nodes |-> ConvertNode(nodes[i])]
           bad == {i \in DOMAIN results : ~IsOk(results[i])}
           members == [i \in DOMAIN results |-> Map(results[i].ok)]
           doc == Kv("proxies", List(members))
           n == Len(nodes)
<1>1. IsSequence(nodes)
  BY RowsAtIsSequence DEF Nodes
<1>2. n \in Nat /\ DOMAIN nodes = 1 .. n
  BY <1>1, SequenceFacts
<1>3. NodeListToYaml(lines) =
        IF bad # {} THEN results[CHOOSE i \in bad : \A j \in bad : i <= j]
        ELSE IF results = <<>> THEN Err("NotAConfig") ELSE Ok(doc)
  BY DEF NodeListToYaml
<1> HIDE DEF nodes
<1>4. bad # {} => ~IsOk(NodeListToYaml(lines))
  <2> DEFINE least == CHOOSE i \in bad : \A j \in bad : i <= j
  <2>1. bad # {} => least \in bad
    <3>1. ASSUME bad # {} PROVE \E i \in bad : \A j \in bad : i <= j
      BY <1>2, <3>1, LeastPosition
    <3>. QED BY <3>1
  <2>2. bad # {} => NodeListToYaml(lines) = results[least]
    BY <1>3
  <2> HIDE DEF least
  <2>. QED BY <2>1, <2>2
<1>5. bad = {} /\ NodeListToYaml(lines) = Ok(doc)
  <2>1. ~IsOk(Err("NotAConfig"))
    BY DEF IsOk, Err
  <2> HIDE DEF bad, results, doc
  <2>. QED BY <1>3, <1>4, <2>1
<1>6. SubList(Ok(doc).ok, "proxies") = members
  <2>1. Single(doc, "proxies", List(members)) /\ Ok(doc).ok = doc
    BY KvFacts DEF Ok
  <2>2. IsList(List(members)) /\ List(members).list = members
    BY DEF IsList, List
  <2> HIDE DEF members, doc
  <2>. QED BY <2>1, <2>2 DEF Single, SubList
<1>7. IsSequence(members) /\ Len(members) = n
  <2>1. members = [i \in 1 .. n |-> members[i]]
    BY <1>2
  <2> HIDE DEF members, n
  <2>. QED BY <1>2, <2>1, CountedIsSequence
<1>8. \A i \in DOMAIN members : Dialable(members[i].map)
  <2>1. ASSUME NEW i \in DOMAIN nodes PROVE Dialable(Map(results[i].ok).map)
    <3>1. IsOk(ConvertNode(nodes[i]))
      BY <1>5, <2>1
    <3>2. Dialable(ConvertNode(nodes[i]).ok)
      BY <3>1, NodeDials DEF Dials
    <3>. QED BY <2>1, <3>2 DEF Map
  <2>. QED BY <2>1
<1>. QED BY <1>5, <1>6, <1>7, <1>8 DEF nodes

-----------------------------------------------------------------------------
(* What the steps keep.                                                    *)

(* The texts there are: those downloaded and, at first, none.              *)
ALL_TEXTS == TEXTS \cup {[empty |-> TRUE]}

(* The profile is the conversion of some text, the runtime is what the     *)
(* profile and the settings of this moment make, and the answer is the     *)
(* conversion of the last text.                                            *)
GeneratedInv ==
  /\ settings \in SETTINGS
  /\ text \in ALL_TEXTS /\ answer = SubscriptionToYaml(text)
  /\ IsSome(stored) =>
       \E t \in TEXTS : /\ IsOk(SubscriptionToYaml(t))
                        /\ stored = Some(SubscriptionToYaml(t).ok)
  /\ IsSome(runtime) =>
       IsSome(stored) /\ runtime = Some(Assembled(stored[1], settings))

LEMMA TextFacts ==
  ASSUME NEW t \in ALL_TEXTS
  PROVE  /\ \E kind \in {"yaml", "lines", "empty", "other"} :
              DOMAIN Normalize(t) = {kind}
         /\ "lines" \in DOMAIN Normalize(t) => IsSequence(Normalize(t).lines)
         /\ "yaml" \in DOMAIN Normalize(t) =>
              \A k \in DOMAIN Normalize(t).yaml :
                IsList(Normalize(t).yaml[k]) =>
                  IsSequence(Normalize(t).yaml[k].list)
<1>1. CASE t \in TEXTS
  BY <1>1, TextAssumption DEF IsSequence
<1>2. CASE t = [empty |-> TRUE]
  <2>1. DOMAIN Normalize(t) = {"empty"}
    BY <1>2 DEF Normalize
  <2>. QED BY <2>1
<1>. QED BY <1>1, <1>2 DEF ALL_TEXTS

LEMMA SomeFacts == \A x : IsSome(Some(x)) /\ Some(x)[1] = x
BY DEF IsSome, Some, None

LEMMA EmptyIsRefused ==
  SubscriptionToYaml([empty |-> TRUE]) = Err("Empty")
<1>1. Normalize([empty |-> TRUE]) = [empty |-> TRUE]
  BY DEF Normalize
<1>2. ParseSubscription([empty |-> TRUE]) = Err("Empty")
  BY DEF ParseSubscription
<1>. QED BY <1>1, <1>2 DEF SubscriptionToYaml

(* Imports, timers and settings, in whatever order, leave the runtime what *)
(* the profile and the settings make now (run's transaction, commit).      *)
THEOREM GeneratedInvariant == GenSpec => []GeneratedInv
<1>1. GenInit => GeneratedInv
  BY EmptyIsRefused DEF GenInit, GeneratedInv, ALL_TEXTS, IsSome
<1>2. GeneratedInv /\ [GenNext]_genVars => GeneratedInv'
  <2> SUFFICES ASSUME GeneratedInv, [GenNext]_genVars PROVE GeneratedInv'
    OBVIOUS
  <2>1. ASSUME NEW t \in TEXTS, NEW accepted,
               accepted => IsOk(SubscriptionToYaml(t)),
               Store(t, SubscriptionToYaml(t), accepted)
        PROVE  GeneratedInv'
    <3> DEFINE converted == SubscriptionToYaml(t)
               valid == accepted /\ ValidateRuntime(
                          Assembled(converted.ok, settings), settings)
    <3>1. /\ text' = t /\ answer' = converted /\ settings' = settings
          /\ stored' = IF valid THEN Some(converted.ok) ELSE stored
          /\ runtime' = IF valid THEN Some(Assembled(converted.ok, settings))
                        ELSE runtime
      BY <2>1 DEF Store
    <3>2. valid => IsOk(converted)
      BY <2>1
    <3>3. text' \in ALL_TEXTS /\ answer' = SubscriptionToYaml(text')
      BY <2>1, <3>1 DEF ALL_TEXTS
    <3> HIDE DEF converted, valid
    <3>4. CASE valid
      <4>1. /\ stored' = Some(converted.ok) /\ IsSome(stored')
            /\ stored'[1] = converted.ok
            /\ runtime' = Some(Assembled(converted.ok, settings))
        BY <3>1, <3>4, SomeFacts
      <4>2. /\ IsOk(SubscriptionToYaml(t))
            /\ stored' = Some(SubscriptionToYaml(t).ok)
        BY <3>2, <3>4, <4>1 DEF converted
      <4>. QED BY <2>1, <3>1, <3>3, <4>1, <4>2 DEF GeneratedInv
    <3>5. CASE ~valid
      BY <3>1, <3>3, <3>5 DEF GeneratedInv
    <3>. QED BY <3>4, <3>5
  <2>2. ASSUME NEW t \in TEXTS, Import(t) PROVE GeneratedInv'
    <3>1. Store(t, SubscriptionToYaml(t), IsOk(SubscriptionToYaml(t)))
      BY <2>2 DEF Import
    <3>. QED BY <2>1, <3>1
  <2>3. ASSUME NEW t \in TEXTS, AutoUpdate(t) PROVE GeneratedInv'
    <3>1. Store(t, SubscriptionToYaml(t), IsOk(SubscriptionToYaml(t))
                                          /\ HasProxies(SubscriptionToYaml(t).ok))
      BY <2>3 DEF AutoUpdate
    <3>. QED BY <2>1, <3>1
  <2>4. ASSUME NEW s \in SETTINGS, SettingsSet(s) PROVE GeneratedInv'
    <3>1. /\ IsSome(stored) /\ settings' = s
          /\ runtime' = Some(Assembled(stored[1], s))
          /\ UNCHANGED <<text, answer, stored>>
      BY <2>4 DEF SettingsSet
    <3>. QED BY <2>4, <3>1 DEF GeneratedInv
  <2>5. CASE UNCHANGED genVars
    BY <2>5 DEF genVars, GeneratedInv
  <2>. QED BY <2>2, <2>3, <2>4, <2>5 DEF GenNext
<1>. QED BY <1>1, <1>2, PTL DEF GenSpec

-----------------------------------------------------------------------------
(* What is generated.                                                      *)

LEMMA OptionsFacts ==
  ASSUME NEW s \in SETTINGS, NEW level, SETTINGS \subseteq Settings
  PROVE  LET o == OptionsFrom(s, level)
         IN  /\ o.mixed_port = s.mixed_port
             /\ o.tun_enabled = s.tun_enabled /\ o.tun_enabled \in BOOLEAN
             /\ o.dns_hosts = s.dns_hosts
             /\ o.log_level = IfEmpty(Trim(level), <<"info">>)
<1> DEFINE given ==
             [s EXCEPT
                !.mode = IfEmpty(Trim(s.mode), <<"rule">>),
                !.tun_stack = IfEmpty(s.tun_stack, <<"gvisor">>),
                !.dns_hijack = IfEmpty(s.dns_hijack, DEFAULT_HIJACK),
                !.tun_dns_mode = IfEmpty(s.tun_dns_mode, <<"fake-ip">>),
                !.route_exclude_address =
                   IfEmpty(s.route_exclude_address, DEFAULT_ROUTE_EXCLUDE),
                !.dns_fake_ip_filter_mode =
                   IfEmpty(s.dns_fake_ip_filter_mode, <<"blacklist">>)]
           log == [log_level |-> IfEmpty(Trim(level), <<"info">>)]
           o == OptionsFrom(s, level)
<1>1. o = given ++ log
  BY DEF OptionsFrom
<1>2. Covers(given ++ log, given, log)
  BY OverFacts
<1>3. s \in Settings
  OBVIOUS
<1>4. /\ {"mixed_port", "tun_enabled", "dns_hosts"} \subseteq DOMAIN given
      /\ "log_level" \notin DOMAIN given
      /\ given.mixed_port = s.mixed_port /\ given.tun_enabled = s.tun_enabled
      /\ given.dns_hosts = s.dns_hosts /\ s.tun_enabled \in BOOLEAN
  BY <1>3 DEF Settings
<1>5. "log_level" \in DOMAIN log /\ log.log_level = IfEmpty(Trim(level), <<"info">>)
  OBVIOUS
<1> HIDE DEF given, log, o
<1>. QED BY <1>1, <1>2, <1>4, <1>5 DEF Covers, o

(* The configuration of a profile under some settings.                     *)
LEMMA AssembledFacts ==
  ASSUME NEW p, NEW s \in SETTINGS
  PROVE  LET o == OptionsFrom(s, LOG_LEVEL)
             r == Assembled(p, s)
             keys == ManagedKeys(o)
         IN  /\ o.mixed_port = s.mixed_port
             /\ o.tun_enabled = s.tun_enabled
             /\ o.log_level = IfEmpty(Trim(LOG_LEVEL), <<"info">>)
             /\ keys \cup DOMAIN p \subseteq DOMAIN r
             /\ HasSettings(r, p, o)
             /\ \A k \in DOMAIN p \ (keys \cup {"rules", "proxy-groups"}) :
                  r[k] = p[k]
             /\ SubList(p, "rules") # <<>> => r["rules"] = p["rules"]
             /\ SubList(p, "proxy-groups") # <<>> =>
                  r["proxy-groups"] = p["proxy-groups"]
             /\ Names(r) = Names(p)
             /\ SubList(p, "rules") = <<>> /\ Names(p) # <<>> =>
                  /\ "rules" \in DOMAIN r /\ r["rules"] = DefaultRules
                  /\ SubList(p, "proxy-groups") = <<>> =>
                       /\ "proxy-groups" \in DOMAIN r
                       /\ r["proxy-groups"] = List(<<GlobalGroup(Names(p))>>)
<1> DEFINE o == OptionsFrom(s, LOG_LEVEL)
           m == Inject(p, o)
           r == Assembled(p, s)
           keys == ManagedKeys(o)
<1>1. /\ o.mixed_port = s.mixed_port
      /\ o.tun_enabled = s.tun_enabled /\ o.tun_enabled \in BOOLEAN
      /\ o.log_level = IfEmpty(Trim(LOG_LEVEL), <<"info">>)
  BY OptionsFacts, SettingsAssumption, Zenon
<1>2. /\ DOMAIN m = keys \cup DOMAIN p
      /\ HasSettings(m, p, o)
      /\ \A k \in DOMAIN p \ keys : m[k] = p[k]
  <2>1. o.tun_enabled \in BOOLEAN
    BY <1>1
  <2> HIDE DEF o
  <2>. QED BY <2>1, InjectFacts
<1>3. r = EnsureDefaultRouting(m)
  BY DEF Assembled, Generate
<1>4. {"rules", "proxy-groups", "proxies"} \cap keys = {}
  BY DEF ManagedKeys, ENTRANCES
<1> HIDE DEF o, m, r
<1>5. /\ {"mixed-port", "log-level", "tun"} \cup ENTRANCES \subseteq keys
      /\ o.dns_hosts # <<>> => "hosts" \in keys
      /\ "rules" \notin keys /\ "proxy-groups" \notin keys
  BY <1>4 DEF ManagedKeys
<1> HIDE DEF keys
<1>6. /\ SubList(m, "rules") = SubList(p, "rules")
      /\ SubList(m, "proxy-groups") = SubList(p, "proxy-groups")
      /\ SubList(m, "proxies") = SubList(p, "proxies")
  BY <1>2, <1>4 DEF SubList
<1>7. Names(m) = Names(p)
  BY <1>6 DEF Names
<1>8. /\ DOMAIN m \subseteq DOMAIN r
      /\ DOMAIN r \subseteq DOMAIN m \cup {"rules", "proxy-groups"}
      /\ \A k \in DOMAIN m \ {"rules", "proxy-groups"} : r[k] = m[k]
      /\ SubList(m, "rules") # <<>> => r = m
      /\ SubList(m, "proxy-groups") # <<>> =>
           r["proxy-groups"] = m["proxy-groups"]
      /\ SubList(m, "rules") = <<>> /\ Names(m) # <<>> =>
           /\ "rules" \in DOMAIN r /\ r["rules"] = DefaultRules
           /\ SubList(m, "proxy-groups") = <<>> =>
                /\ "proxy-groups" \in DOMAIN r
                /\ r["proxy-groups"] = List(<<GlobalGroup(Names(m))>>)
  BY <1>3, RoutingFacts
<1>9. HasSettings(r, p, o)
  <2>1. \A k \in keys : r[k] = m[k]
    BY <1>2, <1>5, <1>8
  <2>. QED BY <1>2, <1>5, <2>1 DEF HasSettings
<1>10. SubList(r, "proxies") = SubList(m, "proxies")
  BY <1>8 DEF SubList
<1>11. Names(r) = Names(p)
  BY <1>7, <1>10 DEF Names
<1>12. SubList(p, "rules") # <<>> => "rules" \in DOMAIN p /\ m["rules"] = p["rules"]
  BY <1>2, <1>5 DEF SubList
<1>13. SubList(p, "proxy-groups") # <<>> =>
         "proxy-groups" \in DOMAIN p /\ m["proxy-groups"] = p["proxy-groups"]
  BY <1>2, <1>5 DEF SubList
<1>14. \A k \in DOMAIN p \ (keys \cup {"rules", "proxy-groups"}) : r[k] = p[k]
  BY <1>2, <1>8
<1>15. keys \cup DOMAIN p \subseteq DOMAIN r
  BY <1>2, <1>8
<1>. QED BY <1>1, <1>6, <1>7, <1>8, <1>9, <1>11, <1>12, <1>13, <1>14, <1>15
         DEF o, r, keys

-----------------------------------------------------------------------------
(* The nodes of a subscription.                                            *)

LEMMA NodesOfText ==
  ASSUME NEW t \in ALL_TEXTS, IsOk(SubscriptionToYaml(t))
  PROVE  IsSequence(SubList(SubscriptionToYaml(t).ok, "proxies"))
<1> DEFINE n == Normalize(t)
<1>1. /\ \E kind \in {"yaml", "lines", "empty", "other"} : DOMAIN n = {kind}
      /\ "lines" \in DOMAIN n => IsSequence(n.lines)
      /\ "yaml" \in DOMAIN n => \A k \in DOMAIN n.yaml :
           IsList(n.yaml[k]) => IsSequence(n.yaml[k].list)
  BY TextFacts
<1>2. SubscriptionToYaml(t) = ParseSubscription(n)
  BY DEF SubscriptionToYaml
<1> HIDE DEF n
<1>3. CASE DOMAIN n = {"yaml"}
  <2>1. SubscriptionToYaml(t).ok = n.yaml
    BY <1>2, <1>3 DEF ParseSubscription, Ok
  <2>2. IsSequence(<<>>)
    BY DEF IsSequence
  <2>. QED BY <1>1, <1>3, <2>1, <2>2 DEF SubList
<1>4. CASE DOMAIN n = {"lines"}
  <2>1. SubscriptionToYaml(t) = NodeListToYaml(n.lines)
    BY <1>2, <1>4 DEF ParseSubscription, IsOk, Err
  <2>. QED BY <1>1, <1>4, <2>1, NodeListFacts
<1>5. CASE DOMAIN n = {"empty"} \/ DOMAIN n = {"other"}
  <2>1. \E e : SubscriptionToYaml(t) = Err(e)
    BY <1>2, <1>5 DEF ParseSubscription
  <2>. QED BY <2>1 DEF IsOk, Err
<1>. QED BY <1>1, <1>3, <1>4, <1>5

LEMMA NamesAreSequence ==
  ASSUME NEW m, IsSequence(SubList(m, "proxies"))
  PROVE  IsSequence(Names(m))
<1> DEFINE ps == SubList(m, "proxies")
           named == RowsAt(ps, Named(ps))
<1>1. IsSequence(named)
  <2>1. Named(ps) \in SUBSET DOMAIN ps
    BY DEF Named
  <2>. QED BY <2>1, RowsAtIsSequence
<1>2. Names(m) = [i \in DOMAIN named |-> named[i].map["name"]]
  BY DEF Names, NamesOf
<1>3. Len(named) \in Nat /\ DOMAIN named = 1 .. Len(named)
  BY <1>1, SequenceFacts
<1> HIDE DEF named
<1>4. Names(m) = [i \in 1 .. Len(named) |-> Names(m)[i]]
  BY <1>2, <1>3
<1>. QED BY <1>3, <1>4, CountedIsSequence

(* No line is lost, and each has an address.                               *)
THEOREM ListIsWholeAlways == GenSpec => []ListIsWhole
<1>1. GeneratedInv => ListIsWhole
  <2> SUFFICES ASSUME GeneratedInv, IsOk(answer), Lines # <<>>
               PROVE  /\ Len(Entries) = Len(Lines)
                      /\ \A i \in DOMAIN Entries : Dialable(Entries[i].map)
    BY DEF ListIsWhole, Dialable
  <2> DEFINE n == Normalize(text)
  <2>1. /\ \E kind \in {"yaml", "lines", "empty", "other"} : DOMAIN n = {kind}
        /\ "lines" \in DOMAIN n => IsSequence(n.lines)
    BY TextFacts DEF GeneratedInv
  <2>2. "lines" \in DOMAIN n /\ Lines = Nodes(n.lines)
    BY DEF Lines
  <2>3. answer = ParseSubscription(n)
    BY DEF GeneratedInv, SubscriptionToYaml
  <2> HIDE DEF n
  <2>4. DOMAIN n = {"lines"}
    BY <2>1, <2>2
  <2>5. answer = NodeListToYaml(n.lines)
    BY <2>3, <2>4 DEF ParseSubscription, IsOk, Err
  <2>. QED BY <2>1, <2>2, <2>5, NodeListFacts DEF Entries
<1>. QED BY <1>1, GeneratedInvariant, PTL

-----------------------------------------------------------------------------
(* The properties.                                                         *)

LEMMA KindFacts ==
  /\ \A n : Num(n).num = n
  /\ \A a, b : a = b => Num(a) = Num(b)
  /\ \A q : IsList(List(q)) /\ List(q).list = q
  /\ \A f : IsMap(Map(f)) /\ Map(f).map = f
BY DEF Num, IsList, List, IsMap, Map

LEMMA ReadBack ==
  ASSUME NEW p, NEW s \in SETTINGS
  PROVE  VerifyRuntime(Reported(Assembled(p, s)), s, LOG_LEVEL)
<1> DEFINE o == OptionsFrom(s, LOG_LEVEL)
           r == Assembled(p, s)
           taken == \E k \in ENTRANCES : Is(r, k, r["mixed-port"])
           port == IF taken THEN Num(0) ELSE r["mixed-port"]
           a == Kv("mixed-port", port)
           b == [k \in {"log-level"} |-> r[k]]
           ab == a ++ b
           tun == Map(Kv("enable", SubMap(r, "tun")["enable"]))
           c == Kv("tun", tun)
<1>1. /\ o.mixed_port = s.mixed_port
      /\ o.tun_enabled = s.tun_enabled
      /\ o.log_level = IfEmpty(Trim(LOG_LEVEL), <<"info">>)
      /\ ManagedKeys(o) \cup DOMAIN p \subseteq DOMAIN r
      /\ HasSettings(r, p, o)
  BY AssembledFacts
<1>2. Reported(r) = ab ++ c
  BY DEF Reported
<1>3. /\ Single(a, "mixed-port", port) /\ Single(c, "tun", tun)
      /\ Covers(ab, a, b) /\ Covers(ab ++ c, ab, c)
  BY KvFacts, OverFacts, Zenon
<1>4. DOMAIN b = {"log-level"} /\ b["log-level"] = r["log-level"]
  OBVIOUS
<1>5. port = Num(s.mixed_port)
  <2>1. r["mixed-port"] = Num(s.mixed_port) /\ \A k \in ENTRANCES : r[k] = Num(0)
    BY <1>1 DEF HasSettings
  <2>2. taken => r["mixed-port"] = Num(0)
    BY <2>1 DEF Is
  <2> HIDE DEF taken
  <2>. QED BY <2>1, <2>2
<1>6. tun = Map(Kv("enable", Bool(s.tun_enabled)))
  <2>1. "tun" \in DOMAIN r
    BY <1>1 DEF ManagedKeys
  <2>2. IsMap(r["tun"]) /\ r["tun"].map["enable"] = Bool(s.tun_enabled)
    BY <1>1 DEF HasSettings
  <2>3. SubMap(r, "tun")["enable"] = Bool(s.tun_enabled)
    BY <2>1, <2>2 DEF SubMap
  <2>. QED BY <2>3
<1>7. r["log-level"] = Str(IfEmpty(Trim(LOG_LEVEL), <<"info">>))
  BY <1>1 DEF HasSettings
<1> HIDE DEF port, tun, a, b, ab, c, r
<1>8. /\ (ab ++ c)["mixed-port"] = port /\ (ab ++ c)["tun"] = tun
      /\ (ab ++ c)["log-level"] = r["log-level"]
  BY <1>3, <1>4 DEF Covers, Single
<1>. QED BY <1>2, <1>5, <1>6, <1>7, <1>8 DEF VerifyRuntime, r

(* Whatever TEXTS and SETTINGS are, the core reports back what              *)
(* verify_runtime expects of it.                                           *)
THEOREM ReadBackAgreesAlways == GenSpec => []ReadBackAgrees
<1>1. GeneratedInv => ReadBackAgrees
  <2> SUFFICES ASSUME GeneratedInv, IsSome(runtime)
               PROVE  VerifyRuntime(Reported(runtime[1]), settings, LOG_LEVEL)
    BY DEF ReadBackAgrees
  <2>1. runtime[1] = Assembled(stored[1], settings) /\ settings \in SETTINGS
    BY SomeFacts DEF GeneratedInv
  <2>. QED BY <2>1, ReadBack
<1>. QED BY <1>1, GeneratedInvariant, PTL

(* Whatever the profile holds and whatever settings came and went, what is *)
(* not managed is as the profile has it.                                   *)
THEOREM ProfileIsKeptAlways == GenSpec => []ProfileIsKept
<1>1. GeneratedInv => ProfileIsKept
  <2> SUFFICES ASSUME GeneratedInv, IsSome(runtime) PROVE ProfileIsKept
    BY DEF ProfileIsKept
  <2> DEFINE p == stored[1]
             s == settings
             r == Assembled(p, s)
             o == OptionsFrom(s, LOG_LEVEL)
             keys == ManagedKeys(o)
  <2>1. runtime[1] = r /\ s \in SETTINGS
    BY SomeFacts DEF GeneratedInv
  <2>2. /\ o.tun_enabled = s.tun_enabled
        /\ keys \cup DOMAIN p \subseteq DOMAIN r
        /\ HasSettings(r, p, o)
        /\ \A k \in DOMAIN p \ (keys \cup {"rules", "proxy-groups"}) : r[k] = p[k]
        /\ SubList(p, "rules") # <<>> => r["rules"] = p["rules"]
        /\ SubList(p, "proxy-groups") # <<>> => r["proxy-groups"] = p["proxy-groups"]
    BY <2>1, AssembledFacts, Zenon
  <2>3. /\ keys \subseteq MANAGED \cup {"dns", "hosts"}
        /\ ~s.tun_enabled => "dns" \notin keys
        /\ o.dns_hosts = <<>> => "hosts" \notin keys
    BY <2>2 DEF ManagedKeys, MANAGED, ENTRANCES
  <2>4. \A h \in DOMAIN SubMap(p, "hosts") : h \in DOMAIN SubMap(r, "hosts")
    <3>1. CASE o.dns_hosts # <<>>
      <4>1. "hosts" \in DOMAIN r
        BY <2>2, <3>1 DEF ManagedKeys
      <4>. QED BY <2>2, <3>1, <4>1 DEF HasSettings, SubMap
    <3>2. CASE o.dns_hosts = <<>>
      <4> HIDE DEF p, r, keys, o
      <4>1. "hosts" \in DOMAIN p => "hosts" \in DOMAIN r /\ r["hosts"] = p["hosts"]
        BY <2>2, <2>3, <3>2
      <4>. QED BY <4>1 DEF SubMap
    <3>. QED BY <3>1, <3>2
  <2> HIDE DEF p, r, s, keys, o
  <2>5. \A k \in DOMAIN p \ (MANAGED \cup {"dns", "hosts", "rules", "proxy-groups"}) :
          r[k] = p[k]
    BY <2>2, <2>3
  <2>6. ~s.tun_enabled /\ "dns" \in DOMAIN p => r["dns"] = p["dns"]
    BY <2>2, <2>3
  <2>7. \A k \in {"rules", "proxy-groups"} : SubList(p, k) # <<>> => r[k] = p[k]
    BY <2>2
  <2>. QED BY <2>1, <2>4, <2>5, <2>6, <2>7 DEF ProfileIsKept, p, s
<1>. QED BY <1>1, GeneratedInvariant, PTL

(* No list of nodes, however long, is generated without rules and without  *)
(* a group that has them all.                                              *)
THEOREM NodesAreRoutedAlways == GenSpec => []NodesAreRouted
<1>1. GeneratedInv => NodesAreRouted
  <2> SUFFICES ASSUME GeneratedInv, IsSome(runtime), Names(stored[1]) # <<>>
               PROVE  NodesAreRouted
    BY DEF NodesAreRouted
  <2> DEFINE p == stored[1]
             r == runtime[1]
             s == settings
             names == Names(p)
             groups == List(<<GlobalGroup(names)>>)
  <2>1. r = Assembled(p, s) /\ s \in SETTINGS
    BY SomeFacts DEF GeneratedInv
  <2>2. /\ SubList(p, "rules") # <<>> => r["rules"] = p["rules"]
        /\ DOMAIN p \subseteq DOMAIN r
        /\ Names(r) = names
        /\ SubList(p, "rules") = <<>> =>
             /\ "rules" \in DOMAIN r /\ r["rules"] = DefaultRules
             /\ SubList(p, "proxy-groups") = <<>> =>
                  /\ "proxy-groups" \in DOMAIN r
                  /\ r["proxy-groups"] = groups
    BY <2>1, AssembledFacts
  <2>3. IsSequence(names)
    <3>1. PICK t \in TEXTS : IsOk(SubscriptionToYaml(t)) /\ p = SubscriptionToYaml(t).ok
      BY SomeFacts DEF GeneratedInv
    <3>2. IsSequence(SubList(p, "proxies"))
      BY <3>1, NodesOfText DEF ALL_TEXTS
    <3>. QED BY <3>2, NamesAreSequence
  <2>4. SubList(r, "rules") # <<>>
    <3>1. CASE SubList(p, "rules") # <<>>
      <4>1. "rules" \in DOMAIN p
        BY <3>1 DEF SubList
      <4>. QED BY <2>2, <3>1, <4>1 DEF SubList
    <3>2. CASE SubList(p, "rules") = <<>>
      <4> DEFINE rules == <<Word("GEOIP,private,DIRECT,no-resolve"),
                            Word("GEOIP,CN,DIRECT"), Word("MATCH,GLOBAL")>>
      <4>1. rules # <<>>
        OBVIOUS
      <4>2. DefaultRules = List(rules)
        BY DEF DefaultRules
      <4> HIDE DEF rules
      <4>3. IsList(DefaultRules) /\ DefaultRules.list = rules
        BY <4>2, KindFacts
      <4>. QED BY <2>2, <3>2, <4>1, <4>3 DEF SubList
    <3>. QED BY <3>1, <3>2
  <2>5. ASSUME SubList(p, "rules") = <<>>, SubList(p, "proxy-groups") = <<>>,
               NEW i \in DOMAIN Names(r)
        PROVE  Names(r)[i] \in
                 ToSet(SubList(SubList(r, "proxy-groups")[1].map, "proxies"))
    <3> DEFINE direct == Word("DIRECT")
               members == names \o <<direct>>
               g1 == Kv("name", Word("GLOBAL")) ++ Kv("type", Word("select"))
               g == g1 ++ Kv("proxies", List(members))
    <3>1. GlobalGroup(names) = Map(g)
      BY DEF GlobalGroup
    <3>2. Completes(g, g1, "proxies", List(members))
      BY AddFacts, Zenon
    <3>3. "proxies" \notin DOMAIN g1
      <4> DEFINE x == Word("GLOBAL")
                 y == Word("select")
                 u == Kv("name", x)
      <4>1. Completes(u ++ Kv("type", y), u, "type", y) /\ Single(u, "name", x)
        BY AddFacts, KvFacts, Zenon
      <4>2. g1 = u ++ Kv("type", y)
        OBVIOUS
      <4> HIDE DEF x, y, u, g1
      <4>. QED BY <4>1, <4>2 DEF Completes, Single
    <3> HIDE DEF g1, g, members, direct
    <3>4. SubList(g, "proxies") = members
      BY <3>2, <3>3, KindFacts DEF Completes, SubList
    <3>5. SubList(r, "proxy-groups") = <<GlobalGroup(names)>>
      <4>1. "proxy-groups" \in DOMAIN r /\ r["proxy-groups"] = groups
        BY <2>2, <2>5
      <4>. QED BY <4>1, KindFacts DEF SubList
    <3>6. SubList(r, "proxy-groups")[1].map = g
      BY <3>1, <3>5, KindFacts
    <3>7. Names(r)[i] \in ToSet(members)
      <4>1. names \in Seq(ToSet(names)) /\ i \in 1 .. Len(names)
        BY <2>2, <2>3, <2>5, SequenceFacts DEF IsSequence
      <4> HIDE DEF names
      <4>2. i \in DOMAIN members /\ members[i] = names[i]
        BY <4>1 DEF members
      <4>. QED BY <2>2, <4>2 DEF ToSet
    <3>. QED BY <3>4, <3>6, <3>7
  <2>. QED BY <2>4, <2>5 DEF NodesAreRouted
<1>. QED BY <1>1, GeneratedInvariant, PTL

-----------------------------------------------------------------------------
(* Cutting texts.                                                          *)

LEMMA OneToken ==
  ASSUME NEW S, NEW c \in S
  PROVE  <<c>> \in Seq(S) /\ Len(<<c>>) = 1 /\ <<c>>[1] = c
OBVIOUS

(* A text with a separator in it.                                          *)
LEMMA AroundFacts ==
  ASSUME NEW S, NEW a \in Seq(S), NEW b \in Seq(S), NEW c \in S
  PROVE  LET t == a \o <<c>> \o b
         IN  /\ t \in Seq(S) /\ Len(t) = Len(a) + 1 + Len(b)
             /\ t[Len(a) + 1] = c
             /\ \A i \in 1 .. Len(a) : t[i] = a[i]
             /\ \A i \in 1 .. Len(b) : t[Len(a) + 1 + i] = b[i]
             /\ SubSeq(t, 1, Len(a)) = a
             /\ SubSeq(t, Len(a) + 2, Len(t)) = b
<1> DEFINE t == a \o <<c>> \o b
           u == a \o <<c>>
<1>0. /\ a \in Seq(S) /\ b \in Seq(S) /\ <<c>> \in Seq(S)
      /\ Len(a) \in Nat /\ Len(b) \in Nat /\ Len(<<c>>) = 1 /\ <<c>>[1] = c
  BY OneToken
<1>9. /\ u \in Seq(S) /\ Len(u) = Len(a) + 1
      /\ \A i \in 1 .. Len(a) + 1 :
           u[i] = IF i <= Len(a) THEN a[i] ELSE <<c>>[i - Len(a)]
  BY <1>0, ConcatProperties
<1>8. t = u \o b
  OBVIOUS
<1> HIDE DEF u, t
<1>1. /\ t \in Seq(S) /\ Len(t) = Len(a) + 1 + Len(b)
      /\ \A i \in 1 .. Len(u) + Len(b) :
           t[i] = IF i <= Len(u) THEN u[i] ELSE b[i - Len(u)]
  <2>1. /\ u \o b \in Seq(S) /\ Len(u \o b) = Len(u) + Len(b)
        /\ \A i \in 1 .. Len(u) + Len(b) :
             (u \o b)[i] = IF i <= Len(u) THEN u[i] ELSE b[i - Len(u)]
    <3>1. u \in Seq(S) /\ b \in Seq(S)
      BY <1>0, <1>9
    <3>. QED BY <3>1, ConcatProperties
  <2>. QED BY <1>0, <1>8, <1>9, <2>1
<1>2. \A i \in 1 .. Len(a) : t[i] = a[i]
  BY <1>0, <1>1, <1>9
<1>3. t[Len(a) + 1] = c
  BY <1>0, <1>1, <1>9
<1>4. \A i \in 1 .. Len(b) : t[Len(a) + 1 + i] = b[i]
  <2> SUFFICES ASSUME NEW i \in 1 .. Len(b) PROVE t[Len(a) + 1 + i] = b[i]
    OBVIOUS
  <2>1. /\ Len(a) + 1 + i \in 1 .. Len(u) + Len(b)
        /\ ~(Len(a) + 1 + i <= Len(u)) /\ Len(a) + 1 + i - Len(u) = i
    BY <1>0, <1>9
  <2>. QED BY <1>1, <2>1
<1>5. \A i \in 1 .. Len(t) : t[i] \in S
  BY <1>1
<1>6. SubSeq(t, 1, Len(a)) = a
  <2>1. /\ SubSeq(t, 1, Len(a)) \in Seq(S)
        /\ Len(SubSeq(t, 1, Len(a))) = Len(a)
        /\ \A i \in 1 .. Len(a) : SubSeq(t, 1, Len(a))[i] = a[i]
    BY <1>1, <1>2, <1>5, SubSeqProperties
  <2>. QED BY <1>1, <2>1, SeqEqual
<1>7. SubSeq(t, Len(a) + 2, Len(t)) = b
  <2>1. /\ SubSeq(t, Len(a) + 2, Len(t)) \in Seq(S)
        /\ Len(SubSeq(t, Len(a) + 2, Len(t))) = Len(b)
        /\ \A i \in 1 .. Len(b) : SubSeq(t, Len(a) + 2, Len(t))[i] = b[i]
    BY <1>1, <1>4, <1>5, SubSeqProperties
  <2>. QED BY <1>1, <2>1, SeqEqual
<1>. QED BY <1>1, <1>2, <1>3, <1>4, <1>6, <1>7 DEF t

LEMMA MinMaxFacts ==
  ASSUME NEW I, I \subseteq Nat, NEW k \in I
  PROVE  /\ (\A i \in I : k <= i) => Min(I) = k
         /\ (\A i \in I : i <= k) => Max(I) = k
<1>1. ASSUME \A i \in I : k <= i PROVE Min(I) = k
  <2>1. Min(I) \in I /\ \A i \in I : Min(I) <= i
    BY <1>1 DEF Min
  <2>2. k <= Min(I) /\ Min(I) <= k /\ Min(I) \in Nat /\ k \in Nat
    BY <1>1, <2>1
  <2>. QED BY <2>2
<1>2. ASSUME \A i \in I : i <= k PROVE Max(I) = k
  <2>1. Max(I) \in I /\ \A i \in I : Max(I) >= i
    BY <1>2 DEF Max
  <2>2. k <= Max(I) /\ Max(I) <= k /\ Max(I) \in Nat /\ k \in Nat
    BY <1>2, <2>1
  <2>. QED BY <2>2
<1>. QED BY <1>1, <1>2

(* split_once finds the first separator, rsplit_once the last one.         *)
LEMMA CutFacts ==
  ASSUME NEW t, Len(t) \in Nat, NEW c, NEW k \in 1 .. Len(t), t[k] = c
  PROVE  /\ (\A i \in 1 .. k - 1 : t[i] # c)
            => SplitOnce(t, c) = <<SubSeq(t, 1, k - 1),
                                   Some(SubSeq(t, k + 1, Len(t)))>>
         /\ (\A i \in k + 1 .. Len(t) : t[i] # c)
            => SplitLast(t, c) = <<SubSeq(t, 1, k - 1),
                                   Some(SubSeq(t, k + 1, Len(t)))>>
<1> DEFINE I == {i \in 1 .. Len(t) : t[i] = c}
<1>1. ASSUME \A i \in 1 .. k - 1 : t[i] # c
      PROVE  SelectInSeq(t, LAMBDA x : x = c) = k
  <2>1. k \in I /\ \A i \in I : k <= i
    BY <1>1
  <2>2. Min(I) = k
    <3>1. I \subseteq Nat
      OBVIOUS
    <3> HIDE DEF I
    <3>. QED BY <2>1, <3>1, MinMaxFacts
  <2>. QED BY <2>1, <2>2 DEF SelectInSeq
<1>2. ASSUME \A i \in k + 1 .. Len(t) : t[i] # c
      PROVE  SelectLastInSeq(t, LAMBDA x : x = c) = k
  <2>1. k \in I /\ \A i \in I : i <= k
    BY <1>2
  <2>2. Max(I) = k
    <3>1. I \subseteq Nat
      OBVIOUS
    <3> HIDE DEF I
    <3>. QED BY <2>1, <3>1, MinMaxFacts
  <2>. QED BY <2>1, <2>2 DEF SelectLastInSeq
<1>3. k # 0
  OBVIOUS
<1>. QED BY <1>1, <1>2, <1>3 DEF SplitOnce, SplitLast, CutAt

LEMMA NoCutFacts ==
  ASSUME NEW t, NEW c, \A i \in 1 .. Len(t) : t[i] # c
  PROVE  SplitOnce(t, c) = <<t, None>> /\ SplitLast(t, c) = <<t, None>>
<1>1. {i \in 1 .. Len(t) : t[i] = c} = {}
  OBVIOUS
<1>2. /\ SelectInSeq(t, LAMBDA x : x = c) = 0
      /\ SelectLastInSeq(t, LAMBDA x : x = c) = 0
  BY <1>1 DEF SelectInSeq, SelectLastInSeq
<1>. QED BY <1>2 DEF SplitOnce, SplitLast, CutAt

LEMMA SplitTextFacts ==
  ASSUME NEW S, NEW a \in Seq(S), NEW b \in Seq(S), NEW c \in S
  PROVE  LET t == a \o <<c>> \o b
         IN  /\ Free(a, {c}) => SplitOnce(t, c) = <<a, Some(b)>>
             /\ Free(b, {c}) => SplitLast(t, c) = <<a, Some(b)>>
             /\ Free(a, {c}) => SplitOnce(a, c) = <<a, None>>
             /\ Free(a, {c}) => SplitLast(a, c) = <<a, None>>
<1> DEFINE t == a \o <<c>> \o b
<1>1. /\ Len(t) = Len(a) + 1 + Len(b) /\ t[Len(a) + 1] = c
      /\ \A i \in 1 .. Len(a) : t[i] = a[i]
      /\ \A i \in 1 .. Len(b) : t[Len(a) + 1 + i] = b[i]
      /\ SubSeq(t, 1, Len(a)) = a
      /\ SubSeq(t, Len(a) + 2, Len(t)) = b
  BY AroundFacts
<1>2. /\ Len(a) \in Nat /\ DOMAIN a = 1 .. Len(a)
      /\ Len(b) \in Nat /\ DOMAIN b = 1 .. Len(b)
  OBVIOUS
<1> HIDE DEF t
<1>3. Free(a, {c}) => \A i \in 1 .. Len(a) : a[i] # c
  BY <1>2 DEF Free
<1>4. Free(b, {c}) => \A i \in Len(a) + 2 .. Len(t) : t[i] # c
  <2> SUFFICES ASSUME Free(b, {c}), NEW i \in Len(a) + 2 .. Len(t)
               PROVE  t[i] # c
    OBVIOUS
  <2>1. i - Len(a) - 1 \in 1 .. Len(b) /\ Len(a) + 1 + (i - Len(a) - 1) = i
    BY <1>1, <1>2
  <2>2. t[i] = b[i - Len(a) - 1]
    BY <1>1, <2>1
  <2>. QED BY <1>2, <2>1, <2>2 DEF Free
<1>5. /\ Len(t) \in Nat /\ Len(a) + 1 \in 1 .. Len(t)
      /\ Len(a) + 1 - 1 = Len(a) /\ Len(a) + 1 + 1 = Len(a) + 2
  BY <1>1, <1>2
<1>6. /\ (\A i \in 1 .. Len(a) + 1 - 1 : t[i] # c)
         => SplitOnce(t, c) = <<SubSeq(t, 1, Len(a) + 1 - 1),
                                Some(SubSeq(t, Len(a) + 1 + 1, Len(t)))>>
      /\ (\A i \in Len(a) + 1 + 1 .. Len(t) : t[i] # c)
         => SplitLast(t, c) = <<SubSeq(t, 1, Len(a) + 1 - 1),
                                Some(SubSeq(t, Len(a) + 1 + 1, Len(t)))>>
  <2>1. Len(t) \in Nat /\ Len(a) + 1 \in 1 .. Len(t) /\ t[Len(a) + 1] = c
    BY <1>1, <1>5
  <2>. QED BY <2>1, CutFacts
<1>7. Free(a, {c}) => \A i \in 1 .. Len(a) : t[i] # c
  BY <1>1, <1>3
<1>8. Free(a, {c}) => SplitOnce(t, c) = <<a, Some(b)>>
  BY <1>1, <1>5, <1>6, <1>7
<1>9. Free(b, {c}) => SplitLast(t, c) = <<a, Some(b)>>
  BY <1>1, <1>4, <1>5, <1>6
<1>. QED BY <1>3, <1>8, <1>9, NoCutFacts DEF t

(* A set of positions is enumerated in its order in one way only.          *)
Enumerates(f, m, I) ==
  /\ f \in [1 .. m -> I]
  /\ \A i, j \in 1 .. m : i < j => f[i] < f[j]
  /\ \A x \in I : \E i \in 1 .. m : f[i] = x

LEMMA NotBefore ==
  ASSUME NEW m \in Nat, NEW I, I \subseteq Nat, NEW f, NEW g,
         Enumerates(f, m, I), Enumerates(g, m, I),
         NEW k \in 1 .. m, \A j \in 1 .. m : j < k => f[j] = g[j]
  PROVE  ~(f[k] < g[k])
<1> SUFFICES ASSUME f[k] < g[k] PROVE FALSE
  OBVIOUS
<1>1. f[k] \in I /\ g[k] \in I /\ f[k] \in Nat /\ g[k] \in Nat
  BY DEF Enumerates
<1>2. PICK j \in 1 .. m : g[j] = f[k]
  BY <1>1 DEF Enumerates
<1>3. CASE j < k
  <2>1. f[j] < f[k] /\ f[j] = f[k] /\ f[j] \in Nat
    BY <1>1, <1>2, <1>3 DEF Enumerates
  <2>. QED BY <2>1
<1>4. CASE j = k
  BY <1>1, <1>2, <1>4
<1>5. CASE k < j
  <2>1. g[k] < g[j]
    BY <1>5 DEF Enumerates
  <2>. QED BY <1>1, <1>2, <2>1
<1>. QED BY <1>3, <1>4, <1>5

LEMMA InOrderIs ==
  ASSUME NEW n \in Nat, NEW I \in SUBSET (1 .. n), NEW m \in Nat, NEW f,
         Enumerates(f, m, I)
  PROVE  InOrder(I) = f
<1> DEFINE g == InOrder(I)
           c == Cardinality(I)
<1>1. c \in Nat /\ Enumerates(g, c, I) /\ I \subseteq Nat
  <2>1. /\ c \in Nat /\ g \in [1 .. c -> I]
        /\ \A i, j \in 1 .. c : i < j => g[i] < g[j]
        /\ \A x \in I : \E i \in 1 .. c : g[i] = x
    BY InOrderOfPositions
  <2>. QED BY <2>1 DEF Enumerates
<1> HIDE DEF g
<1>2. c = m
  <2>1. f \in Bijection(1 .. m, I)
    <3>1. ASSUME NEW i \in 1 .. m, NEW j \in 1 .. m, i # j PROVE f[i] # f[j]
      <4>1. f[i] \in Nat /\ f[j] \in Nat
        BY <1>1 DEF Enumerates
      <4>2. i < j \/ j < i
        BY <3>1
      <4>3. f[i] < f[j] \/ f[j] < f[i]
        BY <4>2 DEF Enumerates
      <4>. QED BY <4>1, <4>3
    <3>2. f \in [1 .. m -> I] /\ \A x \in I : \E i \in 1 .. m : f[i] = x
      BY DEF Enumerates
    <3>. QED BY <3>1, <3>2 DEF Bijection, Injection, Surjection, IsInjective
  <2>2. IsFiniteSet(1 .. m) /\ Cardinality(1 .. m) = m
    BY FS_Interval
  <2>. QED BY <2>1, <2>2, FS_Bijection DEF ExistsBijection
<1> HIDE DEF c
<1>3. \A k \in 1 .. m : f[k] = g[k]
  <2> DEFINE D == {k \in 1 .. m : f[k] # g[k]}
  <2> SUFFICES ASSUME D # {} PROVE FALSE
    OBVIOUS
  <2>1. PICK k \in D : \A j \in D : k <= j
    BY LeastPosition
  <2>2. \A j \in 1 .. m : j < k => f[j] = g[j]
    BY <2>1
  <2>3. ~(f[k] < g[k]) /\ ~(g[k] < f[k])
    BY <1>1, <1>2, <2>2, NotBefore
  <2>4. f[k] \in Nat /\ g[k] \in Nat
    BY <1>1, <1>2 DEF Enumerates
  <2>. QED BY <2>1, <2>3, <2>4
<1>4. f \in [1 .. m -> I] /\ g \in [1 .. m -> I]
  BY <1>1, <1>2 DEF Enumerates
<1>. QED BY <1>3, <1>4 DEF g

LEMMA FunctionIsSeq ==
  ASSUME NEW S, NEW n \in Nat, NEW f \in [1 .. n -> S]
  PROVE  f \in Seq(S) /\ Len(f) = n
OBVIOUS

LEMMA FramedFacts ==
  ASSUME NEW m \in Nat, NEW f \in [1 .. m -> Nat], NEW x \in Nat, NEW z \in Nat
  PROVE  LET s == <<x>> \o f \o <<z>>
         IN  /\ s[1] = x /\ s[m + 2] = z
             /\ \A k \in 1 .. m : s[k + 1] = f[k]
<1> DEFINE u == <<x>> \o f
           s == u \o <<z>>
<1>1. f \in Seq(Nat) /\ Len(f) = m
  BY FunctionIsSeq
<1>2. /\ <<x>> \in Seq(Nat) /\ Len(<<x>>) = 1 /\ <<x>>[1] = x
      /\ <<z>> \in Seq(Nat) /\ Len(<<z>>) = 1 /\ <<z>>[1] = z
  BY OneToken
<1>3. /\ u \in Seq(Nat) /\ Len(u) = 1 + m
      /\ \A i \in 1 .. 1 + m : u[i] = IF i <= 1 THEN <<x>>[i] ELSE f[i - 1]
  <2>1. /\ u \in Seq(Nat) /\ Len(u) = Len(<<x>>) + Len(f)
        /\ \A i \in 1 .. Len(<<x>>) + Len(f) :
             u[i] = IF i <= Len(<<x>>) THEN <<x>>[i] ELSE f[i - Len(<<x>>)]
    BY <1>1, <1>2, ConcatProperties
  <2>. QED BY <1>1, <1>2, <2>1
<1> HIDE DEF u
<1>4. \A i \in 1 .. m + 2 : s[i] = IF i <= 1 + m THEN u[i] ELSE <<z>>[i - (1 + m)]
  <2>1. \A i \in 1 .. Len(u) + Len(<<z>>) :
          s[i] = IF i <= Len(u) THEN u[i] ELSE <<z>>[i - Len(u)]
    BY <1>2, <1>3, ConcatProperties
  <2>. QED BY <1>2, <1>3, <2>1
<1> HIDE DEF s
<1>5. s[1] = x
  <2>1. 1 \in 1 .. m + 2 /\ 1 <= 1 + m /\ 1 \in 1 .. 1 + m /\ 1 <= 1
    OBVIOUS
  <2>2. s[1] = u[1] /\ u[1] = <<x>>[1]
    BY <1>3, <1>4, <2>1
  <2>. QED BY <1>2, <2>2
<1>6. s[m + 2] = z
  <2>1. m + 2 \in 1 .. m + 2 /\ ~(m + 2 <= 1 + m) /\ m + 2 - (1 + m) = 1
    OBVIOUS
  <2>. QED BY <1>2, <1>4, <2>1
<1>7. ASSUME NEW k \in 1 .. m PROVE s[k + 1] = f[k]
  <2>1. /\ k + 1 \in 1 .. m + 2 /\ k + 1 \in 1 .. 1 + m /\ k + 1 <= 1 + m
        /\ ~(k + 1 <= 1) /\ k + 1 - 1 = k
    OBVIOUS
  <2>2. s[k + 1] = u[k + 1]
    BY <1>4, <2>1
  <2>. QED BY <1>3, <2>1, <2>2
<1>. QED BY <1>5, <1>6, <1>7 DEF s, u

LEMMA WithinFacts ==
  ASSUME NEW L \in Nat, NEW x \in 1 .. L, NEW e \in 0 .. L + 1,
         NEW g \in 0 .. L + 1, e < x, x < g
  PROVE  /\ e + 1 \in Int /\ g - 1 \in Int /\ e + 1 >= 1 /\ g - 1 <= L
         /\ e + 1 <= g - 1 /\ x - (e + 1) + 1 \in 1 .. (g - 1) - (e + 1) + 1
         /\ (e + 1) + (x - (e + 1) + 1) - 1 = x
OBVIOUS

(* split gives the parts a text was joined from.                           *)
LEMMA SplitJoined ==
  ASSUME NEW S, NEW t \in Seq(S), NEW c,
         NEW n \in Nat \ {0}, NEW parts, Len(parts) = n,
         parts = [k \in 1 .. n |-> parts[k]],
         \A k \in 1 .. n : Free(parts[k], {c}), Joined(t, parts, c)
  PROVE  Split(t, c) = parts
<1> DEFINE L == Len(t)
           I == {i \in DOMAIN t : t[i] = c}
<1>0. L \in Nat /\ DOMAIN t = 1 .. L /\ \A i \in 1 .. L : t[i] \in S
  OBVIOUS
<1>1. PICK ends \in [0 .. n -> 0 .. L + 1] :
        /\ ends[0] = 0 /\ ends[n] = L + 1
        /\ \A j, k \in 0 .. n : j < k => ends[j] < ends[k]
        /\ \A k \in 1 .. n :
             SubSeq(t, ends[k - 1] + 1, ends[k] - 1) = parts[k]
        /\ \A k \in 1 .. n - 1 : t[ends[k]] = c
  BY DEF Joined
<1> DEFINE f == [k \in 1 .. n - 1 |-> ends[k]]
<1>2. \A k \in 1 .. n - 1 : ends[k] \in 1 .. L
  <2> SUFFICES ASSUME NEW k \in 1 .. n - 1 PROVE ends[k] \in 1 .. L
    OBVIOUS
  <2>1. 0 \in 0 .. n /\ k \in 0 .. n /\ n \in 0 .. n /\ 0 < k /\ k < n
    OBVIOUS
  <2>2. ends[0] < ends[k] /\ ends[k] < ends[n] /\ ends[k] \in 0 .. L + 1
    BY <1>1, <2>1
  <2>. QED BY <1>0, <1>1, <2>2
<1>3. Enumerates(f, n - 1, I)
  <2>1. f \in [1 .. n - 1 -> I]
    BY <1>0, <1>1, <1>2
  <2>2. \A i, j \in 1 .. n - 1 : i < j => f[i] < f[j]
    BY <1>1
  <2>3. ASSUME NEW x \in I PROVE \E i \in 1 .. n - 1 : f[i] = x
    <3> DEFINE K == {k \in 1 .. n : x <= ends[k]}
    <3>0. x \in 1 .. L /\ t[x] = c
      BY <1>0
    <3>1. n \in K
      BY <1>0, <1>1, <3>0
    <3>2. PICK k \in K : \A j \in K : k <= j
      BY <3>1, LeastPosition
    <3>3. /\ k \in 1 .. n /\ k - 1 \in 0 .. n /\ k \in 0 .. n
          /\ ends[k] \in 0 .. L + 1 /\ ends[k - 1] \in 0 .. L + 1
      BY <1>1
    <3>4. ends[k - 1] < x
      <4>1. CASE k = 1
        BY <1>1, <3>0, <4>1
      <4>2. CASE k # 1
        <5>1. k - 1 \in 1 .. n /\ k - 1 \notin K
          BY <3>2, <3>3, <4>2
        <5>. QED BY <1>0, <3>0, <3>3, <5>1
      <4>. QED BY <4>1, <4>2
    <3>5. ~(x < ends[k])
      <4> SUFFICES ASSUME x < ends[k] PROVE FALSE
        OBVIOUS
      <4> DEFINE p == ends[k - 1] + 1
                 q == ends[k] - 1
                 y == x - p + 1
      <4>1. /\ p \in Int /\ q \in Int /\ p >= 1 /\ q <= L /\ p <= q
            /\ y \in 1 .. q - p + 1 /\ p + y - 1 = x
        BY <1>0, <3>0, <3>3, <3>4, WithinFacts
      <4> HIDE DEF p, q, y
      <4>2. \A i \in p .. q : t[i] \in S
        BY <1>0, <4>1
      <4>3. /\ SubSeq(t, p, q) \in Seq(S) /\ Len(SubSeq(t, p, q)) = q - p + 1
            /\ SubSeq(t, p, q)[y] = t[p + y - 1]
        BY <4>1, <4>2, SubSeqProperties
      <4>4. y \in DOMAIN SubSeq(t, p, q)
        BY <4>1, <4>3
      <4>5. SubSeq(t, p, q) = parts[k]
        BY <1>1, <3>3 DEF p, q
      <4>6. y \in DOMAIN parts[k] /\ parts[k][y] = c
        BY <3>0, <4>1, <4>3, <4>4, <4>5
      <4>. QED BY <3>3, <4>6 DEF Free
    <3>6. ends[k] = x
      BY <1>0, <3>0, <3>2, <3>3, <3>5
    <3>7. k # n
      BY <1>0, <1>1, <3>0, <3>6
    <3>. QED BY <3>3, <3>6, <3>7
  <2>. QED BY <2>1, <2>2, <2>3 DEF Enumerates
<1>4. InOrder(I) = f
  <2>1. I \in SUBSET (1 .. L) /\ n - 1 \in Nat
    BY <1>0
  <2> HIDE DEF I, f, L
  <2>. QED BY <1>0, <1>3, <2>1, InOrderIs
<1> DEFINE all3 == <<0>> \o f \o <<L + 1>>
<1>5. \A k \in 1 .. n + 1 : all3[k] = ends[k - 1]
  <2>1. f \in [1 .. n - 1 -> Nat] /\ n - 1 \in Nat /\ L + 1 \in Nat /\ 0 \in Nat
    BY <1>0, <1>2
  <2>2. \A k \in 1 .. n - 1 : f[k] = ends[k]
    OBVIOUS
  <2> HIDE DEF f, L
  <2>3. /\ all3[1] = 0 /\ all3[n - 1 + 2] = L + 1
        /\ \A k \in 1 .. n - 1 : all3[k + 1] = f[k]
    BY <2>1, FramedFacts
  <2> HIDE DEF all3
  <2> SUFFICES ASSUME NEW k \in 1 .. n + 1 PROVE all3[k] = ends[k - 1]
    OBVIOUS
  <2>7. CASE k = 1
    BY <1>1, <2>3, <2>7
  <2>8. CASE k \in 2 .. n
    <3>1. k - 1 \in 1 .. n - 1 /\ k - 1 + 1 = k
      BY <2>8
    <3>2. all3[k] = f[k - 1]
      BY <2>3, <3>1
    <3>. QED BY <2>2, <3>1, <3>2
  <2>9. CASE k = n + 1
    <3>1. n - 1 + 2 = k /\ k - 1 = n
      BY <2>9
    <3>. QED BY <1>1, <2>3, <3>1
  <2>. QED BY <2>7, <2>8, <2>9
<1>6. Len(f) = n - 1
  OBVIOUS
<1>7. Split(t, c) = [k \in 1 .. n - 1 + 1 |->
                      SubSeq(t, all3[k] + 1, all3[k + 1] - 1)]
  BY <1>4, <1>6 DEF Split
<1> HIDE DEF all3, I, f
<1>8. \A k \in 1 .. n :
        SubSeq(t, all3[k] + 1, all3[k + 1] - 1) = parts[k]
  <2> SUFFICES ASSUME NEW k \in 1 .. n
               PROVE  SubSeq(t, all3[k] + 1, all3[k + 1] - 1) = parts[k]
    OBVIOUS
  <2>1. k \in 1 .. n + 1 /\ k + 1 \in 1 .. n + 1 /\ k + 1 - 1 = k
    OBVIOUS
  <2>2. all3[k] = ends[k - 1] /\ all3[k + 1] = ends[k]
    BY <1>5, <2>1
  <2>. QED BY <1>1, <2>2
<1>9. n - 1 + 1 = n
  OBVIOUS
<1>. QED BY <1>7, <1>8, <1>9

LEMMA JoinedShort ==
  ASSUME NEW S, NEW a \in Seq(S), NEW b \in Seq(S), NEW c \in S
  PROVE  /\ Joined(a, <<a>>, c)
         /\ Joined(a \o <<c>> \o b, <<a, b>>, c)
<1>0. Len(a) \in Nat /\ Len(b) \in Nat
  OBVIOUS
<1>1. Joined(a, <<a>>, c)
  <2> DEFINE p == <<a>>
             ends == [k \in 0 .. 1 |-> IF k = 0 THEN 0 ELSE Len(a) + 1]
  <2>1. ends \in [0 .. 1 -> 0 .. Len(a) + 1]
    BY <1>0
  <2>2. ends[0] = 0 /\ ends[1] = Len(a) + 1
    OBVIOUS
  <2>3. \A j, k \in 0 .. 1 : j < k => ends[j] < ends[k]
    BY <1>0
  <2>4. \A k \in 1 .. 1 :
          SubSeq(a, ends[k - 1] + 1, ends[k] - 1) = p[k]
    <3>1. ends[1 - 1] + 1 = 1 /\ ends[1] - 1 = Len(a)
      BY <1>0
    <3>2. SubSeq(a, 1, Len(a)) = a
      BY SubSeqFull
    <3> HIDE DEF ends
    <3>. QED BY <3>1, <3>2
  <2>5. Len(p) = 1 /\ \A k \in 1 .. 1 - 1 : a[ends[k]] = c
    OBVIOUS
  <2> HIDE DEF ends, p
  <2>6. Joined(a, p, c)
    BY <2>1, <2>2, <2>3, <2>4, <2>5 DEF Joined
  <2>. QED BY <2>6 DEF p
<1>2. Joined(a \o <<c>> \o b, <<a, b>>, c)
  <2> DEFINE t == a \o <<c>> \o b
             p == <<a, b>>
             ends == [k \in 0 .. 2 |-> IF k = 0 THEN 0
                                       ELSE IF k = 1 THEN Len(a) + 1
                                       ELSE Len(t) + 1]
  <2>1. /\ Len(t) = Len(a) + 1 + Len(b) /\ t[Len(a) + 1] = c
        /\ SubSeq(t, 1, Len(a)) = a
        /\ SubSeq(t, Len(a) + 2, Len(t)) = b
    BY AroundFacts
  <2> HIDE DEF t
  <2>2. ends \in [0 .. 2 -> 0 .. Len(t) + 1]
    BY <1>0, <2>1
  <2>3. ends[0] = 0 /\ ends[1] = Len(a) + 1 /\ ends[2] = Len(t) + 1
    OBVIOUS
  <2> HIDE DEF ends
  <2>4. \A j, k \in 0 .. 2 : j < k => ends[j] < ends[k]
    <3> SUFFICES ASSUME NEW j \in 0 .. 2, NEW k \in 0 .. 2, j < k
                 PROVE  ends[j] < ends[k]
      OBVIOUS
    <3>1. (j = 0 \/ j = 1) /\ (k = 1 \/ k = 2) /\ (j = 1 => k = 2)
      BY SMT
    <3>. QED BY <1>0, <2>1, <2>3, <3>1
  <2>5. p[1] = a /\ p[2] = b /\ Len(p) = 2
    OBVIOUS
  <2> HIDE DEF p
  <2>6. \A k \in 1 .. 2 :
          SubSeq(t, ends[k - 1] + 1, ends[k] - 1) = p[k]
    <3> SUFFICES ASSUME NEW k \in 1 .. 2
                 PROVE  SubSeq(t, ends[k - 1] + 1, ends[k] - 1) = p[k]
      OBVIOUS
    <3>1. CASE k = 1
      <4>1. ends[k - 1] + 1 = 1 /\ ends[k] - 1 = Len(a)
        BY <1>0, <2>3, <3>1
      <4>. QED BY <2>1, <2>5, <3>1, <4>1
    <3>2. CASE k = 2
      <4>1. ends[k - 1] + 1 = Len(a) + 2 /\ ends[k] - 1 = Len(t)
        BY <1>0, <2>1, <2>3, <3>2
      <4>. QED BY <2>1, <2>5, <3>2, <4>1
    <3>. QED BY <3>1, <3>2
  <2>7. \A k \in 1 .. 2 - 1 : t[ends[k]] = c
    BY <2>1, <2>3
  <2>8. Joined(t, p, c)
    BY <2>2, <2>3, <2>4, <2>5, <2>6, <2>7 DEF Joined
  <2>. QED BY <2>8 DEF t, p
<1>. QED BY <1>1, <1>2

LEMMA SplitShort ==
  ASSUME NEW S, NEW a \in Seq(S), NEW b \in Seq(S), NEW c \in S, Free(a, {c})
  PROVE  /\ Split(a, c) = <<a>>
         /\ Free(b, {c}) => Split(a \o <<c>> \o b, c) = <<a, b>>
<1>1. Split(a, c) = <<a>>
  <2> DEFINE p == <<a>>
             n == 1
  <2>1. /\ n \in Nat \ {0} /\ Len(p) = n /\ p = [k \in 1 .. n |-> p[k]]
        /\ \A k \in 1 .. n : Free(p[k], {c})
    OBVIOUS
  <2>2. Joined(a, p, c)
    BY JoinedShort
  <2> HIDE DEF p, n
  <2>3. Split(a, c) = p
    BY <2>1, <2>2, SplitJoined
  <2>. QED BY <2>3 DEF p
<1>2. ASSUME Free(b, {c}) PROVE Split(a \o <<c>> \o b, c) = <<a, b>>
  <2> DEFINE p == <<a, b>>
             t == a \o <<c>> \o b
             n == 2
  <2>1. /\ n \in Nat \ {0} /\ Len(p) = n /\ p = [k \in 1 .. n |-> p[k]]
        /\ \A k \in 1 .. n : Free(p[k], {c})
    BY <1>2
  <2>2. Joined(t, p, c) /\ t \in Seq(S)
    BY JoinedShort, AroundFacts
  <2> HIDE DEF p, t, n
  <2>3. Split(t, c) = p
    BY <2>1, <2>2, SplitJoined
  <2>. QED BY <2>3 DEF p, t
<1>. QED BY <1>1, <1>2

-----------------------------------------------------------------------------
(* The parts of a written node.                                            *)

(* The tokens of a text; the separators are named because the provers do   *)
(* not know that a string is a member of STRING.                           *)
Tokens == STRING \cup {"@", ":", "/", "?", "#", "&", "=", "[", "]", ";",
                       "obfs-local", "obfs"}

LEMMA TextTokens == \A t \in Text : t \in Seq(Tokens)
<1>1. STRING \subseteq Tokens
  BY DEF Tokens
<1> HIDE DEF Tokens
<1> DEFINE S == STRING
<1> HIDE DEF S
<1>2. \A t \in Seq(S) : S \subseteq Tokens => t \in Seq(Tokens)
  BY SeqMonotonic
<1>. QED BY <1>1, <1>2 DEF Text, S

LEMMA OptionFacts ==
  \A o \in OptionText : IsSome(o) => o = Some(o[1]) /\ o[1] \in Seq(Tokens)
<1> SUFFICES ASSUME NEW o \in OptionText, IsSome(o)
             PROVE  o = Some(o[1]) /\ o[1] \in Seq(Tokens)
  OBVIOUS
<1>1. o \in Seq(Text) /\ Len(o) <= 1 /\ o # <<>>
  BY DEF OptionText, IsSome, None
<1>3. ASSUME NEW S, NEW p \in Seq(S), Len(p) <= 1, p # <<>>
      PROVE  p = <<p[1]>> /\ p[1] \in S
  <2>1. Len(p) \in Nat \ {0}
    BY <1>3
  <2>2. Len(p) = 1
    BY <1>3, <2>1
  <2>3. p[1] \in S
    BY <1>3, <2>2
  <2>4. p = <<p[1]>>
    BY <1>3, <2>2
  <2>. QED BY <2>3, <2>4
<1>2. o = <<o[1]>> /\ o[1] \in Text
  BY <1>1, <1>3
<1>. QED BY <1>2, TextTokens DEF Some

LEMMA TokenFacts ==
  /\ "@" \in Tokens /\ ":" \in Tokens /\ "/" \in Tokens /\ "?" \in Tokens
  /\ "#" \in Tokens /\ "&" \in Tokens /\ "=" \in Tokens /\ "[" \in Tokens
  /\ "]" \in Tokens
  /\ <<>> \in Seq(Tokens)
<1>1. /\ "@" \in Tokens /\ ":" \in Tokens /\ "/" \in Tokens /\ "?" \in Tokens
      /\ "#" \in Tokens /\ "&" \in Tokens /\ "=" \in Tokens /\ "[" \in Tokens
      /\ "]" \in Tokens
  BY DEF Tokens
<1>2. <<>> \in Seq(Tokens)
  OBVIOUS
<1>. QED BY <1>1, <1>2

LEMMA PartFacts ==
  ASSUME NEW p, p.key \in Tokens, p.key \notin {"=", "&"},
         IsSome(p.value) => /\ p.value = Some(p.value[1])
                            /\ p.value[1] \in Seq(Tokens)
                            /\ Free(p.value[1], {"&"})
  PROVE  /\ SplitOnce(Part(p), "=") = <<<<p.key>>, p.value>>
         /\ Free(Part(p), {"&"})
<1> DEFINE a == <<p.key>>
           v == p.value[1]
<1>1. /\ a \in Seq(Tokens) /\ Len(a) = 1 /\ a[1] = p.key
      /\ "=" \in Tokens /\ <<"=">> \in Seq(Tokens) /\ <<>> \in Seq(Tokens)
  BY OneToken, TokenFacts
<1>2. Free(a, {"="}) /\ Free(a, {"&"})
  BY <1>1 DEF Free
<1>3. CASE IsSome(p.value)
  <2>1. v \in Seq(Tokens) /\ p.value = Some(v) /\ Free(v, {"&"})
    BY <1>3
  <2>2. Part(p) = a \o <<"=">> \o v
    <3>1. Part(p) = a \o (<<"=">> \o v)
      BY <1>3 DEF Part
    <3>. QED BY <1>1, <2>1, <3>1, ConcatAssociative
  <2> HIDE DEF a, v
  <2>3. SplitOnce(Part(p), "=") = <<a, Some(v)>>
    BY <1>1, <1>2, <2>1, <2>2, SplitTextFacts
  <2>4. Free(Part(p), {"&"})
    <3>1. /\ Part(p) \in Seq(Tokens)
          /\ Len(Part(p)) = Len(a) + 1 + Len(v) /\ Part(p)[Len(a) + 1] = "="
          /\ \A i \in 1 .. Len(a) : Part(p)[i] = a[i]
          /\ \A i \in 1 .. Len(v) : Part(p)[Len(a) + 1 + i] = v[i]
      BY <1>1, <2>1, <2>2, AroundFacts
    <3> SUFFICES ASSUME NEW i \in DOMAIN Part(p) PROVE Part(p)[i] # "&"
      BY DEF Free
    <3>2. \/ i = 1 \/ i = 2
          \/ i - 2 \in 1 .. Len(v) /\ i = Len(a) + 1 + (i - 2)
      BY <1>1, <2>1, <3>1
    <3>3. i - 2 \in 1 .. Len(v) => v[i - 2] # "&"
      BY <2>1 DEF Free
    <3>4. a[1] # "&" /\ "=" # "&"
      BY <1>1
    <3>. QED BY <1>1, <3>1, <3>2, <3>3, <3>4
  <2>. QED BY <2>1, <2>3, <2>4 DEF a
<1>4. CASE ~IsSome(p.value)
  <2>1. Part(p) = a /\ p.value = None
    BY <1>1, <1>4, ConcatEmptySeq DEF Part, IsSome
  <2> HIDE DEF a
  <2>2. SplitOnce(a, "=") = <<a, None>>
    BY <1>1, <1>2, SplitTextFacts
  <2>. QED BY <1>2, <2>1, <2>2 DEF a
<1>. QED BY <1>3, <1>4

(* The last of the parameters with a key is the one both sides mean.       *)
LEMMA LatestFacts ==
  ASSUME NEW n \in Nat, NEW I \in SUBSET (1 .. n), NEW K, NEW k,
         NEW i \in I, K[i] = k
  PROVE  \E j \in I : K[j] = k /\ \A m \in I : K[m] = k => m <= j
<1> DEFINE J == {j \in I : K[j] = k}
           Back == {n + 1 - j : j \in J}
<1>1. Back \in SUBSET (1 .. n) /\ Back # {}
  OBVIOUS
<1>2. PICK b \in Back : \A x \in Back : b <= x
  BY <1>1, LeastPosition
<1>3. PICK j \in J : b = n + 1 - j
  OBVIOUS
<1>4. ASSUME NEW m \in J PROVE m <= j
  <2>1. n + 1 - j <= n + 1 - m
    BY <1>2, <1>3
  <2>. QED BY <2>1
<1>. QED BY <1>3, <1>4

LEMMA ParametersFacts ==
  ASSUME NEW n, UrlParts(n)
  PROVE  /\ n.params # <<>> => Query(Some(n.query)) = Params(n)
         /\ n.params = <<>> => Query(None) = Params(n) /\
              Query(Some(<<>>)) = Params(n)
<1> DEFINE P == n.params
           N == Len(P)
           pair == [i \in DOMAIN P |-> <<KeyAt(n, i), ValueAt(n, i)>>]
<1>1. /\ P \in Seq([key : STRING \ {"=", "&", " ", ""}, value : OptionText])
      /\ n.query \in Seq(Tokens)
      /\ \A i \in DOMAIN P : IsSome(P[i].value) => Free(P[i].value[1], {"&"})
      /\ P # <<>> =>
           Joined(n.query, [i \in DOMAIN P |-> Part(P[i])], "&")
  <2>1. n.query \in Seq(Tokens)
    BY TextTokens DEF UrlParts
  <2>. QED BY <2>1 DEF UrlParts
<1>2. /\ N \in Nat /\ DOMAIN P = 1 .. N /\ (P # <<>> => N # 0)
      /\ \A i \in 1 .. N : P[i] \in
           [key : STRING \ {"=", "&", " ", ""}, value : OptionText]
  <2> DEFINE R == [key : STRING \ {"=", "&", " ", ""}, value : OptionText]
  <2>1. P \in Seq(R)
    BY <1>1
  <2> HIDE DEF R, P
  <2>2. /\ N \in Nat /\ DOMAIN P = 1 .. N /\ (P # <<>> => N # 0)
        /\ \A i \in 1 .. N : P[i] \in R
    BY <2>1
  <2>. QED BY <2>2 DEF R
<1>3. \A i \in 1 .. N : /\ P[i].key \in Tokens /\ P[i].key \notin {"=", "&"}
                        /\ P[i].value \in OptionText
  BY <1>2 DEF Tokens
<1> HIDE DEF P
<1>4. \A i \in 1 .. N : /\ SplitOnce(Part(P[i]), "=") = <<<<P[i].key>>, P[i].value>>
                        /\ Free(Part(P[i]), {"&"})
  BY <1>1, <1>2, <1>3, OptionFacts, PartFacts
<1> HIDE DEF N
<1> DEFINE parts == [i \in DOMAIN P |-> Part(P[i])]
<1>5. Params(n) = Inserted(pair, DOMAIN P)
  <2> DEFINE Latest(k) == CHOOSE i \in DOMAIN P :
                            /\ pair[i][1] = k
                            /\ \A j \in DOMAIN P : pair[j][1] = k => j <= i
             Final(k) == CHOOSE i \in DOMAIN P :
                          /\ KeyAt(n, i) = k
                          /\ \A j \in DOMAIN P : KeyAt(n, j) = k => j <= i
             Keys == [i \in DOMAIN P |-> KeyAt(n, i)]
  <2>1. ASSUME NEW i \in DOMAIN P
        PROVE  Final(KeyAt(n, i)) = Latest(KeyAt(n, i)) /\ Final(KeyAt(n,
                 i)) \in DOMAIN P
    <3> DEFINE k == KeyAt(n, i)
    <3>1. \A j \in DOMAIN P : Keys[j] = KeyAt(n, j) /\ pair[j][1] = Keys[j]
      OBVIOUS
    <3> HIDE DEF k, pair, Keys
    <3>2. \E j \in DOMAIN P : Keys[j] = k /\
            \A m \in DOMAIN P : Keys[m] = k => m <= j
      <4>1. N \in Nat /\ DOMAIN P \in SUBSET (1 .. N) /\ Keys[i] = k
        BY <1>2, <2>1, <3>1 DEF k
      <4>. QED BY <2>1, <4>1, LatestFacts
    <3>3. /\ Latest(k) \in DOMAIN P /\ Keys[Latest(k)] = k
          /\ \A j \in DOMAIN P : Keys[j] = k => j <= Latest(k)
      BY <3>1, <3>2
    <3>4. /\ Final(k) \in DOMAIN P /\ Keys[Final(k)] = k
          /\ \A j \in DOMAIN P : Keys[j] = k => j <= Final(k)
      BY <3>1, <3>2
    <3> HIDE DEF Latest, Final
    <3>5. Final(k) <= Latest(k) /\ Latest(k) <= Final(k)
      BY <3>3, <3>4
    <3>6. Final(k) \in Nat /\ Latest(k) \in Nat
      <4>1. \A j \in DOMAIN P : j \in Nat
        <5>1. N \in Nat /\ DOMAIN P = 1 .. N
          BY <1>2
        <5>2. \A j \in 1 .. N : j \in Nat
          BY <5>1
        <5>. QED BY <5>1, <5>2
      <4>. QED BY <3>3, <3>4, <4>1
    <3>. QED BY <3>4, <3>5, <3>6 DEF k
  <2>2. Params(n) = [k \in {KeyAt(n, i) : i \in DOMAIN P} |-> ValueAt(n, Final(k))]
    BY DEF Params, P
  <2>3. Inserted(pair, DOMAIN P) =
          [k \in {pair[i][1] : i \in DOMAIN P} |-> pair[Latest(k)][2]]
    BY DEF Inserted
  <2>4. {pair[i][1] : i \in DOMAIN P} = {KeyAt(n, i) : i \in DOMAIN P}
    OBVIOUS
  <2>5. \A i \in DOMAIN P : pair[i][2] = ValueAt(n, i)
    OBVIOUS
  <2> HIDE DEF Final, Latest, pair
  <2>6. \A k \in {KeyAt(n, i) : i \in DOMAIN P} :
          pair[Latest(k)][2] = ValueAt(n, Final(k))
    BY <2>1, <2>5
  <2>. QED BY <2>2, <2>3, <2>4, <2>6
<1>6. ASSUME P # <<>> PROVE Query(Some(n.query)) = Params(n)
  <2>1. Split(n.query, "&") = parts
    <3>1. N \in Nat \ {0}
      BY <1>2, <1>6
    <3>2. Joined(n.query, parts, "&")
      BY <1>1, <1>6
    <3>3. parts = [i \in 1 .. N |-> parts[i]]
      BY <1>2
    <3>4. Len(parts) = N
      BY <1>2, <3>3, CountedIsSequence
    <3>5. \A i \in 1 .. N : Free(parts[i], {"&"})
      BY <1>2, <1>4
    <3> HIDE DEF parts
    <3>. QED BY <1>1, <3>1, <3>2, <3>3, <3>4, <3>5, SplitJoined
  <2> DEFINE kv == [i \in DOMAIN parts |-> SplitOnce(parts[i], "=")]
             es == [i \in DOMAIN kv |->
                      <<Key(kv[i][1]), IF IsSome(kv[i][2])
                                       THEN Some(Decoded(kv[i][2][1])) ELSE None>>]
             I == {i \in DOMAIN kv : kv[i][1] # <<>>}
  <2>2. Query(Some(n.query)) = Inserted(es, I)
    <3>1. IsSome(Some(n.query)) /\ Some(n.query)[1] = n.query
      BY SomeFacts
    <3>. QED BY <2>1, <3>1 DEF Query
  <2>3. \A i \in DOMAIN P : kv[i] = <<<<P[i].key>>, P[i].value>>
    BY <1>2, <1>4
  <2>4. es = pair /\ I = DOMAIN P
    <3>1. DOMAIN kv = DOMAIN P
      OBVIOUS
    <3>2. \A i \in DOMAIN P : kv[i][1] = <<P[i].key>> /\ kv[i][2] = P[i].value
      BY <2>3
    <3> HIDE DEF kv
    <3>3. ASSUME NEW i \in DOMAIN P PROVE es[i] = pair[i]
      <4>1. es[i] = <<Key(<<P[i].key>>), IF IsSome(P[i].value)
                                         THEN Some(Decoded(P[i].value[1])) ELSE None>>
        BY <3>1, <3>2, <3>3
      <4>. QED BY <3>3, <4>1 DEF KeyAt, ValueAt, P
    <3>4. I = DOMAIN P
      <4>1. \A i \in DOMAIN P : <<P[i].key>> # <<>>
        OBVIOUS
      <4>. QED BY <3>1, <3>2, <4>1
    <3>. QED BY <3>1, <3>3, <3>4
  <2> HIDE DEF es, I, pair
  <2>. QED BY <1>5, <2>2, <2>4
<1>7. ASSUME P = <<>> PROVE Query(None) = Params(n) /\ Query(Some(<<>>)) = Params(n)
  <2>1. DOMAIN P = {}
    BY <1>7
  <2>2. \A es, I : I = {} => Inserted(es, I) = [k \in {} |-> k]
    BY DEF Inserted
  <2>3. Params(n) = [k \in {} |-> k]
    BY <1>5, <2>1, <2>2
  <2>4. Query(None) = [k \in {} |-> k]
    <3>1. ~IsSome(None)
      BY DEF IsSome
    <3>. QED BY <2>2, <3>1 DEF Query
  <2>5. Query(Some(<<>>)) = [k \in {} |-> k]
    <3> DEFINE e == <<>>
    <3>1. e \in Seq(Tokens) /\ Free(e, {"&"}) /\ Free(e, {"="})
          /\ "&" \in Tokens /\ "=" \in Tokens
      <4>1. DOMAIN e = {}
        OBVIOUS
      <4>2. Free(e, {"&"}) /\ Free(e, {"="})
        BY <4>1 DEF Free
      <4>. QED BY <4>2, TokenFacts
    <3>2. DOMAIN <<e>> = {1} /\ <<e>>[1] = e
      OBVIOUS
    <3> HIDE DEF e
    <3>3. Split(e, "&") = <<e>> /\ SplitOnce(e, "=") = <<e, None>>
      BY <3>1, SplitShort, SplitTextFacts
    <3>4. IsSome(Some(e)) /\ Some(e)[1] = e
      BY SomeFacts
    <3> DEFINE kv == [i \in DOMAIN Split(e, "&") |-> SplitOnce(Split(e,
                 "&")[i], "=")]
    <3>5. {i \in DOMAIN kv : kv[i][1] # <<>>} = {}
      BY <3>2, <3>3 DEF e
    <3>6. \E es : Query(Some(e)) = Inserted(es, {i \in DOMAIN kv : kv[i][1] # <<>>})
      BY <3>4 DEF Query
    <3>. QED BY <2>2, <3>5, <3>6 DEF e
  <2>. QED BY <2>3, <2>4, <2>5
<1>. QED BY <1>6, <1>7 DEF P

-----------------------------------------------------------------------------
(* The line of a written node, taken apart.                                *)

LEMMA FreeFacts ==
  /\ \A x, C : x \notin C => Free(<<x>>, C)
  /\ \A C : Free(<<>>, C)
  /\ \A S : \A a, b \in Seq(S) : \A C :
       Free(a \o b, C) <=> Free(a, C) /\ Free(b, C)
<1>1. \A x, C : x \notin C => Free(<<x>>, C)
  BY DEF Free
<1>2. \A C : Free(<<>>, C)
  BY DEF Free
<1>3. ASSUME NEW S, NEW a \in Seq(S), NEW b \in Seq(S), NEW C
      PROVE  Free(a \o b, C) <=> Free(a, C) /\ Free(b, C)
  <2> DEFINE t == a \o b
  <2>1. /\ Len(a) \in Nat /\ DOMAIN a = 1 .. Len(a)
        /\ Len(b) \in Nat /\ DOMAIN b = 1 .. Len(b)
    OBVIOUS
  <2>2. /\ t \in Seq(S) /\ Len(t) = Len(a) + Len(b)
        /\ \A i \in 1 .. Len(a) + Len(b) :
             t[i] = IF i <= Len(a) THEN a[i] ELSE b[i - Len(a)]
    BY ConcatProperties
  <2>3. DOMAIN t = 1 .. Len(a) + Len(b)
    BY <2>1, <2>2
  <2> HIDE DEF t
  <2>4. ASSUME Free(t, C) PROVE Free(a, C) /\ Free(b, C)
    <3>1. ASSUME NEW i \in 1 .. Len(a) PROVE a[i] \notin C
      <4>1. i \in 1 .. Len(a) + Len(b) /\ t[i] = a[i]
        BY <2>1, <2>2
      <4>. QED BY <2>3, <2>4, <4>1 DEF Free
    <3>2. ASSUME NEW i \in 1 .. Len(b) PROVE b[i] \notin C
      <4>1. /\ Len(a) + i \in 1 .. Len(a) + Len(b) /\ ~(Len(a) + i <= Len(a))
            /\ Len(a) + i - Len(a) = i
        BY <2>1
      <4>2. t[Len(a) + i] = b[i]
        BY <2>2, <4>1
      <4>. QED BY <2>3, <2>4, <4>1, <4>2 DEF Free
    <3>. QED BY <2>1, <3>1, <3>2 DEF Free
  <2>5. ASSUME Free(a, C), Free(b, C) PROVE Free(t, C)
    <3> SUFFICES ASSUME NEW i \in 1 .. Len(a) + Len(b) PROVE t[i] \notin C
      BY <2>3 DEF Free
    <3>1. CASE i <= Len(a)
      <4>1. i \in 1 .. Len(a) /\ t[i] = a[i]
        BY <2>1, <2>2, <3>1
      <4>. QED BY <2>1, <2>5, <4>1 DEF Free
    <3>2. CASE ~(i <= Len(a))
      <4>1. i - Len(a) \in 1 .. Len(b) /\ t[i] = b[i - Len(a)]
        BY <2>1, <2>2, <3>2
      <4>. QED BY <2>1, <2>5, <4>1 DEF Free
    <3>. QED BY <3>1, <3>2
  <2>. QED BY <2>4, <2>5 DEF t
<1>. QED BY <1>1, <1>2, <1>3

LEMMA FreeOfFewer == \A t, C, D : Free(t, C) /\ D \subseteq C => Free(t, D)
BY DEF Free

(* What follows a separator, if anything does.                             *)
After(c, o) == IF IsSome(o) THEN <<c>> \o o[1] ELSE <<>>

LEMMA AfterFacts ==
  ASSUME NEW S, NEW x \in Seq(S), NEW c \in S, NEW o,
         IsSome(o) => o = Some(o[1]) /\ o[1] \in Seq(S)
  PROVE  /\ After(c, o) \in Seq(S) /\ x \o After(c, o) \in Seq(S)
         /\ Free(x, {c}) => SplitOnce(x \o After(c, o), c) = <<x, o>>
<1>1. <<c>> \in Seq(S) /\ <<>> \in Seq(S)
  BY OneToken
<1>2. CASE IsSome(o)
  <2>1. o = Some(o[1]) /\ o[1] \in Seq(S) /\ After(c, o) = <<c>> \o o[1]
    BY <1>2 DEF After
  <2>2. After(c, o) \in Seq(S) /\ x \o After(c, o) \in Seq(S)
    BY <1>1, <2>1, ConcatProperties
  <2>3. x \o After(c, o) = x \o <<c>> \o o[1]
    <3> DEFINE y == o[1]
    <3>1. y \in Seq(S) /\ <<c>> \in Seq(S)
      BY <1>1, <2>1
    <3> HIDE DEF y
    <3>2. (x \o <<c>>) \o y = x \o (<<c>> \o y)
      BY <3>1, ConcatAssociative
    <3>. QED BY <2>1, <3>2 DEF y
  <2>4. Free(x, {c}) => SplitOnce(x \o <<c>> \o o[1], c) = <<x, Some(o[1])>>
    BY <2>1, SplitTextFacts
  <2>. QED BY <2>1, <2>2, <2>3, <2>4
<1>3. CASE ~IsSome(o)
  <2>1. o = None /\ After(c, o) = <<>> /\ x \o After(c, o) = x
    BY <1>3, ConcatEmptySeq DEF After, IsSome
  <2>2. Free(x, {c}) => SplitOnce(x, c) = <<x, None>>
    BY SplitTextFacts
  <2>. QED BY <1>1, <2>1, <2>2
<1>. QED BY <1>2, <1>3

LEMMA TokensAssociate ==
  \A a, b, c \in Seq(Tokens) : (a \o b) \o c = a \o (b \o c)
BY ConcatAssociative

(* host:port, as it follows the "@".                                       *)
HostAndPort(n) == Bracketed(n.host) \o <<":">> \o <<n.port>>

LEMMA UrlTokens ==
  ASSUME NEW n, UrlParts(n)
  PROVE  /\ n.user \in Seq(Tokens) /\ n.host \in Seq(Tokens) /\ n.host # <<>>
         /\ n.port \in Tokens /\ n.query \in Seq(Tokens)
         /\ IsSome(n.name) => n.name = Some(n.name[1]) /\ n.name[1] \in Seq(Tokens)
<1>1. /\ n.user \in Text /\ n.host \in Text /\ n.host # <<>> /\ n.query \in Text
      /\ n.name \in OptionText
  BY DEF UrlParts
<1>2. n.port \in Tokens
  BY DEF UrlParts, Tokens
<1>. QED BY <1>1, <1>2, TextTokens, OptionFacts

LEMMA BracketedFacts ==
  ASSUME NEW n, UrlParts(n)
  PROVE  /\ Bracketed(n.host) \in Seq(Tokens) /\ Bracketed(n.host) # <<>>
         /\ Free(Bracketed(n.host), {"@", "/", "?", "#"})
         /\ Unbracketed(Bracketed(n.host)) = n.host
<1> DEFINE h == n.host
           l == <<"[">>
           r == <<"]">>
<1>1. /\ h \in Seq(Tokens) /\ h # <<>>
      /\ Free(h, {"@", "/", "?", "#", "[", "]"})
  BY UrlTokens DEF UrlParts
<1>2. /\ l \in Seq(Tokens) /\ Len(l) = 1 /\ l[1] = "["
      /\ r \in Seq(Tokens) /\ Len(r) = 1 /\ r[1] = "]"
      /\ Free(l, {"@", "/", "?", "#"}) /\ Free(r, {"@", "/", "?", "#"})
  BY TokenFacts, OneToken, FreeFacts
<1>3. Len(h) \in Nat /\ Len(h) # 0 /\ DOMAIN h = 1 .. Len(h)
  BY <1>1
<1>4. Bracketed(h) = IF Free(h, {":"}) THEN h ELSE l \o h \o r
  BY DEF Bracketed
<1> HIDE DEF h, l, r
<1>5. CASE Free(h, {":"})
  <2>1. h[1] # "["
    BY <1>1, <1>3 DEF Free
  <2>2. Free(h, {"@", "/", "?", "#"})
    BY <1>1 DEF Free
  <2>. QED BY <1>1, <1>4, <1>5, <2>1, <2>2 DEF Unbracketed, h
<1>6. CASE ~Free(h, {":"})
  <2> DEFINE lh == l \o h
             t == lh \o r
  <2>1. /\ lh \in Seq(Tokens) /\ Len(lh) = 1 + Len(h)
        /\ \A i \in 1 .. 1 + Len(h) : lh[i] = IF i <= 1 THEN l[i] ELSE h[i - 1]
    <3>1. /\ lh \in Seq(Tokens) /\ Len(lh) = Len(l) + Len(h)
          /\ \A i \in 1 .. Len(l) + Len(h) :
               lh[i] = IF i <= Len(l) THEN l[i] ELSE h[i - Len(l)]
      BY <1>1, <1>2, ConcatProperties
    <3>. QED BY <1>2, <3>1
  <2>2. Free(lh, {"@", "/", "?", "#"})
    <3>1. Free(h, {"@", "/", "?", "#"})
      BY <1>1 DEF Free
    <3>. QED BY <1>1, <1>2, <3>1, FreeFacts
  <2> HIDE DEF lh
  <2>3. /\ t \in Seq(Tokens) /\ Len(t) = Len(lh) + 1
        /\ \A i \in 1 .. Len(lh) + 1 :
             t[i] = IF i <= Len(lh) THEN lh[i] ELSE r[i - Len(lh)]
    <3>1. /\ t \in Seq(Tokens) /\ Len(t) = Len(lh) + Len(r)
          /\ \A i \in 1 .. Len(lh) + Len(r) :
               t[i] = IF i <= Len(lh) THEN lh[i] ELSE r[i - Len(lh)]
      BY <1>2, <2>1, ConcatProperties
    <3>. QED BY <1>2, <3>1
  <2>4. Free(t, {"@", "/", "?", "#"})
    BY <1>2, <2>1, <2>2, FreeFacts
  <2> HIDE DEF t
  <2> DEFINE L == Len(h)
  <2>5. Len(t) = L + 2 /\ L \in Nat /\ L # 0
    BY <1>3, <2>1, <2>3
  <2>6. t[1] = "["
    <3>1. 1 \in 1 .. Len(lh) + 1 /\ 1 <= Len(lh) /\ 1 \in 1 .. 1 + Len(h) /\ 1 <= 1
      BY <1>3, <2>1
    <3>. QED BY <1>2, <2>1, <2>3, <3>1
  <2>7. t[Len(t)] = "]"
    <3>1. /\ Len(t) \in 1 .. Len(lh) + 1 /\ ~(Len(t) <= Len(lh))
          /\ Len(t) - Len(lh) = 1
      BY <2>1, <2>3, <1>3
    <3>. QED BY <1>2, <2>3, <3>1
  <2>8. \A i \in 1 .. L : t[i + 1] = h[i]
    <3> SUFFICES ASSUME NEW i \in 1 .. L PROVE t[i + 1] = h[i]
      OBVIOUS
    <3>1. /\ i + 1 \in 1 .. Len(lh) + 1 /\ i + 1 <= Len(lh)
          /\ i + 1 \in 1 .. 1 + Len(h) /\ ~(i + 1 <= 1) /\ i + 1 - 1 = i
      BY <1>3, <2>1
    <3>2. t[i + 1] = lh[i + 1]
      BY <2>3, <3>1
    <3>. QED BY <2>1, <3>1, <3>2
  <2>9. SubSeq(t, 2, Len(t) - 1) = h
    <3> DEFINE u == SubSeq(t, 2, L + 1)
    <3>1. Len(t) - 1 = L + 1
      BY <2>5
    <3>2. \A i \in 2 .. L + 1 : t[i] \in Tokens
      BY <2>3, <2>5
    <3>3. /\ u \in Seq(Tokens) /\ Len(u) = L
          /\ \A i \in 1 .. L : u[i] = t[i + 1]
      <4>1. /\ 2 \in Int /\ L + 1 \in Int /\ 2 <= L + 1
            /\ L + 1 - 2 + 1 = L /\ \A i \in 1 .. L : 2 + i - 1 = i + 1
        BY <2>5
      <4>2. /\ u \in Seq(Tokens)
            /\ Len(u) = IF 2 <= L + 1 THEN L + 1 - 2 + 1 ELSE 0
            /\ \A i \in 1 .. L + 1 - 2 + 1 : u[i] = t[2 + i - 1]
        BY <3>2, <4>1, SubSeqProperties
      <4>. QED BY <4>1, <4>2
    <3> HIDE DEF u
    <3>4. u = h
      <4>1. Len(u) = Len(h) /\ \A i \in 1 .. Len(u) : u[i] = h[i]
        BY <2>8, <3>3
      <4>. QED BY <1>1, <3>3, <4>1, SeqEqual
    <3>. QED BY <3>1, <3>4 DEF u
  <2>10. Unbracketed(t) = h
    BY <2>5, <2>6, <2>7, <2>9 DEF Unbracketed
  <2>11. t # <<>>
    BY <2>5
  <2>12. Bracketed(h) = t
    BY <1>4, <1>6 DEF t, lh
  <2>. QED BY <2>3, <2>4, <2>10, <2>11, <2>12 DEF h
<1>. QED BY <1>5, <1>6

LEMMA AddressFacts ==
  ASSUME NEW n, UrlParts(n)
  PROVE  LET A == Address(n)
             hp == HostAndPort(n)
         IN  /\ A \in Seq(Tokens) /\ hp \in Seq(Tokens)
             /\ A = n.user \o <<"@">> \o hp
             /\ Free(A, {"?", "#"}) /\ Free(hp, {"@", "/", "?", "#"})
             /\ SplitLast(A, "@") = <<n.user, Some(hp)>>
             /\ SplitLast(hp, ":") = <<Bracketed(n.host), Some(<<n.port>>)>>
             /\ Len(A) > 0 /\ A[Len(A)] = n.port /\ Contains(A, "@")
<1> DEFINE u == n.user
           b == Bracketed(n.host)
           p == <<n.port>>
           at == <<"@">>
           colon == <<":">>
           hp == b \o colon \o p
<1>1. /\ u \in Seq(Tokens) /\ Free(u, {"?", "#"})
      /\ n.port \notin {"@", ":", "/", "?", "#"}
      /\ n.port \in Tokens
  BY UrlTokens DEF UrlParts, SEPARATORS
<1>2. b \in Seq(Tokens) /\ Free(b, {"@", "/", "?", "#"})
  BY BracketedFacts
<1>3. /\ p \in Seq(Tokens) /\ Len(p) = 1 /\ p[1] = n.port
      /\ at \in Seq(Tokens) /\ colon \in Seq(Tokens)
      /\ "@" \in Tokens /\ ":" \in Tokens
  BY <1>1, TokenFacts, OneToken
<1>4. /\ Free(p, {"@", "/", "?", "#"}) /\ Free(colon, {"@", "/", "?", "#"})
      /\ Free(at, {"?", "#"}) /\ Free(p, {":"})
  BY <1>1, FreeFacts
<1> HIDE DEF u, b, p
<1>5. SplitLast(hp, ":") = <<b, Some(p)>>
  BY <1>2, <1>3, <1>4, SplitTextFacts
<1>6. /\ hp \in Seq(Tokens) /\ b \o colon \in Seq(Tokens)
      /\ Len(hp) \in Nat \ {0} /\ hp[Len(hp)] = n.port
  <2>1. /\ hp \in Seq(Tokens) /\ Len(hp) = Len(b) + 1 + Len(p)
        /\ \A i \in 1 .. Len(p) : hp[Len(b) + 1 + i] = p[i]
    BY <1>2, <1>3, AroundFacts
  <2>2. b \o colon \in Seq(Tokens)
    BY <1>2, <1>3, ConcatProperties
  <2> HIDE DEF hp
  <2>3. Len(b) \in Nat
    BY <1>2
  <2>. QED BY <1>3, <2>1, <2>2, <2>3
<1>7. Free(hp, {"@", "/", "?", "#"})
  <2> DEFINE bc == b \o colon
             C == {"@", "/", "?", "#"}
  <2>1. Free(b, C) /\ Free(colon, C) /\ Free(p, C)
    BY <1>2, <1>4
  <2> HIDE DEF C
  <2>2. Free(bc, C) /\ bc \in Seq(Tokens)
    BY <1>2, <1>3, <1>6, <2>1, FreeFacts
  <2> HIDE DEF bc
  <2>3. Free(bc \o p, C)
    BY <1>3, <2>1, <2>2, FreeFacts
  <2>. QED BY <2>3 DEF bc, C
<1> DEFINE A == u \o at \o hp
<1>8. Address(n) = A
  <2>1. <<":", n.port>> = colon \o p
    BY DEF p
  <2>2. Address(n) = u \o at \o b \o (colon \o p)
    BY <2>1 DEF Address, u, b
  <2>3. u \o at \in Seq(Tokens)
    BY <1>1, <1>3, ConcatProperties
  <2> DEFINE w == u \o at
  <2> HIDE DEF w, colon, at
  <2>4. w \o b \in Seq(Tokens)
    BY <1>2, <2>3, ConcatProperties DEF w
  <2> DEFINE wb == w \o b
             bc == b \o colon
  <2>5. wb \o (colon \o p) = wb \o colon \o p
    <3> HIDE DEF wb
    <3>1. wb \in Seq(Tokens) /\ colon \in Seq(Tokens) /\ p \in Seq(Tokens)
      BY <1>3, <2>4 DEF wb, colon
    <3>. QED BY <3>1, TokensAssociate, Zenon
  <2>6. w \o b \o colon = w \o (b \o colon)
    BY <1>2, <1>3, <2>3, ConcatAssociative DEF w
  <2>7. w \o bc \o p = w \o (bc \o p)
    <3> HIDE DEF bc
    <3>1. w \in Seq(Tokens) /\ bc \in Seq(Tokens) /\ p \in Seq(Tokens)
      BY <1>3, <1>6, <2>3 DEF w, bc, colon
    <3>. QED BY <3>1, TokensAssociate, Zenon
  <2>. QED BY <2>2, <2>5, <2>6, <2>7 DEF w
<1> HIDE DEF hp
<1>9. /\ A \in Seq(Tokens) /\ Len(A) = Len(u) + 1 + Len(hp) /\ A[Len(u) + 1] = "@"
      /\ \A i \in 1 .. Len(hp) : A[Len(u) + 1 + i] = hp[i]
  BY <1>1, <1>3, <1>6, AroundFacts
<1>10. SplitLast(A, "@") = <<u, Some(hp)>>
  <2>1. Free(hp, {"@"})
    BY <1>7 DEF Free
  <2>. QED BY <1>1, <1>3, <1>6, <2>1, SplitTextFacts
<1>11. Free(A, {"?", "#"})
  <2>1. Free(hp, {"?", "#"}) /\ u \o at \in Seq(Tokens)
    BY <1>1, <1>3, <1>7, ConcatProperties DEF Free
  <2>. QED BY <1>1, <1>3, <1>4, <1>6, <2>1, FreeFacts
<1> HIDE DEF A
<1>12. Len(A) > 0 /\ A[Len(A)] = n.port /\ Contains(A, "@")
  <2>1. Len(u) \in Nat /\ Len(hp) \in 1 .. Len(hp) /\ Len(u) + 1 \in 1 .. Len(A)
        /\ Len(A) = Len(u) + 1 + Len(hp)
    BY <1>1, <1>6, <1>9
  <2>2. A[Len(A)] = hp[Len(hp)]
    BY <1>9, <2>1
  <2>. QED BY <1>6, <1>9, <2>1, <2>2 DEF Contains
<1>. QED BY <1>5, <1>6, <1>7, <1>8, <1>9, <1>10, <1>11, <1>12
         DEF HostAndPort, A, hp, u, b, p

SlashOf(n) == IF n.slash THEN <<"/">> ELSE <<>>
QueryOf(n) == IF n.params # <<>> THEN Some(n.query) ELSE None

(* The address ends at the query, the query at the fragment.               *)
LEMMA UrlCuts ==
  ASSUME NEW n, UrlParts(n), NEW main \in Seq(Tokens), Free(main, {"?", "#"}),
         main # <<>>, UrlText(n) = main \o SlashOf(n) \o After("?", QueryOf(n))
                                   \o After("#", n.name)
  PROVE  LET f == SplitOnce(UrlText(n), "#")
         IN  /\ f[2] = n.name
             /\ SplitOnce(f[1], "?") = <<main \o SlashOf(n), QueryOf(n)>>
             /\ main \o SlashOf(n) \in Seq(Tokens)
             /\ UrlText(n) # <<>>
<1> DEFINE slash == SlashOf(n)
           o == QueryOf(n)
           x == main \o slash
           y == x \o After("?", o)
<1>1. /\ n.query \in Seq(Tokens) /\ "?" \in Tokens /\ "#" \in Tokens
      /\ "/" \in Tokens
      /\ IsSome(n.name) => n.name = Some(n.name[1]) /\ n.name[1] \in Seq(Tokens)
      /\ Free(n.query, {"#"})
  BY UrlTokens, TokenFacts DEF UrlParts
<1>2. slash \in Seq(Tokens) /\ Free(slash, {"?", "#"})
  <2>1. <<"/">> \in Seq(Tokens) /\ <<>> \in Seq(Tokens)
    BY <1>1, OneToken, TokenFacts
  <2>2. Free(<<"/">>, {"?", "#"}) /\ Free(<<>>, {"?", "#"})
    BY FreeFacts
  <2>. QED BY <2>1, <2>2 DEF SlashOf
<1>3. IsSome(o) => o = Some(o[1]) /\ o[1] \in Seq(Tokens) /\ Free(o[1], {"#"})
  BY <1>1, SomeFacts DEF QueryOf, IsSome
<1> HIDE DEF slash, o
<1>4. x \in Seq(Tokens) /\ Free(x, {"?", "#"}) /\ x # <<>>
  <2>1. x \in Seq(Tokens) /\ Free(x, {"?", "#"})
    BY <1>2, ConcatProperties, FreeFacts
  <2>2. x # <<>>
    BY <1>2, ConcatEqualIffEmpty
  <2>. QED BY <2>1, <2>2
<1> HIDE DEF x
<1>5. y \in Seq(Tokens) /\ SplitOnce(y, "?") = <<x, o>>
  <2>1. Free(x, {"?"})
    BY <1>4 DEF Free
  <2>. QED BY <1>1, <1>3, <1>4, <2>1, AfterFacts
<1>6. Free(y, {"#"}) /\ y # <<>>
  <2> DEFINE z == After("?", o)
  <2>1. Free(z, {"#"}) /\ z \in Seq(Tokens)
    <3>1. CASE IsSome(o)
      <4> DEFINE m == <<"?">>
                 v == o[1]
      <4>1. /\ m \in Seq(Tokens) /\ v \in Seq(Tokens)
            /\ Free(m, {"#"}) /\ Free(v, {"#"})
        BY <1>1, <1>3, <3>1, OneToken, FreeFacts
      <4>2. z = m \o v
        BY <3>1 DEF After
      <4> HIDE DEF m, v, z
      <4>. QED BY <4>1, <4>2, FreeFacts, ConcatProperties
    <3>2. CASE ~IsSome(o)
      <4>1. z = <<>>
        BY <3>2 DEF After
      <4> HIDE DEF z
      <4>. QED BY <4>1, FreeFacts, TokenFacts
    <3>. QED BY <3>1, <3>2
  <2>2. Free(x, {"#"})
    BY <1>4 DEF Free
  <2> HIDE DEF z
  <2>3. Free(x \o z, {"#"}) /\ x \o z # <<>>
    BY <1>4, <2>1, <2>2, FreeFacts, ConcatEqualIffEmpty
  <2>. QED BY <2>3 DEF z
<1> HIDE DEF y
<1>7. SplitOnce(y \o After("#", n.name), "#") = <<y, n.name>>
  BY <1>1, <1>5, <1>6, AfterFacts
<1>8. UrlText(n) = y \o After("#", n.name)
  BY DEF y, x, slash, o
<1>9. UrlText(n) # <<>>
  <2>1. After("#", n.name) \in Seq(Tokens)
    BY <1>1, <1>5, AfterFacts
  <2> DEFINE z == After("#", n.name)
  <2> HIDE DEF z
  <2>2. y \o z # <<>>
    BY <1>5, <1>6, <2>1, ConcatEqualIffEmpty DEF z
  <2>. QED BY <1>8, <2>2 DEF z
<1>10. SplitOnce(UrlText(n), "#") = <<y, n.name>>
  BY <1>7, <1>8
<1>. QED BY <1>4, <1>5, <1>9, <1>10 DEF x, slash, o

LEMMA UrlTextFacts ==
  ASSUME NEW n
  PROVE  UrlText(n) = (IF IsSome(n.whole) THEN n.whole ELSE Address(n))
                      \o SlashOf(n) \o After("?", QueryOf(n))
                      \o After("#", n.name)
<1>1. After("?", QueryOf(n)) = IF n.params # <<>> THEN <<"?">> \o n.query ELSE <<>>
  <2>1. ~IsSome(None) /\ IsSome(Some(n.query)) /\ Some(n.query)[1] = n.query
    BY SomeFacts DEF IsSome
  <2>. QED BY <2>1 DEF After, QueryOf
<1>. QED BY <1>1 DEF UrlText, After, SlashOf

(* parse_url_like gives back the parts.                                    *)
LEMMA Parsed ==
  ASSUME NEW n, UrlParts(n), ~IsSome(n.whole)
  PROVE  /\ ParseUrlLike(UrlText(n)) =
              Some([auth |-> Some(n.user), host |-> n.host,
                    port |-> Some(<<n.port>>), query |-> QueryOf(n),
                    fragment |-> n.name])
         /\ UrlText(n) # <<>>
<1> DEFINE s == UrlText(n)
           A == Address(n)
           r == HostAndPort(n)
           slash == SlashOf(n)
           f == SplitOnce(s, "#")
           q == SplitOnce(f[1], "?")
           m == Len(q[1])
           before == IF m > 0 /\ q[1][m] = "/" THEN SubSeq(q[1], 1, m - 1) ELSE q[1]
           a == SplitLast(before, "@")
           hp == HostPort(Or(a[2], before))
<1>1. /\ A \in Seq(Tokens) /\ Free(A, {"?", "#"})
      /\ SplitLast(A, "@") = <<n.user, Some(r)>>
      /\ SplitLast(r, ":") = <<Bracketed(n.host), Some(<<n.port>>)>>
      /\ Len(A) > 0 /\ A[Len(A)] = n.port
  BY AddressFacts
<1>2. n.port # "/" /\ n.port \in DOMAIN Digits
  BY DEF UrlParts, SEPARATORS
<1>3. /\ f[2] = n.name /\ q = <<A \o slash, QueryOf(n)>>
      /\ s # <<>>
  <2>1. s = A \o SlashOf(n) \o After("?", QueryOf(n)) \o After("#", n.name)
    BY UrlTextFacts
  <2>2. A # <<>>
    BY <1>1
  <2> HIDE DEF A
  <2>. QED BY <1>1, <2>1, <2>2, UrlCuts
<1>4. before = A
  <2> DEFINE t == q[1]
  <2>1. t = A \o slash
    BY <1>3
  <2> HIDE DEF q, t, A
  <2>2. Len(A) \in Nat
    BY <1>1
  <2>3. CASE n.slash
    <3>1. slash = <<"/">> /\ "/" \in Tokens /\ <<"/">> \in Seq(Tokens)
          /\ <<>> \in Seq(Tokens)
      BY <2>3, TokenFacts, OneToken DEF SlashOf
    <3>2. A \o <<"/">> \in Seq(Tokens)
      BY <1>1, <3>1, ConcatProperties
    <3>3. A \o <<"/">> \o <<>> = A \o <<"/">>
      <4> DEFINE w == A \o <<"/">>
      <4> HIDE DEF w
      <4>1. w \o <<>> = w
        BY <3>2, ConcatEmptySeq DEF w
      <4>. QED BY <4>1 DEF w
    <3>4. /\ Len(A \o <<"/">> \o <<>>) = Len(A) + 1 + Len(<<>>)
          /\ (A \o <<"/">> \o <<>>)[Len(A) + 1] = "/"
          /\ SubSeq(A \o <<"/">> \o <<>>, 1, Len(A)) = A
      BY <1>1, <3>1, AroundFacts
    <3>5. Len(t) = Len(A) + 1 /\ t[Len(A) + 1] = "/" /\ SubSeq(t, 1, Len(A)) = A
      <4>1. Len(<<>>) = 0
        OBVIOUS
      <4>. QED BY <2>1, <2>2, <3>1, <3>3, <3>4, <4>1
    <3>6. Len(t) > 0 /\ t[Len(t)] = "/" /\ SubSeq(t, 1, Len(t) - 1) = A
      BY <2>2, <3>5
    <3>. QED BY <3>6 DEF t
  <2>4. CASE ~n.slash
    <3>1. t = A
      BY <1>1, <2>1, <2>4, ConcatEmptySeq DEF SlashOf
    <3>. QED BY <1>1, <1>2, <3>1 DEF t
  <2>. QED BY <2>3, <2>4
<1>5. a = <<n.user, Some(r)>>
  BY <1>1, <1>4
<1>6. hp = <<Bracketed(n.host), Some(<<n.port>>)>>
  <2>1. Or(Some(r), before) = r
    BY SomeFacts DEF Or, OrElse
  <2>2. IsNumber(<<n.port>>)
    BY <1>2 DEF IsNumber
  <2>3. HostPort(r) = <<Bracketed(n.host), Some(<<n.port>>)>>
    BY <1>1, <2>2, SomeFacts DEF HostPort
  <2>4. a[2] = Some(r)
    BY <1>5
  <2> HIDE DEF a, before, r
  <2>. QED BY <2>1, <2>3, <2>4
<1>7. Bracketed(n.host) # <<>> /\ Unbracketed(Bracketed(n.host)) = n.host
  BY BracketedFacts
<1>8. ParseUrlLike(s) =
        IF hp[1] = <<>> THEN None
        ELSE Some([auth |-> IF IsSome(a[2]) THEN Some(a[1]) ELSE None,
                   host |-> Unbracketed(hp[1]), port |-> hp[2],
                   query |-> q[2], fragment |-> f[2]])
  BY DEF ParseUrlLike
<1>9. q[2] = QueryOf(n) /\ a[1] = n.user /\ a[2] = Some(r) /\
        hp[1] = Bracketed(n.host)
      /\ hp[2] = Some(<<n.port>>)
  BY <1>3, <1>5, <1>6
<1> HIDE DEF hp, a, q, f, r, s
<1>. QED BY <1>3, <1>7, <1>8, <1>9, SomeFacts DEF s

-----------------------------------------------------------------------------
(* What an entry has.                                                      *)

Gives(m, k, v) == k \in DOMAIN m /\ m[k] = v
Lacks(m, k) == k \notin DOMAIN m

LEMMA GivesOver ==
  /\ \A f, g, k, v : Gives(f, k, v) => Gives(f ++ g, k, v)
  /\ \A f, g, k, v : Lacks(f, k) /\ Gives(g, k, v) => Gives(f ++ g, k, v)
  /\ \A f, g, k : Lacks(f, k) /\ Lacks(g, k) => Lacks(f ++ g, k)
<1> SUFFICES ASSUME NEW f, NEW g, NEW k, NEW v
             PROVE  /\ Gives(f, k, v) => Gives(f ++ g, k, v)
                    /\ Lacks(f, k) /\ Gives(g, k, v) => Gives(f ++ g, k, v)
                    /\ Lacks(f, k) /\ Lacks(g, k) => Lacks(f ++ g, k)
  OBVIOUS
<1>1. Covers(f ++ g, f, g)
  BY OverFacts
<1>. QED BY <1>1 DEF Covers, Gives, Lacks

LEMMA GivesKv ==
  /\ \A k, v : Gives(Kv(k, v), k, v)
  /\ \A j, k, v : j # k => Lacks(Kv(j, v), k)
  /\ \A k : Lacks(<<>>, k)
<1>1. \A k, v : Single(Kv(k, v), k, v)
  BY KvFacts
<1>2. \A k : Lacks(<<>>, k)
  BY DEF Lacks
<1>3. \A k, v : Gives(Kv(k, v), k, v)
  BY <1>1 DEF Single, Gives
<1>4. \A j, k, v : j # k => Lacks(Kv(j, v), k)
  BY <1>1 DEF Single, Lacks
<1>. QED BY <1>2, <1>3, <1>4

LEMMA GivesKvIf ==
  /\ \A c, k, v : c => Gives(KvIf(c, k, v), k, v)
  /\ \A c, j, k, v : j # k => Lacks(KvIf(c, j, v), k)
  /\ \A k, o : IsSome(o) => Gives(KvOpt(k, o), k, Str(o[1]))
  /\ \A j, k, o : j # k => Lacks(KvOpt(j, o), k)
  /\ \A k, m : DOMAIN m # {} => Gives(KvMap(k, m), k, Map(m))
  /\ \A j, k, m : j # k => Lacks(KvMap(j, m), k)
  /\ \A q, j, name : Has(q, j) /\ BoolOrPresence(Get(q, j))
                     => Gives(KvFlag(q, j, name), name, Bool(TRUE))
  /\ \A q, j, name, k : name # k => Lacks(KvFlag(q, j, name), k)
  /\ \A q, k : k # "alpn" => Lacks(KvAlpn(q), k)
<1>1. \A c, k, v : c => Gives(KvIf(c, k, v), k, v)
  BY GivesKv DEF KvIf
<1>2. \A c, j, k, v : j # k => Lacks(KvIf(c, j, v), k)
  BY GivesKv DEF KvIf
<1>3. \A k, o : IsSome(o) => Gives(KvOpt(k, o), k, Str(o[1]))
  BY GivesKv DEF KvOpt
<1>4. \A j, k, o : j # k => Lacks(KvOpt(j, o), k)
  BY GivesKv DEF KvOpt
<1>5. \A k, m : DOMAIN m # {} => Gives(KvMap(k, m), k, Map(m))
  BY <1>1 DEF KvMap
<1>6. \A j, k, m : j # k => Lacks(KvMap(j, m), k)
  BY <1>2 DEF KvMap
<1>7. ASSUME NEW q, NEW j, NEW name, Has(q, j), BoolOrPresence(Get(q, j))
      PROVE  Gives(KvFlag(q, j, name), name, Bool(TRUE))
  <2>1. BoolOrPresence(Get(q, j)) = TRUE
    BY <1>7 DEF BoolOrPresence
  <2>2. KvFlag(q, j, name) = KvIf(Has(q, j), name, Bool(TRUE))
    BY <2>1 DEF KvFlag
  <2>. QED BY <1>1, <1>7, <2>2
<1>8. \A q, j, name, k : name # k => Lacks(KvFlag(q, j, name), k)
  BY <1>2 DEF KvFlag
<1>9. ASSUME NEW q, NEW k, k # "alpn" PROVE Lacks(KvAlpn(q), k)
  <2>1. KvAlpn(q) = <<>> \/ \E v : KvAlpn(q) = Kv("alpn", v)
    BY DEF KvAlpn
  <2>. QED BY <1>9, <2>1, GivesKv
<1>. QED BY <1>1, <1>2, <1>3, <1>4, <1>5, <1>6, <1>7, <1>8, <1>9

(* An entry names its type, its node and its address.                      *)
Names4(m, type, fragment, server, port) ==
  /\ Gives(m, "type", Word(type)) /\ Gives(m, "server", Str(server))
  /\ Gives(m, "port", Num(port))
  /\ IsSome(fragment) => Gives(m, "name", Str(fragment[1]))

LEMMA EntryGives ==
  ASSUME NEW type, NEW name, NEW label, NEW server, NEW port
  PROVE  LET e == Entry(type, name, label, server, port)
         IN  /\ Names4(e, type, name, server, port)
             /\ \A k : k \notin {"type", "name", "server", "port"} => Lacks(e, k)
<1> DEFINE called == Str(Or(name, <<label, " ">> \o server \o <<":">>))
           a1 == Kv("type", Word(type))
           a2 == Kv("name", called)
           a3 == Kv("server", Str(server))
           a4 == Kv("port", Num(port))
           e == a1 ++ a2 ++ a3 ++ a4
<1>1. Entry(type, name, label, server, port) = e
  BY DEF Entry
<1>2. IsSome(name) => called = Str(name[1])
  BY DEF Or, OrElse
<1> HIDE DEF called
<1>3. /\ Gives(a1, "type", Word(type)) /\ Gives(a2, "name", called)
      /\ Gives(a3, "server", Str(server)) /\ Gives(a4, "port", Num(port))
      /\ \A k : k # "type" => Lacks(a1, k)
      /\ \A k : k # "name" => Lacks(a2, k)
      /\ \A k : k # "server" => Lacks(a3, k)
      /\ \A k : k # "port" => Lacks(a4, k)
  BY GivesKv
<1> HIDE DEF a1, a2, a3, a4
<1>4. Gives(e, "type", Word(type))
  BY <1>3, GivesOver
<1>5. Gives(e, "name", called)
  BY <1>3, GivesOver
<1>6. Gives(e, "server", Str(server))
  BY <1>3, GivesOver
<1>7. Gives(e, "port", Num(port))
  BY <1>3, GivesOver
<1>8. \A k : k \notin {"type", "name", "server", "port"} => Lacks(e, k)
  BY <1>3, GivesOver
<1>. QED BY <1>1, <1>2, <1>4, <1>5, <1>6, <1>7, <1>8 DEF Names4

LEMMA NamesOver ==
  \A f, g, type, fragment, server, port :
    Names4(f, type, fragment, server, port) =>
      Names4(f ++ g, type, fragment, server, port)
BY GivesOver DEF Names4

\* What an option or a flag of the query gives an entry.
OptGives(m, k, o) == IsSome(o) => Gives(m, k, Str(o[1]))
FlagGives(m, k, q, j) ==
  Has(q, j) /\ BoolOrPresence(Get(q, j)) => Gives(m, k, Bool(TRUE))

LEMMA OptGivesFacts ==
  /\ \A f, g, k, o : OptGives(f, k, o) => OptGives(f ++ g, k, o)
  /\ \A f, g, k, o : Lacks(f, k) /\ OptGives(g, k, o) => OptGives(f ++ g, k, o)
  /\ \A k, o : OptGives(KvOpt(k, o), k, o)
<1>1. \A f, g, k, o : OptGives(f, k, o) => OptGives(f ++ g, k, o)
  BY GivesOver, Zenon DEF OptGives
<1>2. \A f, g, k, o : Lacks(f, k) /\ OptGives(g, k, o) => OptGives(f ++ g, k, o)
  BY GivesOver, Zenon DEF OptGives
<1>3. \A k, o : OptGives(KvOpt(k, o), k, o)
  BY GivesKvIf, Zenon DEF OptGives
<1>. QED BY <1>1, <1>2, <1>3

LEMMA FlagGivesFacts ==
  /\ \A f, g, k, q, j : FlagGives(f, k, q, j) => FlagGives(f ++ g, k, q, j)
  /\ \A f, g, k, q, j :
       Lacks(f, k) /\ FlagGives(g, k, q, j) => FlagGives(f ++ g, k, q, j)
  /\ \A k, q, j : FlagGives(KvFlag(q, j, k), k, q, j)
<1>1. \A f, g, k, q, j : FlagGives(f, k, q, j) => FlagGives(f ++ g, k, q, j)
  BY GivesOver, Zenon DEF FlagGives
<1>2. \A f, g, k, q, j :
       Lacks(f, k) /\ FlagGives(g, k, q, j) => FlagGives(f ++ g, k, q, j)
  BY GivesOver, Zenon DEF FlagGives
<1>3. \A k, q, j : FlagGives(KvFlag(q, j, k), k, q, j)
  BY GivesKvIf, Zenon DEF FlagGives
<1>. QED BY <1>1, <1>2, <1>3

LEMMA LacksFacts ==
  /\ \A f, g, k : Lacks(f, k) /\ Lacks(g, k) => Lacks(f ++ g, k)
  /\ \A j, k, o : k # j => Lacks(KvOpt(j, o), k)
  /\ \A q, j, name, k : k # name => Lacks(KvFlag(q, j, name), k)
<1>1. \A f, g, k : Lacks(f, k) /\ Lacks(g, k) => Lacks(f ++ g, k)
  BY GivesOver
<1>2. \A j, k, o : k # j => Lacks(KvOpt(j, o), k)
  BY GivesKv DEF KvOpt
<1>3. \A q, j, name, k : k # name => Lacks(KvFlag(q, j, name), k)
  BY GivesKv DEF KvFlag, KvIf
<1>. QED BY <1>1, <1>2, <1>3

LEMMA Hysteria2Gives ==
  ASSUME NEW u, NEW q, q = Query(u.query), NEW m, m = Hysteria2Entry(u)
  PROVE  /\ Names4(m, "hysteria2", DecodeAndTrim(u.fragment), u.host,
                   PortOrDefault(u.port, 443))
         /\ Gives(m, "password", Str(Decoded(u.auth[1])))
         /\ OptGives(m, "sni", Get(q, "sni"))
         /\ OptGives(m, "obfs-password", Get(q, "obfs-password"))
         /\ FlagGives(m, "skip-cert-verify", q, "insecure")
<1> DEFINE sni == GetEither(q, "sni", "peer")
           obfs == IF Get(q, "obfs") = Some(<<"none">>) THEN None
                   ELSE Get(q, "obfs")
           e == Entry("hysteria2", DecodeAndTrim(u.fragment), "Hysteria2",
                      u.host, PortOrDefault(u.port, 443))
           a1 == Kv("password", Str(Decoded(u.auth[1])))
           a2 == KvOpt("sni", sni)
           a3 == KvOpt("obfs", obfs)
           a4 == KvOpt("ports", Get(q, "mport"))
           a5 == KvOpt("obfs-password", Get(q, "obfs-password"))
           a6 == KvFlag(q, "insecure", "skip-cert-verify")
           a7 == KvFlag(q, "fastopen", "tfo")
           a8 == KvOpt("fingerprint", Get(q, "pinSHA256"))
           M == e ++ a1 ++ a2 ++ a3 ++ a4 ++ a5 ++ a6 ++ a7 ++ a8
<1>1. m = M
  BY DEF Hysteria2Entry
<1>2. IsSome(Get(q, "sni")) => sni = Get(q, "sni")
  BY DEF GetEither, OrElse
<1>3. /\ Names4(e, "hysteria2", DecodeAndTrim(u.fragment), u.host,
                PortOrDefault(u.port, 443))
      /\ \A k : k \notin {"type", "name", "server", "port"} => Lacks(e, k)
  BY EntryGives
<1>4. /\ Gives(a1, "password", Str(Decoded(u.auth[1])))
      /\ \A k : k # "password" => Lacks(a1, k)
  BY GivesKv
<1> HIDE DEF sni, obfs, e, a1
<1>5. OptGives(a2, "sni", sni) /\ \A k : k # "sni" => Lacks(a2, k)
  BY OptGivesFacts, LacksFacts, Zenon
<1>6. \A k : k # "obfs" => Lacks(a3, k)
  BY LacksFacts, Zenon
<1>7. \A k : k # "ports" => Lacks(a4, k)
  BY LacksFacts, Zenon
<1>8. /\ OptGives(a5, "obfs-password", Get(q, "obfs-password"))
      /\ \A k : k # "obfs-password" => Lacks(a5, k)
  BY OptGivesFacts, LacksFacts, Zenon
<1>9. FlagGives(a6, "skip-cert-verify", q, "insecure")
  BY FlagGivesFacts, Zenon
<1> HIDE DEF a2, a3, a4, a5, a6, a7, a8
<1>10. Names4(M, "hysteria2", DecodeAndTrim(u.fragment), u.host,
              PortOrDefault(u.port, 443))
  <2> DEFINE N(x) == Names4(x, "hysteria2", DecodeAndTrim(u.fragment), u.host,
                            PortOrDefault(u.port, 443))
  <2>1. N(e) /\ \A f, g : N(f) => N(f ++ g)
    BY <1>3, NamesOver
  <2> HIDE DEF N
  <2>2. N(M)
    BY <2>1, Zenon
  <2>. QED BY <2>2 DEF N
<1>11. Gives(M, "password", Str(Decoded(u.auth[1])))
  <2>1. Gives(e ++ a1, "password", Str(Decoded(u.auth[1])))
    BY <1>3, <1>4, GivesOver
  <2>. QED BY <2>1, GivesOver, Zenon
<1>12. OptGives(M, "sni", Get(q, "sni"))
  <2>1. Lacks(e ++ a1, "sni")
    BY <1>3, <1>4, LacksFacts
  <2>2. OptGives(e ++ a1 ++ a2, "sni", sni)
    BY <1>5, <2>1, OptGivesFacts
  <2>3. OptGives(M, "sni", sni)
    BY <2>2, OptGivesFacts, Zenon
  <2>. QED BY <1>2, <2>3 DEF OptGives
<1>13. OptGives(M, "obfs-password", Get(q, "obfs-password"))
  <2>1. Lacks(e ++ a1 ++ a2 ++ a3 ++ a4, "obfs-password")
    BY <1>3, <1>4, <1>5, <1>6, <1>7, LacksFacts
  <2>2. OptGives(e ++ a1 ++ a2 ++ a3 ++ a4 ++ a5, "obfs-password",
                 Get(q, "obfs-password"))
    BY <1>8, <2>1, OptGivesFacts, Zenon
  <2>. QED BY <2>2, OptGivesFacts, Zenon
<1>14. FlagGives(M, "skip-cert-verify", q, "insecure")
  <2>1. Lacks(e ++ a1 ++ a2 ++ a3 ++ a4 ++ a5, "skip-cert-verify")
    BY <1>3, <1>4, <1>5, <1>6, <1>7, <1>8, LacksFacts
  <2>2. FlagGives(e ++ a1 ++ a2 ++ a3 ++ a4 ++ a5 ++ a6, "skip-cert-verify",
                  q, "insecure")
    BY <1>9, <2>1, FlagGivesFacts, Zenon
  <2>. QED BY <2>2, FlagGivesFacts, Zenon
<1> HIDE DEF M
<1>. QED BY <1>1, <1>10, <1>11, <1>12, <1>13, <1>14

\* A value in a mapping of an entry.
GivesIn(m, k, j, v) == \E x : Gives(m, k, Map(x)) /\ Gives(x, j, v)

Keyed(u) == Query(u.query)
KeyedAny(u) == Query(Some(Or(u.query, <<>>)))

LEMMA GivesInFacts ==
  /\ \A f, g, k, j, v : GivesIn(f, k, j, v) => GivesIn(f ++ g, k, j, v)
  /\ \A f, g, k, j, v :
       Lacks(f, k) /\ GivesIn(g, k, j, v) => GivesIn(f ++ g, k, j, v)
  /\ \A x, k, j, v : Gives(x, j, v) => GivesIn(KvMap(k, x), k, j, v)
<1>1. \A f, g, k, j, v : GivesIn(f, k, j, v) => GivesIn(f ++ g, k, j, v)
  BY GivesOver, Zenon DEF GivesIn
<1>2. \A f, g, k, j, v :
       Lacks(f, k) /\ GivesIn(g, k, j, v) => GivesIn(f ++ g, k, j, v)
  BY GivesOver, Zenon DEF GivesIn
<1>3. ASSUME NEW x, NEW k, NEW j, NEW v, Gives(x, j, v)
      PROVE  GivesIn(KvMap(k, x), k, j, v)
  <2>1. DOMAIN x # {}
    BY <1>3 DEF Gives
  <2>2. Gives(KvMap(k, x), k, Map(x))
    BY <2>1, GivesKvIf, Zenon
  <2>. QED BY <1>3, <2>2 DEF GivesIn
<1>. QED BY <1>1, <1>2, <1>3

LEMMA WsGives ==
  \A host, path, up : IsSome(path) =>
    GivesIn(WsOpts(host, path, up), "ws-opts", "path", Str(path[1]))
<1> SUFFICES ASSUME NEW host, NEW path, NEW up, IsSome(path)
             PROVE  GivesIn(WsOpts(host, path, up), "ws-opts", "path",
                            Str(path[1]))
  OBVIOUS
<1> DEFINE p == KvOpt("path", path)
           h == HostHeader(host)
           t == HttpUpgrade(up)
<1>1. Gives(p, "path", Str(path[1]))
  BY OptGivesFacts DEF OptGives
<1> HIDE DEF p, h, t
<1>2. Gives(p ++ h ++ t, "path", Str(path[1]))
  BY <1>1, GivesOver, Zenon
<1>. QED BY <1>2, GivesInFacts DEF WsOpts, p, h, t

(* What a trojan entry has.                                                *)
LEMMA TrojanGives ==
  ASSUME NEW u, NEW m, m = TrojanEntry(u)
  PROVE  /\ Names4(m, "trojan", DecodeAndTrim(u.fragment), u.host,
                   PortOrDefault(u.port, 443))
         /\ Gives(m, "password", Str(Decoded(u.auth[1])))
         /\ Get(Keyed(u), "type") = Some(<<"ws">>) =>
              OptGives(m, "network", Some(<<"ws">>))
         /\ OptGives(m, "sni", Get(Keyed(u), "sni"))
         /\ FlagGives(m, "skip-cert-verify", Keyed(u), "skip-cert-verify")
         /\ Get(Keyed(u), "type") = Some(<<"ws">>) /\ IsSome(Get(Keyed(u),
              "path")) =>
              GivesIn(m, "ws-opts", "path", Str(Get(Keyed(u), "path")[1]))
<1> DEFINE network == IF Get(Keyed(u), "type") \in
                           {Some(<<t>>) : t \in {"ws", "grpc", "h2", "tcp"}}
                      THEN Get(Keyed(u), "type") ELSE None
           mix == Split(Or(Get(Keyed(u), "encryption"), <<>>), ";")
           ss == IF Len(mix) = 3
                 THEN Kv("ss-opts", Map(Kv("enabled", Bool(TRUE)) ++
                        Kv("method", Str(mix[2])) ++
                        Kv("password", Str(mix[3]))))
                 ELSE <<>>
           transport == CASE network = Some(<<"ws">>) ->
                               WsOpts(Get(Keyed(u), "host"), Get(Keyed(u),
                                   "path"), FALSE)
                          [] network = Some(<<"grpc">>) -> GrpcOpts(Get(Keyed(u), "path"))
                          [] OTHER -> <<>>
           e == Entry("trojan", DecodeAndTrim(u.fragment), "Trojan", u.host,
                      PortOrDefault(u.port, 443))
           a1 == Kv("password", Str(Decoded(u.auth[1])))
           a2 == KvOpt("network", network)
           a3 == KvAlpn(Keyed(u))
           a4 == KvOpt("sni", Get(Keyed(u), "sni"))
           a5 == KvFlag(Keyed(u), "skip-cert-verify", "skip-cert-verify")
           a6 == KvOpt("fingerprint", GetEither(Keyed(u), "fingerprint", "fp"))
           a7 == ss
           a8 == KvOpt("client-fingerprint", Get(Keyed(u), "client-fingerprint"))
           a9 == transport
           M == e ++ a1 ++ a2 ++ a3 ++ a4 ++ a5 ++ a6 ++ a7 ++ a8 ++ a9
<1>1. m = M
  BY DEF TrojanEntry, Keyed
<1>2. Get(Keyed(u), "type") = Some(<<"ws">>) => network = Some(<<"ws">>)
  <2>1. Some(<<"ws">>) \in {Some(<<t>>) : t \in {"ws", "grpc", "h2", "tcp"}}
    OBVIOUS
  <2>. QED BY <2>1
<1>3. /\ Names4(e, "trojan", DecodeAndTrim(u.fragment), u.host,
                   PortOrDefault(u.port, 443))
      /\ \A k : k \notin {"type", "name", "server", "port"} => Lacks(e, k)
  BY EntryGives
<1> HIDE DEF network, mix, ss, transport, e
<1>4. /\ Gives(a1, "password", Str(Decoded(u.auth[1])))
      /\ \A k : k # "password" => Lacks(a1, k)
  BY GivesKv
<1>5. /\ OptGives(a2, "network", network)
      /\ \A k : k # "network" => Lacks(a2, k)
  BY OptGivesFacts, LacksFacts, Zenon
<1>6. \A k : k # "alpn" => Lacks(a3, k)
  BY GivesKvIf, Zenon
<1>7. /\ OptGives(a4, "sni", Get(Keyed(u), "sni"))
      /\ \A k : k # "sni" => Lacks(a4, k)
  BY OptGivesFacts, LacksFacts, Zenon
<1>8. /\ FlagGives(a5, "skip-cert-verify", Keyed(u), "skip-cert-verify")
      /\ \A k : k # "skip-cert-verify" => Lacks(a5, k)
  BY FlagGivesFacts, LacksFacts, Zenon
<1>9. \A k : k # "fingerprint" => Lacks(a6, k)
  BY LacksFacts, Zenon
<1>10. \A k : k # "ss-opts" => Lacks(a7, k)
  <2>1. ss = <<>> \/ \E v : ss = Kv("ss-opts", v)
    BY DEF ss
  <2>. QED BY <2>1, GivesKv
<1>11. \A k : k # "client-fingerprint" => Lacks(a8, k)
  BY LacksFacts, Zenon
<1>12. Get(Keyed(u), "type") = Some(<<"ws">>) /\ IsSome(Get(Keyed(u), "path")) =>
        GivesIn(a9, "ws-opts", "path", Str(Get(Keyed(u), "path")[1]))
  <2>1. Get(Keyed(u), "type") = Some(<<"ws">>) =>
          transport = WsOpts(Get(Keyed(u), "host"), Get(Keyed(u), "path"), FALSE)
    <3>1. Some(<<"ws">>) # Some(<<"grpc">>)
      BY DEF Some
    <3>. QED BY <1>2, <3>1 DEF transport
  <2>. QED BY <2>1, WsGives, Zenon
<1> HIDE DEF a1, a2, a3, a4, a5, a6, a7, a8, a9
<1>13. Names4(M, "trojan", DecodeAndTrim(u.fragment), u.host,
                   PortOrDefault(u.port, 443))
  <2> DEFINE N(x) == Names4(x, "trojan", DecodeAndTrim(u.fragment), u.host,
                   PortOrDefault(u.port, 443))
  <2>1. N(e) /\ \A f, g : N(f) => N(f ++ g)
    BY <1>3, NamesOver
  <2> HIDE DEF N
  <2>2. N(M)
    BY <2>1, Zenon
  <2>. QED BY <2>2 DEF N
<1>14. Gives(M, "password", Str(Decoded(u.auth[1])))
  <2>1. Lacks(e, "password")
    BY <1>3, LacksFacts
  <2>2. Gives(e ++ a1, "password", Str(Decoded(u.auth[1])))
    BY <1>4, <2>1, GivesOver, Zenon
  <2>. QED BY <2>2, GivesOver, Zenon
<1>15. Get(Keyed(u), "type") = Some(<<"ws">>) =>
              OptGives(M, "network", Some(<<"ws">>))
  <2>1. Lacks(e ++ a1, "network")
    BY <1>3, <1>4, LacksFacts
  <2>2. Get(Keyed(u), "type") = Some(<<"ws">>) =>
              OptGives(e ++ a1 ++ a2, "network", network)
    BY <1>5, <2>1, OptGivesFacts, Zenon
  <2>3. Get(Keyed(u), "type") = Some(<<"ws">>) =>
              OptGives(M, "network", network)
    BY <2>2, OptGivesFacts, Zenon
  <2>. QED BY <2>3, <1>2
<1>16. OptGives(M, "sni", Get(Keyed(u), "sni"))
  <2>1. Lacks(e ++ a1 ++ a2 ++ a3, "sni")
    BY <1>3, <1>4, <1>5, <1>6, LacksFacts
  <2>2. OptGives(e ++ a1 ++ a2 ++ a3 ++ a4, "sni", Get(Keyed(u), "sni"))
    BY <1>7, <2>1, OptGivesFacts, Zenon
  <2>. QED BY <2>2, OptGivesFacts, Zenon
<1>17. FlagGives(M, "skip-cert-verify", Keyed(u), "skip-cert-verify")
  <2>1. Lacks(e ++ a1 ++ a2 ++ a3 ++ a4, "skip-cert-verify")
    BY <1>3, <1>4, <1>5, <1>6, <1>7, LacksFacts
  <2>2. FlagGives(e ++ a1 ++ a2 ++ a3 ++ a4 ++ a5, "skip-cert-verify",
          Keyed(u), "skip-cert-verify")
    BY <1>8, <2>1, FlagGivesFacts, Zenon
  <2>. QED BY <2>2, FlagGivesFacts, Zenon
<1>18. Get(Keyed(u), "type") = Some(<<"ws">>) /\ IsSome(Get(Keyed(u), "path")) =>
              GivesIn(M, "ws-opts", "path", Str(Get(Keyed(u), "path")[1]))
  <2>1. Lacks(e ++ a1 ++ a2 ++ a3 ++ a4 ++ a5 ++ a6 ++ a7 ++ a8, "ws-opts")
    BY <1>3, <1>4, <1>5, <1>6, <1>7, <1>8, <1>9, <1>10, <1>11, LacksFacts
  <2>2. Get(Keyed(u), "type") = Some(<<"ws">>) /\ IsSome(Get(Keyed(u), "path")) =>
              GivesIn(e ++ a1 ++ a2 ++ a3 ++ a4 ++ a5 ++ a6 ++ a7 ++ a8 ++ a9,
                  "ws-opts", "path", Str(Get(Keyed(u), "path")[1]))
    BY <1>12, <2>1, GivesInFacts, Zenon
  <2>. QED BY <2>2, GivesInFacts, Zenon
<1> HIDE DEF M
<1>. QED BY <1>1, <1>13, <1>14, <1>15, <1>16, <1>17, <1>18

(* What a vless entry has.                                                 *)
LEMMA VlessGives ==
  ASSUME NEW u, NEW port, NEW uuid, NEW m, m = VlessEntry(u, port, uuid)
  PROVE  /\ Names4(m, "vless", DecodeAndTrim(u.fragment), u.host, port)
         /\ Gives(m, "uuid", Str(uuid))
         /\ OptGives(m, "servername", Get(Keyed(u), "sni"))
         /\ OptGives(m, "client-fingerprint", Get(Keyed(u), "fp"))
         /\ Get(Keyed(u), "security") = Some(<<"reality">>) /\
            IsSome(Get(Keyed(u), "pbk")) =>
              GivesIn(m, "reality-opts", "public-key",
                      Str(Get(Keyed(u), "pbk")[1]))
         /\ Get(Keyed(u), "type") = Some(<<"ws">>) /\ ~Has(Keyed(u),
              "headerType") =>
              Gives(m, "network", Word("ws"))
         /\ Get(Keyed(u), "type") = Some(<<"ws">>) /\ ~Has(Keyed(u), "headerType")
            /\ IsSome(Get(Keyed(u), "path")) =>
              GivesIn(m, "ws-opts", "path", Str(Get(Keyed(u), "path")[1]))
<1> DEFINE name == OrElse(DecodeAndTrim(u.fragment),
                          GetEither(Keyed(u), "remarks", "remark"))
           security == Or(Get(Keyed(u), "security"), <<"none">>)
           network == IF Get(Keyed(u), "headerType") = Some(<<"http">>) THEN "http"
        ELSE IF Get(Keyed(u), "type") \in {Some(<<"websocket">>), Some(<<"ws">>),
                          Some(<<"httpupgrade">>)} THEN "ws"
        ELSE IF Get(Keyed(u), "type") \in {Some(<<t>>) : t \in {"http",
            "grpc", "h2", "xhttp"}}
             THEN Get(Keyed(u), "type")[1][1] ELSE "tcp"
           host == GetEither(Keyed(u), "host", "obfsParam")
           upgrade == Get(Keyed(u), "type") \in {Some(<<"ws">>),
               Some(<<"httpupgrade">>)}
           transport == CASE network = "ws" -> WsOpts(host, Get(Keyed(u),
               "path"), upgrade)
          [] network = "grpc" ->
               GrpcOpts(OrElse(Get(Keyed(u), "serviceName"),
                      Get(Keyed(u), "path")))
          [] network = "h2" -> H2Opts(host, Get(Keyed(u), "path"))
          [] network = "http" -> HttpOpts(host, OneOf(Get(Keyed(u), "path")))
          [] network = "xhttp" ->
               KvMap("xhttp-opts", KvOpt("host", host) ++ KvOpt("path",
                   Get(Keyed(u), "path"))
                                   ++ KvOpt("mode", Get(Keyed(u), "mode")))
          [] OTHER -> <<>>
           udp == Bool(TRUE)
           tls == security # <<"none">>
           sni == GetEither(Keyed(u), "sni", "peer")
           servername == IF tls THEN OrElse(sni, Get(Keyed(u), "host")) ELSE sni
           real == KvOpt("public-key", Get(Keyed(u), "pbk")) ++
                     KvOpt("short-id", Get(Keyed(u), "sid"))
           e == Entry("vless", name, "VLESS", u.host, port)
           a1 == Kv("uuid", Str(uuid))
           a2 == Kv("udp", udp)
           a3 == KvIf(Or(Get(Keyed(u), "encryption"), <<"none">>) # <<"none">>,
                      "encryption",
                      Str(Or(Get(Keyed(u), "encryption"), <<>>)))
           a4 == Kv("tls", Bool(tls))
           a5 == KvOpt("servername", servername)
           a6 == KvOpt("flow", VlessFlow(Get(Keyed(u), "flow")))
           a7 == KvOpt("client-fingerprint", Get(Keyed(u), "fp"))
           a8 == KvAlpn(Keyed(u))
           a9 == KvFlag(Keyed(u), "allowInsecure", "skip-cert-verify")
           a10 == IF security = <<"reality">> THEN KvMap("reality-opts", real)
                 ELSE <<>>
           a11 == Kv("network", Word(network))
           a12 == transport
           M == e ++ a1 ++ a2 ++ a3 ++ a4 ++ a5 ++ a6 ++ a7 ++ a8 ++ a9 ++
               a10 ++ a11 ++ a12
<1>1. m = M
  BY DEF VlessEntry, Keyed
<1>2. IsSome(DecodeAndTrim(u.fragment)) => name = DecodeAndTrim(u.fragment)
  BY DEF OrElse
<1>3. IsSome(Get(Keyed(u), "sni")) => servername = Get(Keyed(u), "sni")
  BY DEF OrElse, GetEither
<1>4. Get(Keyed(u), "type") = Some(<<"ws">>) /\ ~Has(Keyed(u),
        "headerType") => network = "ws"
  <2>1. None # Some(<<"http">>)
    BY DEF None, Some
  <2>. QED BY <2>1 DEF Get
<1>5. /\ Names4(e, "vless", name, u.host, port)
      /\ \A k : k \notin {"type", "name", "server", "port"} => Lacks(e, k)
  BY EntryGives
<1> HIDE DEF name, security, udp, network, host, upgrade, transport, tls, sni,
               servername, real, e
<1>6. /\ Gives(a1, "uuid", Str(uuid))
      /\ \A k : k # "uuid" => Lacks(a1, k)
  BY GivesKv
<1>7. \A k : k # "udp" => Lacks(a2, k)
  BY GivesKv
<1>8. \A k : k # "encryption" => Lacks(a3, k)
  <2>1. a3 = <<>> \/ \E v : a3 = Kv("encryption", v)
    BY DEF KvIf
  <2>. QED BY <2>1, GivesKv
<1>9. \A k : k # "tls" => Lacks(a4, k)
  BY GivesKv
<1>10. /\ OptGives(a5, "servername", servername)
      /\ \A k : k # "servername" => Lacks(a5, k)
  BY OptGivesFacts, LacksFacts, Zenon
<1>11. \A k : k # "flow" => Lacks(a6, k)
  BY LacksFacts, Zenon
<1>12. /\ OptGives(a7, "client-fingerprint", Get(Keyed(u), "fp"))
      /\ \A k : k # "client-fingerprint" => Lacks(a7, k)
  BY OptGivesFacts, LacksFacts, Zenon
<1>13. \A k : k # "alpn" => Lacks(a8, k)
  BY GivesKvIf, Zenon
<1>14. \A k : k # "skip-cert-verify" => Lacks(a9, k)
  BY LacksFacts, Zenon
<1>15. /\ \A k : k # "reality-opts" => Lacks(a10, k)
       /\ Get(Keyed(u), "security") = Some(<<"reality">>) /\
          IsSome(Get(Keyed(u), "pbk")) =>
            GivesIn(a10, "reality-opts", "public-key",
                    Str(Get(Keyed(u), "pbk")[1]))
  <2>1. \A k : k # "reality-opts" => Lacks(a10, k)
    <3>1. a10 = <<>> \/ \E v : a10 = Kv("reality-opts", v)
      BY DEF KvMap, KvIf
    <3>. QED BY <3>1, GivesKv
  <2>2. ASSUME Get(Keyed(u), "security") = Some(<<"reality">>),
               IsSome(Get(Keyed(u), "pbk"))
        PROVE  GivesIn(a10, "reality-opts", "public-key",
                       Str(Get(Keyed(u), "pbk")[1]))
    <3>1. Gives(KvOpt("public-key", Get(Keyed(u), "pbk")), "public-key",
                Str(Get(Keyed(u), "pbk")[1]))
      BY <2>2, OptGivesFacts DEF OptGives
    <3>2. Gives(real, "public-key", Str(Get(Keyed(u), "pbk")[1]))
      BY <3>1, GivesOver, Zenon DEF real
    <3>3. security = <<"reality">>
      BY <2>2, SomeFacts DEF security, Or, OrElse
    <3>. QED BY <3>2, <3>3, GivesInFacts
  <2>. QED BY <2>1, <2>2
<1>16. /\ Gives(a11, "network", Word(network))
      /\ \A k : k # "network" => Lacks(a11, k)
  BY GivesKv
<1>17. Get(Keyed(u), "type") = Some(<<"ws">>) /\ ~Has(Keyed(u), "headerType")
       /\ IsSome(Get(Keyed(u), "path")) =>
         GivesIn(a12, "ws-opts", "path", Str(Get(Keyed(u), "path")[1]))
  <2>1. network = "ws" => transport = WsOpts(host, Get(Keyed(u), "path"), upgrade)
    BY DEF transport
  <2>. QED BY <1>4, <2>1, WsGives, Zenon
<1> HIDE DEF a1, a2, a3, a4, a5, a6, a7, a8, a9, a10, a11, a12
<1>18. Names4(M, "vless", DecodeAndTrim(u.fragment), u.host, port)
  <2> DEFINE N(x) == Names4(x, "vless", name, u.host, port)
  <2>1. N(e) /\ \A f, g : N(f) => N(f ++ g)
    BY <1>5, NamesOver
  <2> HIDE DEF N
  <2>2. N(M)
    BY <2>1, Zenon
  <2>. QED BY <2>2, <1>2 DEF N, Names4
<1>19. Gives(M, "uuid", Str(uuid))
  <2>1. Lacks(e, "uuid")
    BY <1>5, LacksFacts
  <2>2. Gives(e ++ a1, "uuid", Str(uuid))
    BY <1>6, <2>1, GivesOver, Zenon
  <2>. QED BY <2>2, GivesOver, Zenon
<1>20. OptGives(M, "servername", Get(Keyed(u), "sni"))
  <2>1. Lacks(e ++ a1 ++ a2 ++ a3 ++ a4, "servername")
    BY <1>5, <1>6, <1>7, <1>8, <1>9, LacksFacts
  <2>2. OptGives(e ++ a1 ++ a2 ++ a3 ++ a4 ++ a5, "servername", servername)
    BY <1>10, <2>1, OptGivesFacts, Zenon
  <2>3. OptGives(M, "servername", servername)
    BY <2>2, OptGivesFacts, Zenon
  <2>. QED BY <2>3, <1>3 DEF OptGives
<1>21. OptGives(M, "client-fingerprint", Get(Keyed(u), "fp"))
  <2>1. Lacks(e ++ a1 ++ a2 ++ a3 ++ a4 ++ a5 ++ a6, "client-fingerprint")
    BY <1>5, <1>6, <1>7, <1>8, <1>9, <1>10, <1>11, LacksFacts
  <2>2. OptGives(e ++ a1 ++ a2 ++ a3 ++ a4 ++ a5 ++ a6 ++ a7,
          "client-fingerprint", Get(Keyed(u), "fp"))
    BY <1>12, <2>1, OptGivesFacts, Zenon
  <2>. QED BY <2>2, OptGivesFacts, Zenon
<1>22. Get(Keyed(u), "security") = Some(<<"reality">>) /\
            IsSome(Get(Keyed(u), "pbk")) =>
              GivesIn(M, "reality-opts", "public-key",
                      Str(Get(Keyed(u), "pbk")[1]))
  <2>1. Lacks(e ++ a1 ++ a2 ++ a3 ++ a4 ++ a5 ++ a6 ++ a7 ++ a8 ++ a9,
          "reality-opts")
    BY <1>5, <1>6, <1>7, <1>8, <1>9, <1>10, <1>11, <1>12, <1>13, <1>14, LacksFacts
  <2>2. Get(Keyed(u), "security") = Some(<<"reality">>) /\
            IsSome(Get(Keyed(u), "pbk")) =>
              GivesIn(e ++ a1 ++ a2 ++ a3 ++ a4 ++ a5 ++ a6 ++ a7 ++ a8 ++
                  a9 ++ a10, "reality-opts", "public-key",
                      Str(Get(Keyed(u), "pbk")[1]))
    BY <1>15, <2>1, GivesInFacts, Zenon
  <2>. QED BY <2>2, GivesInFacts, Zenon
<1>23. Get(Keyed(u), "type") = Some(<<"ws">>) /\ ~Has(Keyed(u), "headerType") =>
              Gives(M, "network", Word("ws"))
  <2>1. Lacks(e ++ a1 ++ a2 ++ a3 ++ a4 ++ a5 ++ a6 ++ a7 ++ a8 ++ a9 ++ a10,
          "network")
    BY <1>5, <1>6, <1>7, <1>8, <1>9, <1>10, <1>11, <1>12, <1>13, <1>14, <1>15,
         LacksFacts
  <2>2. Get(Keyed(u), "type") = Some(<<"ws">>) /\ ~Has(Keyed(u), "headerType") =>
              Gives(e ++ a1 ++ a2 ++ a3 ++ a4 ++ a5 ++ a6 ++ a7 ++ a8 ++ a9 ++
                  a10 ++ a11, "network", Word(network))
    BY <1>16, <2>1, GivesOver, Zenon
  <2>3. Get(Keyed(u), "type") = Some(<<"ws">>) /\ ~Has(Keyed(u), "headerType") =>
              Gives(M, "network", Word(network))
    BY <2>2, GivesOver, Zenon
  <2>. QED BY <2>3, <1>4
<1>24. Get(Keyed(u), "type") = Some(<<"ws">>) /\ ~Has(Keyed(u), "headerType")
            /\ IsSome(Get(Keyed(u), "path")) =>
              GivesIn(M, "ws-opts", "path", Str(Get(Keyed(u), "path")[1]))
  <2>1. Lacks(e ++ a1 ++ a2 ++ a3 ++ a4 ++ a5 ++ a6 ++ a7 ++ a8 ++ a9 ++
          a10 ++ a11, "ws-opts")
    BY <1>5, <1>6, <1>7, <1>8, <1>9, <1>10, <1>11, <1>12, <1>13, <1>14, <1>15,
         <1>16, LacksFacts
  <2>2. Get(Keyed(u), "type") = Some(<<"ws">>) /\ ~Has(Keyed(u), "headerType")
            /\ IsSome(Get(Keyed(u), "path")) =>
              GivesIn(e ++ a1 ++ a2 ++ a3 ++ a4 ++ a5 ++ a6 ++ a7 ++ a8 ++
                  a9 ++ a10 ++ a11 ++ a12, "ws-opts", "path",
                      Str(Get(Keyed(u), "path")[1]))
    BY <1>17, <2>1, GivesInFacts, Zenon
  <2>. QED BY <2>2, GivesInFacts, Zenon
<1> HIDE DEF M
<1>. QED BY <1>1, <1>18, <1>19, <1>20, <1>21, <1>22, <1>23, <1>24

(* What an http or socks5 entry has.                                       *)
LEMMA ProxyGives ==
  ASSUME NEW u, NEW type, NEW label, NEW m, m = ProxyEntry(type, label, u),
         NEW login, login = SplitOnce(Decoded(Or(u.auth, <<>>)), ":"),
         IsSome(login[2])
  PROVE  /\ Names4(m, type, DecodeAndTrim(u.fragment), u.host,
                   PortOrDefault(u.port, 443))
         /\ Gives(m, "username", Str(login[1]))
         /\ Gives(m, "password", Str(login[2][1]))
         /\ FlagGives(m, "tls", KeyedAny(u), "tls")
         /\ FlagGives(m, "skip-cert-verify", KeyedAny(u), "skip-cert-verify")
         /\ type = "socks5" => FlagGives(m, "udp", KeyedAny(u), "udp")
<1> DEFINE socks == IF type = "socks5" THEN KvFlag(KeyedAny(u), "udp",
             "udp") ELSE <<>>
           e == Entry(type, DecodeAndTrim(u.fragment), label, u.host,
                      PortOrDefault(u.port, 443))
           a1 == IF IsSome(login[2])
                 THEN Kv("username", Str(login[1])) ++
                      Kv("password", Str(login[2][1]))
                 ELSE <<>>
           a2 == KvFlag(KeyedAny(u), "tls", "tls")
           a3 == KvOpt("fingerprint", Get(KeyedAny(u), "fingerprint"))
           a4 == KvFlag(KeyedAny(u), "skip-cert-verify", "skip-cert-verify")
           a5 == KvOpt("ip-version", Get(KeyedAny(u), "ip-version"))
           a6 == socks
           M == e ++ a1 ++ a2 ++ a3 ++ a4 ++ a5 ++ a6
<1>1. m = M
  BY DEF ProxyEntry, KeyedAny
<1>2. /\ Names4(e, type, DecodeAndTrim(u.fragment), u.host,
                   PortOrDefault(u.port, 443))
      /\ \A k : k \notin {"type", "name", "server", "port"} => Lacks(e, k)
  BY EntryGives
<1> HIDE DEF socks, e
<1>3. /\ Gives(a1, "username", Str(login[1]))
      /\ Gives(a1, "password", Str(login[2][1]))
      /\ \A k : k \notin {"username", "password"} => Lacks(a1, k)
  <2> DEFINE x == Kv("username", Str(login[1]))
             y == Kv("password", Str(login[2][1]))
  <2>1. /\ Gives(x, "username", Str(login[1])) /\ Lacks(x, "password")
        /\ Gives(y, "password", Str(login[2][1]))
    BY GivesKv
  <2>2. \A k : k \notin {"username", "password"} => Lacks(x, k) /\ Lacks(y, k)
    BY GivesKv
  <2>3. a1 = x ++ y
    OBVIOUS
  <2> HIDE DEF x, y, a1
  <2>. QED BY <2>1, <2>2, <2>3, GivesOver
<1>4. /\ FlagGives(a2, "tls", KeyedAny(u), "tls")
      /\ \A k : k # "tls" => Lacks(a2, k)
  BY FlagGivesFacts, LacksFacts, Zenon
<1>5. \A k : k # "fingerprint" => Lacks(a3, k)
  BY LacksFacts, Zenon
<1>6. /\ FlagGives(a4, "skip-cert-verify", KeyedAny(u), "skip-cert-verify")
      /\ \A k : k # "skip-cert-verify" => Lacks(a4, k)
  BY FlagGivesFacts, LacksFacts, Zenon
<1>7. \A k : k # "ip-version" => Lacks(a5, k)
  BY LacksFacts, Zenon
<1>8. type = "socks5" => FlagGives(a6, "udp", KeyedAny(u), "udp")
  <2>1. type = "socks5" => a6 = KvFlag(KeyedAny(u), "udp", "udp")
    BY DEF socks
  <2> HIDE DEF a6
  <2>. QED BY <2>1, FlagGivesFacts, Zenon
<1> HIDE DEF a1, a2, a3, a4, a5, a6
<1>9. Names4(M, type, DecodeAndTrim(u.fragment), u.host,
                   PortOrDefault(u.port, 443))
  <2> DEFINE N(x) == Names4(x, type, DecodeAndTrim(u.fragment), u.host,
                   PortOrDefault(u.port, 443))
  <2>1. N(e) /\ \A f, g : N(f) => N(f ++ g)
    BY <1>2, NamesOver
  <2> HIDE DEF N
  <2>2. N(M)
    BY <2>1, Zenon
  <2>. QED BY <2>2 DEF N
<1>10. Gives(M, "username", Str(login[1]))
  <2>1. Lacks(e, "username")
    BY <1>2, LacksFacts
  <2>2. Gives(e ++ a1, "username", Str(login[1]))
    BY <1>3, <2>1, GivesOver, Zenon
  <2>. QED BY <2>2, GivesOver, Zenon
<1>11. Gives(M, "password", Str(login[2][1]))
  <2>1. Lacks(e, "password")
    BY <1>2, LacksFacts
  <2>2. Gives(e ++ a1, "password", Str(login[2][1]))
    BY <1>3, <2>1, GivesOver, Zenon
  <2>. QED BY <2>2, GivesOver, Zenon
<1>12. FlagGives(M, "tls", KeyedAny(u), "tls")
  <2>1. Lacks(e ++ a1, "tls")
    BY <1>2, <1>3, LacksFacts
  <2>2. FlagGives(e ++ a1 ++ a2, "tls", KeyedAny(u), "tls")
    BY <1>4, <2>1, FlagGivesFacts, Zenon
  <2>. QED BY <2>2, FlagGivesFacts, Zenon
<1>13. FlagGives(M, "skip-cert-verify", KeyedAny(u), "skip-cert-verify")
  <2>1. Lacks(e ++ a1 ++ a2 ++ a3, "skip-cert-verify")
    BY <1>2, <1>3, <1>4, <1>5, LacksFacts
  <2>2. FlagGives(e ++ a1 ++ a2 ++ a3 ++ a4, "skip-cert-verify", KeyedAny(u),
          "skip-cert-verify")
    BY <1>6, <2>1, FlagGivesFacts, Zenon
  <2>. QED BY <2>2, FlagGivesFacts, Zenon
<1>14. type = "socks5" => FlagGives(M, "udp", KeyedAny(u), "udp")
  <2>1. Lacks(e ++ a1 ++ a2 ++ a3 ++ a4 ++ a5, "udp")
    BY <1>2, <1>3, <1>4, <1>5, <1>6, <1>7, LacksFacts
  <2>2. type = "socks5" => FlagGives(e ++ a1 ++ a2 ++ a3 ++ a4 ++ a5 ++ a6,
          "udp", KeyedAny(u), "udp")
    BY <1>8, <2>1, FlagGivesFacts, Zenon
  <2>. QED BY <2>2, FlagGivesFacts, Zenon
<1> HIDE DEF M
<1>. QED BY <1>1, <1>9, <1>10, <1>11, <1>12, <1>13, <1>14

(* What a vmess entry has.                                                 *)
LEMMA VmessGives ==
  ASSUME NEW obj, NEW server, NEW port, NEW uuid, NEW m,
         m = VmessEntry(obj, server, port, uuid)
  PROVE  /\ Names4(m, "vmess", GetStr(obj, "ps"), server, port)
         /\ Gives(m, "uuid", Str(uuid))
         /\ Field(obj, "tls") = Word("tls") =>
              Gives(m, "tls", Bool(TRUE))
         /\ Field(obj, "tls") = Word("tls") =>
              OptGives(m, "servername", GetStr(obj, "sni"))
         /\ GetStr(obj, "net") = Some(<<"ws">>) /\ IsSome(GetStr(obj, "path")) =>
              GivesIn(m, "ws-opts", "path", Str(GetStr(obj, "path")[1]))
<1> DEFINE T(k) == GetStr(obj, k)
           tls == Field(obj, "tls") \in {Bool(TRUE), Num(1), Word("tls"),
                                       Word("1"), Word("true")}
           net == OrElse(T("net"), OrElse(T("obfs"), T("type")))
           network == IF net \in {Some(<<t>>) : t \in {"ws", "websocket",
               "httpupgrade"}}
                      THEN "ws"
                      ELSE IF net \in {Some(<<t>>) : t \in {"http", "grpc", "h2"}}
                      THEN net[1][1] ELSE "tcp"
           host == OrElse(T("host"), T("obfsParam"))
           up == net = Some(<<"httpupgrade">>)
           transport == CASE network = "ws" ->
               WsOpts(host, GetStr(obj, "path"), up)
          [] network = "grpc" -> GrpcOpts(GetStr(obj, "path"))
          [] network = "h2" -> H2Opts(host, GetStr(obj, "path"))
          [] network = "http" -> HttpOpts(host, OneOf(Some(Or(GetStr(obj,
               "path"), <<"/">>))))
          [] OTHER -> <<>>
           name == OrElse(T("ps"), OrElse(T("remarks"), T("remark")))
           servername == OrElse(T("sni"), IF network = "tcp" THEN None ELSE host)
           cipher == Str(Cipher(Some(Or(T("scy"), <<"auto">>))))
           alter == IF "num" \in DOMAIN Field(obj, "aid") THEN Field(obj, "aid")
                    ELSE Num(0)
           verify == Bool(~ParseBool(AnyStr(obj["verify_cert"])))
           e == Entry("vmess", name, "VMess", server, port)
           a1 == Kv("uuid", Str(uuid))
           a2 == Kv("cipher", cipher)
           a3 == Kv("alterId", alter)
           a4 == Kv("tls", Bool(tls))
           a5 == IF tls THEN KvOpt("servername", servername) ELSE <<>>
           a6 == IF "verify_cert" \in DOMAIN obj
                 THEN Kv("skip-cert-verify", verify) ELSE <<>>
           a7 == transport
           M == e ++ a1 ++ a2 ++ a3 ++ a4 ++ a5 ++ a6 ++ a7
<1>1. m = M
  BY DEF VmessEntry
<1>2. IsSome(T("ps")) => name = T("ps")
  BY DEF OrElse
<1>3. IsSome(T("sni")) => servername = T("sni")
  BY DEF OrElse
<1>4. T("net") = Some(<<"ws">>) => network = "ws"
  <2>1. T("net") = Some(<<"ws">>) => net = Some(<<"ws">>)
    BY SomeFacts DEF OrElse
  <2>2. Some(<<"ws">>) \in
          {Some(<<t>>) : t \in {"ws", "websocket", "httpupgrade"}}
    OBVIOUS
  <2> HIDE DEF net
  <2>. QED BY <2>1, <2>2
<1>5. Field(obj, "tls") = Word("tls") => tls = TRUE
  OBVIOUS
<1>6. /\ Names4(e, "vmess", name, server, port)
      /\ \A k : k \notin {"type", "name", "server", "port"} => Lacks(e, k)
  BY EntryGives
<1> HIDE DEF tls, net, up, network, host, transport, name, servername, cipher,
               alter, verify, e
<1>7. /\ Gives(a1, "uuid", Str(uuid))
      /\ \A k : k # "uuid" => Lacks(a1, k)
  BY GivesKv
<1>8. \A k : k # "cipher" => Lacks(a2, k)
  BY GivesKv
<1>9. \A k : k # "alterId" => Lacks(a3, k)
  BY GivesKv
<1>10. /\ Gives(a4, "tls", Bool(tls))
      /\ \A k : k # "tls" => Lacks(a4, k)
  BY GivesKv
<1>11. /\ Field(obj, "tls") = Word("tls") =>
           OptGives(a5, "servername", servername)
      /\ \A k : k # "servername" => Lacks(a5, k)
  <2>1. tls => a5 = KvOpt("servername", servername)
    OBVIOUS
  <2>2. a5 = <<>> \/ \E v : a5 = Kv("servername", v)
    BY DEF KvOpt
  <2> HIDE DEF a5
  <2>3. tls => OptGives(a5, "servername", servername)
    BY <2>1, OptGivesFacts, Zenon
  <2>. QED BY <1>5, <2>2, <2>3, GivesKv
<1>12. \A k : k # "skip-cert-verify" => Lacks(a6, k)
  <2>1. a6 = <<>> \/ \E v : a6 = Kv("skip-cert-verify", v)
    OBVIOUS
  <2>. QED BY <2>1, GivesKv
<1>13. GetStr(obj, "net") = Some(<<"ws">>) /\ IsSome(GetStr(obj, "path")) =>
        GivesIn(a7, "ws-opts", "path", Str(GetStr(obj, "path")[1]))
  <2>1. network = "ws" =>
          transport = WsOpts(host, GetStr(obj, "path"), up)
    BY DEF transport
  <2>. QED BY <1>4, <2>1, WsGives, Zenon
<1> HIDE DEF a1, a2, a3, a4, a5, a6, a7
<1>14. Names4(M, "vmess", GetStr(obj, "ps"), server, port)
  <2> DEFINE N(x) == Names4(x, "vmess", name, server, port)
  <2>1. N(e) /\ \A f, g : N(f) => N(f ++ g)
    BY <1>6, NamesOver
  <2> HIDE DEF N
  <2>2. N(M)
    BY <2>1, Zenon
  <2>. QED BY <2>2, <1>2 DEF N, Names4
<1>15. Gives(M, "uuid", Str(uuid))
  <2>1. Lacks(e, "uuid")
    BY <1>6, LacksFacts
  <2>2. Gives(e ++ a1, "uuid", Str(uuid))
    BY <1>7, <2>1, GivesOver, Zenon
  <2>. QED BY <2>2, GivesOver, Zenon
<1>16. Field(obj, "tls") = Word("tls") =>
              Gives(M, "tls", Bool(TRUE))
  <2>1. Lacks(e ++ a1 ++ a2 ++ a3, "tls")
    BY <1>6, <1>7, <1>8, <1>9, LacksFacts
  <2>2. Field(obj, "tls") = Word("tls") =>
              Gives(e ++ a1 ++ a2 ++ a3 ++ a4, "tls", Bool(tls))
    BY <1>10, <2>1, GivesOver, Zenon
  <2>3. Field(obj, "tls") = Word("tls") =>
              Gives(M, "tls", Bool(tls))
    BY <2>2, GivesOver, Zenon
  <2>. QED BY <2>3, <1>5
<1>17. Field(obj, "tls") = Word("tls") =>
              OptGives(M, "servername", GetStr(obj, "sni"))
  <2>1. Lacks(e ++ a1 ++ a2 ++ a3 ++ a4, "servername")
    BY <1>6, <1>7, <1>8, <1>9, <1>10, LacksFacts
  <2>2. Field(obj, "tls") = Word("tls") =>
              OptGives(e ++ a1 ++ a2 ++ a3 ++ a4 ++ a5, "servername", servername)
    BY <1>11, <2>1, OptGivesFacts, Zenon
  <2>3. Field(obj, "tls") = Word("tls") =>
              OptGives(M, "servername", servername)
    BY <2>2, OptGivesFacts, Zenon
  <2>. QED BY <2>3, <1>3 DEF OptGives
<1>18. GetStr(obj, "net") = Some(<<"ws">>) /\ IsSome(GetStr(obj, "path")) =>
              GivesIn(M, "ws-opts", "path", Str(GetStr(obj, "path")[1]))
  <2>1. Lacks(e ++ a1 ++ a2 ++ a3 ++ a4 ++ a5 ++ a6, "ws-opts")
    BY <1>6, <1>7, <1>8, <1>9, <1>10, <1>11, <1>12, LacksFacts
  <2>2. GetStr(obj, "net") = Some(<<"ws">>) /\ IsSome(GetStr(obj, "path")) =>
              GivesIn(e ++ a1 ++ a2 ++ a3 ++ a4 ++ a5 ++ a6 ++ a7, "ws-opts",
                  "path", Str(GetStr(obj, "path")[1]))
    BY <1>13, <2>1, GivesInFacts, Zenon
  <2>. QED BY <2>2, GivesInFacts, Zenon
<1> HIDE DEF M
<1>. QED BY <1>1, <1>14, <1>15, <1>16, <1>17, <1>18

(* What an ss entry has.                                                   *)
LEMMA SsGives ==
  ASSUME NEW q, NEW plugin, NEW name, NEW server, NEW port, NEW cipher,
         NEW password, ~IsSome(Get(q, "v2ray-plugin")),
         \A k \in {"type", "name", "server", "port", "cipher", "password"} :
           Lacks(plugin, k),
         NEW m, m = SsEntry(q, plugin, name, server, port, cipher, password)
  PROVE  /\ Names4(m, "ss", name, server, port)
         /\ Gives(m, "cipher", Str(Cipher(Some(cipher))))
         /\ Gives(m, "password", Str(password))
         /\ \A k \in {"plugin", "plugin-opts"} : \A v :
              Gives(plugin, k, v) => Gives(m, k, v)
<1> DEFINE v2ray == IF IsSome(Get(q, "v2ray-plugin"))
                    THEN DecodeBase64(Get(q, "v2ray-plugin")[1]) ELSE <<>>
           uot == Has(q, "uot") /\ BoolOrPresence(Get(q, "uot"))
           tfo == Has(q, "tfo") /\ BoolOrPresence(Get(q, "tfo"))
           yes == Bool(TRUE)
           f1 == KvIf(uot, "udp-over-tcp", yes)
           f2 == KvIf(tfo, "tfo", yes)
           f3 == IF Len(v2ray) = 1 /\ v2ray[1] \in DOMAIN Json
                 THEN Kv("plugin", Word("v2ray-plugin")) ++
                      Kv("plugin-opts", JsonToMapping[Json[v2ray[1]]])
                 ELSE <<>>
           e == Entry("ss", name, "SS", server, port)
           c == Kv("cipher", Str(Cipher(Some(cipher))))
           p == Kv("password", Str(password))
           M == f1 ++ f2 ++ f3 ++ plugin ++ e ++ c ++ p
<1>1. m = M
  BY DEF SsEntry
<1>2. f3 = <<>>
  <2>1. v2ray = <<>>
    OBVIOUS
  <2>2. Len(<<>>) # 1
    OBVIOUS
  <2>. QED BY <2>1, <2>2
<1>3. /\ Names4(e, "ss", name, server, port)
      /\ \A k : k \notin {"type", "name", "server", "port"} => Lacks(e, k)
  BY EntryGives
<1>4. /\ Gives(c, "cipher", Str(Cipher(Some(cipher))))
      /\ \A k : k # "cipher" => Lacks(c, k)
  BY GivesKv
<1>5. Gives(p, "password", Str(password))
  BY GivesKv
<1> HIDE DEF uot, tfo, yes
<1>6. \A k : k \notin {"udp-over-tcp", "tfo"} => Lacks(f1 ++ f2 ++ f3, k)
  <2>1. \A k : k # "udp-over-tcp" => Lacks(f1, k)
    <3>1. f1 = <<>> \/ f1 = Kv("udp-over-tcp", yes)
      BY DEF KvIf
    <3>. QED BY <3>1, GivesKv
  <2>2. \A k : k # "tfo" => Lacks(f2, k)
    <3>1. f2 = <<>> \/ f2 = Kv("tfo", yes)
      BY DEF KvIf
    <3>. QED BY <3>1, GivesKv
  <2>3. \A k : Lacks(f3, k)
    BY <1>2 DEF Lacks
  <2> HIDE DEF f1, f2, f3
  <2>. QED BY <2>1, <2>2, <2>3, LacksFacts
<1> HIDE DEF f1, f2, f3, e, c, p
<1> DEFINE b == f1 ++ f2 ++ f3 ++ plugin
<1>7. \A k \in {"type", "name", "server", "port", "cipher", "password"} :
        Lacks(b, k)
  BY <1>6, LacksFacts
<1>8. \A k \in {"plugin", "plugin-opts"} : \A v : Gives(plugin, k, v) =>
        Gives(b, k, v)
  BY <1>6, GivesOver
<1> HIDE DEF b
<1>9. M = b ++ e ++ c ++ p
  BY DEF b
<1>10. Names4(b ++ e, "ss", name, server, port)
  BY <1>3, <1>7, GivesOver DEF Names4
<1> HIDE DEF M
<1>11. Names4(m, "ss", name, server, port)
  <2> DEFINE N(x) == Names4(x, "ss", name, server, port)
  <2>1. N(b ++ e) /\ \A f, g : N(f) => N(f ++ g)
    BY <1>10, NamesOver
  <2> HIDE DEF N
  <2>2. N(b ++ e ++ c ++ p)
    BY <2>1, Zenon
  <2>. QED BY <1>1, <1>9, <2>2 DEF N
<1>12. Gives(m, "cipher", Str(Cipher(Some(cipher))))
  <2>1. Lacks(b ++ e, "cipher")
    BY <1>3, <1>7, LacksFacts
  <2>2. Gives(b ++ e ++ c, "cipher", Str(Cipher(Some(cipher))))
    BY <1>4, <2>1, GivesOver, Zenon
  <2>. QED BY <1>1, <1>9, <2>2, GivesOver
<1>13. Gives(m, "password", Str(password))
  <2>1. Lacks(b ++ e ++ c, "password")
    BY <1>3, <1>4, <1>7, LacksFacts
  <2>. QED BY <1>1, <1>5, <1>9, <2>1, GivesOver
<1>14. \A k \in {"plugin", "plugin-opts"} : \A v :
         Gives(plugin, k, v) => Gives(m, k, v)
  BY <1>1, <1>8, <1>9, GivesOver
<1>. QED BY <1>11, <1>12, <1>13, <1>14

(* The texts a plugin parameter is put together from.                      *)
LEMMA ConcatFive ==
  ASSUME NEW S, NEW p \in S, NEW c \in S, NEW k \in S, NEW q \in S, NEW x \in S
  PROVE  <<p>> \o <<c>> \o <<k, q, x>> = <<p, c, k, q, x>>
<1> DEFINE a == <<p>>
           b == <<k, q, x>>
           t == a \o <<c>> \o b
           u == <<p, c, k, q, x>>
<1>1. /\ a \in Seq(S) /\ Len(a) = 1 /\ a[1] = p
      /\ b \in Seq(S) /\ Len(b) = 3 /\ b[1] = k /\ b[2] = q /\ b[3] = x
      /\ u \in Seq(S) /\ Len(u) = 5 /\ u[1] = p /\ u[2] = c /\ u[3] = k
      /\ u[4] = q /\ u[5] = x
  OBVIOUS
<1> HIDE DEF a, b, u
<1>2. /\ t \in Seq(S) /\ Len(t) = Len(a) + 1 + Len(b)
      /\ t[Len(a) + 1] = c
      /\ \A i \in 1 .. Len(a) : t[i] = a[i]
      /\ \A i \in 1 .. Len(b) : t[Len(a) + 1 + i] = b[i]
  <2>1. a \in Seq(S) /\ b \in Seq(S) /\ c \in S
    BY <1>1
  <2>. QED BY <2>1, AroundFacts, SMTT(30)
<1> HIDE DEF t
<1>3. Len(t) = 5 /\ t[1] = p /\ t[2] = c /\ t[3] = k /\ t[4] = q /\ t[5] = x
  BY <1>1, <1>2
<1>4. \A i \in 1 .. 5 : t[i] = u[i]
  BY <1>1, <1>3
<1>5. t = u
  BY SeqEqual, <1>1, <1>2, <1>3, <1>4
<1>. QED BY <1>5 DEF t, u, a, b

LEMMA ConcatThree ==
  ASSUME NEW S, NEW k \in S, NEW q \in S, NEW x \in S
  PROVE  <<k>> \o <<q>> \o <<x>> = <<k, q, x>>
<1> DEFINE a == <<k>>
           b == <<x>>
           t == a \o <<q>> \o b
           u == <<k, q, x>>
<1>1. /\ a \in Seq(S) /\ Len(a) = 1 /\ a[1] = k
      /\ b \in Seq(S) /\ Len(b) = 1 /\ b[1] = x
      /\ u \in Seq(S) /\ Len(u) = 3 /\ u[1] = k /\ u[2] = q /\ u[3] = x
  OBVIOUS
<1> HIDE DEF a, b, u
<1>2. /\ t \in Seq(S) /\ Len(t) = Len(a) + 1 + Len(b)
      /\ t[Len(a) + 1] = q
      /\ \A i \in 1 .. Len(a) : t[i] = a[i]
      /\ \A i \in 1 .. Len(b) : t[Len(a) + 1 + i] = b[i]
  <2>1. a \in Seq(S) /\ b \in Seq(S) /\ q \in S
    BY <1>1
  <2>. QED BY <2>1, AroundFacts, SMTT(30)
<1> HIDE DEF t
<1>3. Len(t) = 3 /\ t[1] = k /\ t[2] = q /\ t[3] = x
  BY <1>1, <1>2
<1>4. \A i \in 1 .. 3 : t[i] = u[i]
  BY <1>1, <1>3
<1>5. t = u
  BY SeqEqual, <1>1, <1>2, <1>3, <1>4
<1>. QED BY <1>5 DEF t, u, a, b

LEMMA TailOfPair == \A a, b : Tail(<<a, b>>) = <<b>> /\ <<a, b>>[1] = a
OBVIOUS

LEMMA FreeTriple ==
  \A C, a, b, c : a \notin C /\ b \notin C /\ c \notin C => Free(<<a, b, c>>, C)
BY DEF Free

(* One option, and it is kept.                                             *)
LEMMA OneOption ==
  ASSUME NEW S, NEW k \in S, NEW x \in S, "=" \in S, Free(<<k>>, {"="})
  PROVE  LET opts == PluginOpts(<<<<k, "=", x>>>>)
         IN  <<k>> \in DOMAIN opts /\ opts[<<k>>] = <<x>>
<1> DEFINE o == <<k>>
           y == <<x>>
           b == <<k, "=", x>>
           parts == <<b>>
           kv == [i \in DOMAIN parts |-> SplitOnce(parts[i], "=")]
           es == [i \in DOMAIN kv |->
                    <<kv[i][1], IF Or(kv[i][2], <<>>) = <<>> THEN <<"true">>
                                ELSE kv[i][2][1]>>]
           I == {i \in DOMAIN kv : kv[i][1] # <<>> /\ IsSome(kv[i][2])}
           opts == PluginOpts(parts)
           Latest(key) == CHOOSE i \in I :
                            es[i][1] = key /\ \A j \in I : es[j][1] = key => j <= i
<1>1. opts = [key \in {es[i][1] : i \in I} |-> es[Latest(key)][2]]
  BY DEF PluginOpts, Inserted
<1>2. o # <<>> /\ y # <<>>
  OBVIOUS
<1>3. SplitOnce(b, "=") = <<o, Some(y)>>
  <2>1. o \in Seq(S) /\ y \in Seq(S)
    BY OneToken
  <2>3. o \o <<"=">> \o y = b
    BY ConcatThree, Zenon
  <2>2. Free(o, {"="})
    OBVIOUS
  <2> HIDE DEF o, y, b
  <2>4. SplitOnce(o \o <<"=">> \o y, "=") = <<o, Some(y)>>
    BY <2>1, <2>2, SplitTextFacts
  <2>. QED BY <2>3, <2>4
<1>4. DOMAIN parts = {1} /\ parts[1] = b
  OBVIOUS
<1> HIDE DEF o, y, b, parts
<1>5. DOMAIN kv = {1} /\ kv[1] = <<o, Some(y)>>
  BY <1>3, <1>4
<1> HIDE DEF kv
<1>6. kv[1][1] = o /\ kv[1][2] = Some(y)
  BY <1>5
<1>7. IsSome(kv[1][2]) /\ kv[1][2][1] = y /\ Or(kv[1][2], <<>>) = y
  BY <1>6, SomeFacts DEF Or, OrElse
<1>8. I = {1}
  BY <1>2, <1>5, <1>6, <1>7
<1>9. es[1] = <<o, y>>
  <2>1. es[1] = <<kv[1][1], IF Or(kv[1][2], <<>>) = <<>> THEN <<"true">>
                            ELSE kv[1][2][1]>>
    BY <1>5
  <2>. QED BY <1>2, <1>6, <1>7, <2>1
<1>10. es[1][1] = o /\ es[1][2] = y
  BY <1>9
<1> HIDE DEF es, I, opts
<1>11. o \in {es[i][1] : i \in I}
  BY <1>8, <1>10
<1>12. Latest(o) = 1
  BY <1>8, <1>10
<1>. QED BY <1>1, <1>10, <1>11, <1>12 DEF opts, o, y, parts, b

(* A text of five tokens, split at the second one.                         *)
LEMMA SplitFive ==
  ASSUME NEW S, NEW p \in S, NEW c \in S, NEW k \in S, NEW q \in S, NEW x \in S,
         p # c, k # c, q # c, x # c
  PROVE  Split(<<p, c, k, q, x>>, c) = <<<<p>>, <<k, q, x>>>>
<1> DEFINE a == <<p>>
           b == <<k, q, x>>
<1>1. a \in Seq(S) /\ b \in Seq(S)
  OBVIOUS
<1>2. Free(a, {c}) /\ Free(b, {c})
  BY FreeFacts, FreeTriple
<1>3. a \o <<c>> \o b = <<p, c, k, q, x>>
  <2>1. \A T : \A d, e, f, g, h \in T :
          <<d>> \o <<e>> \o <<f, g, h>> = <<d, e, f, g, h>>
    BY ConcatFive
  <2>. QED BY <2>1
<1> HIDE DEF a, b
<1>4. Split(a \o <<c>> \o b, c) = <<a, b>>
  BY <1>1, <1>2, SplitShort
<1>. QED BY <1>3, <1>4 DEF a, b

(* The plugin of the form obfs-local;obfs=mode.                            *)
LEMMA ObfsParts ==
  ASSUME NEW x, IsMode(x)
  PROVE  Split(ObfsLocal(x), ";") = <<<<"obfs-local">>, <<"obfs", "=", x>>>>
<1> DEFINE p == "obfs-local"
           c == ";"
           k == "obfs"
           q == "="
<1>1. x \in Tokens /\ x # c
  BY Zenon DEF IsMode, Tokens
<1>2. p \in Tokens /\ c \in Tokens /\ k \in Tokens /\ q \in Tokens
  BY Zenon DEF Tokens
<1>3. p # c /\ k # c /\ q # c
  BY Zenon
<1> HIDE DEF p, c, k, q
<1>4. Split(<<p, c, k, q, x>>, c) = <<<<p>>, <<k, q, x>>>>
  BY <1>1, <1>2, <1>3, SplitFive
<1>. QED BY <1>4, Zenon DEF ObfsLocal, p, c, k, q

LEMMA TokenEquals == "=" \in Tokens
BY Zenon DEF Tokens

LEMMA ModeIsToken == \A x : IsMode(x) => x \in Tokens
BY Zenon DEF IsMode, Tokens

LEMMA ObfsGives ==
  ASSUME NEW x, IsMode(x)
  PROVE  \E m : /\ SsPlugin(ObfsLocal(x)) = Ok(m)
                /\ Gives(m, "plugin", Word("obfs"))
                /\ GivesIn(m, "plugin-opts", "mode", Word(x))
                /\ \A k \in {"type", "name", "server", "port", "cipher",
                             "password"} : Lacks(m, k)
<1> DEFINE a == <<"obfs-local">>
           b == <<"obfs", "=", x>>
           parts == <<a, b>>
           opts == PluginOpts(Tail(parts))
           Opt(k) == IF <<k>> \in DOMAIN opts THEN Some(opts[<<k>>]) ELSE None
           mode == KvOpt("mode", Opt("obfs"))
           inner == mode ++ KvOpt("host", Opt("obfs-host"))
           word == Word("obfs")
           f == Kv("plugin", word)
           g == KvMap("plugin-opts", inner)
           m == f ++ g
<1>1. SsPlugin(ObfsLocal(x)) = PluginOf(parts)
  BY ObfsParts, Zenon DEF SsPlugin
<1>2. Tail(parts) = <<b>> /\ parts[1] = a
  BY TailOfPair
<1>3. <<"obfs">> \in DOMAIN opts /\ opts[<<"obfs">>] = <<x>>
  <2>1. /\ "obfs" \in Tokens /\ "=" \in Tokens /\ x \in Tokens
        /\ Free(<<"obfs">>, {"="})
    <3>1. "obfs" \in Tokens
      BY Zenon DEF Tokens
    <3>2. "obfs" \notin {"="}
      OBVIOUS
    <3>. QED BY <3>1, <3>2, ModeIsToken, TokenEquals, FreeFacts
  <2>2. LET os == PluginOpts(<<<<"obfs", "=", x>>>>)
        IN  <<"obfs">> \in DOMAIN os /\ os[<<"obfs">>] = <<x>>
    BY <2>1, OneOption
  <2>. QED BY <1>2, <2>2
<1>4. PluginOf(parts) = Ok(m)
  <2>1. a \in {<<"obfs-local">>, <<"simple-obfs">>}
    OBVIOUS
  <2>2. a # <<"v2ray-plugin">>
    OBVIOUS
  <2>. QED BY <1>2, <2>1, <2>2 DEF PluginOf
<1> HIDE DEF parts, opts
<1>5. GivesIn(g, "plugin-opts", "mode", Word(x))
  <2>1. Opt("obfs") = Some(<<x>>)
    BY <1>3
  <2>2. OptGives(mode, "mode", Opt("obfs"))
    <3> DEFINE o == Opt("obfs")
    <3> HIDE DEF o
    <3>1. OptGives(KvOpt("mode", o), "mode", o)
      BY OptGivesFacts, Zenon
    <3>. QED BY <3>1 DEF o
  <2> HIDE DEF Opt, mode
  <2>3. Gives(mode, "mode", Word(x))
    BY <2>1, <2>2, SomeFacts DEF OptGives, Word
  <2>4. Gives(inner, "mode", Word(x))
    BY <2>3, GivesOver, Zenon
  <2> HIDE DEF inner
  <2>. QED BY <2>4, GivesInFacts, Zenon
<1> HIDE DEF inner, word
<1>6. /\ Gives(f, "plugin", word)
      /\ \A k : k # "plugin" => Lacks(f, k)
  BY GivesKv
<1>7. \A k : k # "plugin-opts" => Lacks(g, k)
  <2> DEFINE v == Map(inner)
  <2>1. g = <<>> \/ g = Kv("plugin-opts", v)
    BY DEF KvMap, KvIf
  <2> HIDE DEF v, g
  <2>. QED BY <2>1, GivesKv
<1> HIDE DEF f, g
<1>8. Gives(m, "plugin", word)
  BY <1>6, GivesOver, Zenon
<1>9. GivesIn(m, "plugin-opts", "mode", Word(x))
  <2>1. Lacks(f, "plugin-opts")
    BY <1>6
  <2>. QED BY <1>5, <2>1, GivesInFacts, Zenon
<1>10. \A k \in {"type", "name", "server", "port", "cipher", "password"} :
         Lacks(m, k)
  BY <1>6, <1>7, LacksFacts
<1> HIDE DEF m
<1>. QED BY <1>1, <1>4, <1>8, <1>9, <1>10 DEF word

-----------------------------------------------------------------------------
(* From what an entry has to what its line says.                           *)

Tells(m, S) == \A saying \in S : Holds(m, saying)

LEMMA GivesHolds ==
  /\ \A m, k, v : Gives(m, k, v) => Tells(m, {<<<<k>>, v>>})
  /\ \A m, k, j, v : GivesIn(m, k, j, v) => Holds(m, <<<<k, j>>, v>>)
<1>1. ASSUME NEW m, NEW k, NEW v, Gives(m, k, v)
      PROVE  Tells(m, {<<<<k>>, v>>})
  <2> DEFINE s == <<<<k>>, v>>
  <2>1. s[1] = <<k>> /\ s[2] = v /\ <<k>>[1] = k /\ Len(<<k>>) = 1
    OBVIOUS
  <2> HIDE DEF s
  <2>2. Holds(m, s)
    BY <1>1, <2>1 DEF Holds, Gives
  <2>. QED BY <2>2 DEF s, Tells
<1>2. ASSUME NEW m, NEW k, NEW j, NEW v, GivesIn(m, k, j, v)
      PROVE  Holds(m, <<<<k, j>>, v>>)
  <2> DEFINE p == <<k, j>>
             s == <<p, v>>
  <2>1. s[1] = p /\ s[2] = v /\ p[1] = k /\ p[2] = j /\ Len(p) # 1
    OBVIOUS
  <2> HIDE DEF s, p
  <2>2. PICK x : Gives(m, k, Map(x)) /\ Gives(x, j, v)
    BY <1>2 DEF GivesIn
  <2>3. "map" \in DOMAIN Map(x) /\ Map(x).map = x
    BY DEF Map
  <2>4. Holds(m, s)
    BY <2>1, <2>2, <2>3 DEF Holds, Gives
  <2>. QED BY <2>4 DEF s, p
<1>. QED BY <1>1, <1>2

LEMMA TellsFacts ==
  /\ \A m, S, T : Tells(m, S) /\ Tells(m, T) => Tells(m, S \union T)
  /\ \A m : Tells(m, {})
  /\ \A m, k, o : OptGives(m, k, o) => Tells(m, Says(<<k>>, o))
  /\ \A m, k, q, j : FlagGives(m, k, q, j) => Tells(m, SaysSo(<<k>>, q, j))
  /\ \A m, k, j, o : (IsSome(o) => GivesIn(m, k, j, Str(o[1])))
                     => Tells(m, Says(<<k, j>>, o))
<1>1. /\ \A m, S, T : Tells(m, S) /\ Tells(m, T) => Tells(m, S \union T)
      /\ \A m : Tells(m, {})
  BY DEF Tells
<1>2. ASSUME NEW m, NEW k, NEW o, OptGives(m, k, o)
      PROVE  Tells(m, Says(<<k>>, o))
  <2>1. CASE IsSome(o)
    <3>1. Says(<<k>>, o) = {<<<<k>>, Str(o[1])>>}
      BY <2>1 DEF Says
    <3>2. Gives(m, k, Str(o[1]))
      BY <1>2, <2>1 DEF OptGives
    <3>. QED BY <3>1, <3>2, GivesHolds, Zenon
  <2>2. CASE ~IsSome(o)
    BY <1>1, <2>2 DEF Says
  <2>. QED BY <2>1, <2>2
<1>3. ASSUME NEW m, NEW k, NEW q, NEW j, FlagGives(m, k, q, j)
      PROVE  Tells(m, SaysSo(<<k>>, q, j))
  <2> DEFINE C == Has(q, j) /\ Get(q, j) \in {None, Some(<<"1">>), Some(<<"true">>)}
  <2>1. CASE C
    <3>1. SaysSo(<<k>>, q, j) = {<<<<k>>, Bool(TRUE)>>}
      BY <2>1 DEF SaysSo
    <3>2. BoolOrPresence(Get(q, j))
      BY <2>1 DEF BoolOrPresence, ParseBool, IsSome, Some, None
    <3>3. Gives(m, k, Bool(TRUE))
      BY <1>3, <2>1, <3>2 DEF FlagGives
    <3>. QED BY <3>1, <3>3, GivesHolds, Zenon
  <2>2. CASE ~C
    <3>1. SaysSo(<<k>>, q, j) = {}
      BY <2>2 DEF SaysSo
    <3>. QED BY <1>1, <3>1
  <2>. QED BY <2>1, <2>2
<1>4. ASSUME NEW m, NEW k, NEW j, NEW o,
             IsSome(o) => GivesIn(m, k, j, Str(o[1]))
      PROVE  Tells(m, Says(<<k, j>>, o))
  <2>1. CASE IsSome(o)
    <3>1. Says(<<k, j>>, o) = {<<<<k, j>>, Str(o[1])>>}
      BY <2>1 DEF Says
    <3>2. Holds(m, <<<<k, j>>, Str(o[1])>>)
      BY <1>4, <2>1, GivesHolds, Zenon
    <3>. QED BY <3>1, <3>2 DEF Tells
  <2>2. CASE ~IsSome(o)
    BY <1>1, <2>2 DEF Says
  <2>. QED BY <2>1, <2>2
<1>. QED BY <1>1, <1>2, <1>3, <1>4

(* What every line says.                                                   *)
LEMMA CommonTold ==
  ASSUME NEW n, NEW type, NEW m,
         Names4(m, type, DecodeAndTrim(n.name), n.host, Digits[n.port])
  PROVE  Tells(m, CommonSays(n, type))
<1> DEFINE a == <<<<"type">>, Word(type)>>
           b == <<<<"server">>, Str(n.host)>>
           c == <<<<"port">>, Num(Digits[n.port])>>
           d == IF IsSome(n.name) THEN Says(<<"name">>, DecodeAndTrim(n.name))
                ELSE {}
<1>1. Tells(m, {a}) /\ Tells(m, {b}) /\ Tells(m, {c})
  BY GivesHolds DEF Names4
<1>2. Tells(m, d)
  <2>1. OptGives(m, "name", DecodeAndTrim(n.name))
    BY DEF Names4, OptGives
  <2>2. Tells(m, Says(<<"name">>, DecodeAndTrim(n.name)))
    BY <2>1, TellsFacts, Zenon
  <2>. QED BY <2>2, TellsFacts
<1>3. CommonSays(n, type) = {a, b, c} \union d
  BY DEF CommonSays
<1> HIDE DEF a, b, c, d
<1>. QED BY <1>1, <1>2, <1>3 DEF Tells

(* The parts of a line, as the converters find them.                       *)
PartsOf(n) ==
  [auth |-> Some(n.user), host |-> n.host, port |-> Some(<<n.port>>),
   query |-> QueryOf(n), fragment |-> n.name]

LEMMA PartsFacts ==
  ASSUME NEW n, UrlParts(n)
  PROVE  LET u == PartsOf(n)
         IN  /\ Keyed(u) = Params(n) /\ KeyedAny(u) = Params(n)
             /\ u.host = n.host /\ u.host # <<>> /\ u.fragment = n.name
             /\ IsSome(u.auth) /\ u.auth[1] = n.user /\ Or(u.auth, <<>>) = n.user
             /\ IsSome(u.port) /\ u.port[1] = <<n.port>>
             /\ PortOrDefault(u.port, 443) = Digits[n.port]
             /\ RequiredPort(<<n.port>>) = Some(Digits[n.port])
             /\ IsSome(RequiredPort(<<n.port>>))
<1> DEFINE u == PartsOf(n)
<1>1. /\ u.auth = Some(n.user) /\ u.host = n.host /\ u.port = Some(<<n.port>>)
      /\ u.query = QueryOf(n) /\ u.fragment = n.name
  BY DEF PartsOf
<1>2. n.host # <<>> /\ n.port \in DOMAIN Digits /\ Digits[n.port] \in Ports
  BY DEF UrlParts
<1> HIDE DEF u
<1>3. Keyed(u) = Params(n)
  <2>1. CASE n.params # <<>>
    BY <1>1, <2>1, ParametersFacts DEF Keyed, QueryOf
  <2>2. CASE n.params = <<>>
    BY <1>1, <2>2, ParametersFacts DEF Keyed, QueryOf
  <2>. QED BY <2>1, <2>2
<1>4. KeyedAny(u) = Params(n)
  <2>1. CASE n.params # <<>>
    <3>1. Or(u.query, <<>>) = n.query
      BY <1>1, <2>1, SomeFacts DEF QueryOf, Or, OrElse
    <3>. QED BY <2>1, <3>1, ParametersFacts DEF KeyedAny
  <2>2. CASE n.params = <<>>
    <3>1. u.query = None
      BY <1>1, <2>2 DEF QueryOf
    <3>2. Or(None, <<>>) = <<>>
      BY SomeFacts DEF Or, OrElse, IsSome
    <3>. QED BY <2>2, <3>1, <3>2, ParametersFacts DEF KeyedAny
  <2>. QED BY <2>1, <2>2
<1>5. RequiredPort(<<n.port>>) = Some(Digits[n.port])
  <2>1. <<n.port>>[1] = n.port /\ Len(<<n.port>>) = 1
    OBVIOUS
  <2>. QED BY <1>2, <2>1 DEF RequiredPort, IsNumber
<1>6. IsSome(u.auth) /\ u.auth[1] = n.user /\ Or(u.auth, <<>>) = n.user
  BY <1>1, SomeFacts DEF Or, OrElse
<1>7. IsSome(u.port) /\ u.port[1] = <<n.port>>
  BY <1>1, SomeFacts
<1>8. IsSome(RequiredPort(<<n.port>>))
  BY <1>5, SomeFacts
<1>9. PortOrDefault(u.port, 443) = Digits[n.port]
  <2>1. Or(Some(Digits[n.port]), 443) = Digits[n.port]
    BY SomeFacts DEF Or, OrElse
  <2>. QED BY <1>5, <1>7, <2>1 DEF PortOrDefault
<1>. QED BY <1>1, <1>2, <1>3, <1>4, <1>5, <1>6, <1>7, <1>8, <1>9 DEF u

LEMMA ParsedParts ==
  ASSUME NEW n, UrlParts(n), ~IsSome(n.whole)
  PROVE  /\ ParseUrlLike(UrlText(n)) = Some(PartsOf(n))
         /\ IsSome(ParseUrlLike(UrlText(n)))
         /\ ParseUrlLike(UrlText(n))[1] = PartsOf(n)
         /\ UrlText(n) # <<>>
<1>1. ParseUrlLike(UrlText(n)) = Some(PartsOf(n)) /\ UrlText(n) # <<>>
  BY Parsed DEF PartsOf
<1>. QED BY <1>1, SomeFacts

(* What a line says, its entry has: hysteria2.                             *)
LEMMA Hysteria2Told ==
  ASSUME NEW n, UrlParts(n), ~IsSome(n.whole), Decoded(n.user) = n.said
  PROVE  \E m : /\ Hysteria2(UrlText(n)) = Ok(m)
                /\ Tells(m, CommonSays(n, "hysteria2") \union Hysteria2Says(n))
<1> DEFINE u == PartsOf(n)
           q == Params(n)
           m == Hysteria2Entry(u)
<1>1. /\ Keyed(u) = q /\ u.host = n.host /\ u.fragment = n.name
      /\ IsSome(u.auth) /\ u.auth[1] = n.user
      /\ PortOrDefault(u.port, 443) = Digits[n.port]
  BY PartsFacts
<1>2. /\ IsSome(ParseUrlLike(UrlText(n))) /\ ParseUrlLike(UrlText(n))[1] = u
  BY ParsedParts
<1> HIDE DEF u
<1>3. Hysteria2(UrlText(n)) = Ok(m)
  BY <1>1, <1>2 DEF Hysteria2
<1>4. /\ Names4(m, "hysteria2", DecodeAndTrim(n.name), n.host, Digits[n.port])
      /\ Gives(m, "password", Str(n.said))
      /\ OptGives(m, "sni", Get(q, "sni"))
      /\ OptGives(m, "obfs-password", Get(q, "obfs-password"))
      /\ FlagGives(m, "skip-cert-verify", q, "insecure")
  BY <1>1, Hysteria2Gives DEF Keyed
<1> HIDE DEF m
<1>5. /\ Tells(m, CommonSays(n, "hysteria2"))
      /\ Tells(m, {<<<<"password">>, Str(n.said)>>})
      /\ Tells(m, Says(<<"sni">>, Get(q, "sni")))
      /\ Tells(m, Says(<<"obfs-password">>, Get(q, "obfs-password")))
      /\ Tells(m, SaysSo(<<"skip-cert-verify">>, q, "insecure"))
  BY <1>4, CommonTold, GivesHolds, TellsFacts, Zenon
<1>6. Tells(m, Hysteria2Says(n))
  BY <1>5, TellsFacts, Zenon DEF Hysteria2Says
<1>7. Tells(m, CommonSays(n, "hysteria2") \union Hysteria2Says(n))
  BY <1>5, <1>6, TellsFacts, Zenon
<1>. QED BY <1>3, <1>7

LEMMA WsTold ==
  ASSUME NEW m, NEW q,
         Get(q, "type") = Some(<<"ws">>) => Gives(m, "network", Word("ws")),
         Get(q, "type") = Some(<<"ws">>) /\ IsSome(Get(q, "path")) =>
           GivesIn(m, "ws-opts", "path", Str(Get(q, "path")[1]))
  PROVE  Tells(m, SaysWs(q))
<1>1. CASE Get(q, "type") = Some(<<"ws">>)
  <2>1. Tells(m, {<<<<"network">>, Word("ws")>>})
    BY <1>1, GivesHolds, Zenon
  <2>2. Tells(m, Says(<<"ws-opts", "path">>, Get(q, "path")))
    BY <1>1, TellsFacts, Zenon
  <2>3. SaysWs(q) = {<<<<"network">>, Word("ws")>>}
                    \union Says(<<"ws-opts", "path">>, Get(q, "path"))
    BY <1>1 DEF SaysWs
  <2>4. Tells(m, {<<<<"network">>, Word("ws")>>}
                 \union Says(<<"ws-opts", "path">>, Get(q, "path")))
    BY <2>1, <2>2, TellsFacts, Zenon
  <2>. QED BY <2>3, <2>4
<1>2. CASE ~(Get(q, "type") = Some(<<"ws">>))
  <2>1. SaysWs(q) = {}
    BY <1>2 DEF SaysWs
  <2>. QED BY <2>1, TellsFacts
<1>. QED BY <1>1, <1>2

(* What a line says, its entry has: trojan.                                *)
LEMMA TrojanTold ==
  ASSUME NEW n, UrlParts(n), ~IsSome(n.whole), Decoded(n.user) = n.said
  PROVE  \E m : /\ Trojan(UrlText(n)) = Ok(m)
                /\ Tells(m, CommonSays(n, "trojan") \union TrojanSays(n))
<1> DEFINE u == PartsOf(n)
           q == Params(n)
           m == TrojanEntry(u)
<1>1. /\ Keyed(u) = q /\ u.host = n.host /\ u.fragment = n.name
      /\ IsSome(u.auth) /\ u.auth[1] = n.user
      /\ PortOrDefault(u.port, 443) = Digits[n.port]
  BY PartsFacts
<1>2. /\ IsSome(ParseUrlLike(UrlText(n))) /\ ParseUrlLike(UrlText(n))[1] = u
  BY ParsedParts
<1> HIDE DEF u
<1>3. Trojan(UrlText(n)) = Ok(m)
  BY <1>1, <1>2 DEF Trojan
<1> HIDE DEF m
<1>4. /\ Names4(m, "trojan", DecodeAndTrim(n.name), n.host, Digits[n.port])
      /\ Gives(m, "password", Str(n.said))
      /\ OptGives(m, "sni", Get(q, "sni"))
      /\ FlagGives(m, "skip-cert-verify", q, "skip-cert-verify")
      /\ Get(q, "type") = Some(<<"ws">>) =>
           OptGives(m, "network", Some(<<"ws">>))
      /\ Get(q, "type") = Some(<<"ws">>) /\ IsSome(Get(q, "path")) =>
           GivesIn(m, "ws-opts", "path", Str(Get(q, "path")[1]))
  <2>1. m = TrojanEntry(u)
    BY DEF m
  <2>. QED BY <1>1, <2>1, TrojanGives
<1> HIDE DEF q
<1>5. Get(q, "type") = Some(<<"ws">>) => Gives(m, "network", Word("ws"))
  BY <1>4, SomeFacts DEF OptGives, Word
<1>6. /\ Tells(m, CommonSays(n, "trojan"))
      /\ Tells(m, {<<<<"password">>, Str(n.said)>>})
      /\ Tells(m, Says(<<"sni">>, Get(q, "sni")))
      /\ Tells(m, SaysSo(<<"skip-cert-verify">>, q, "skip-cert-verify"))
  BY <1>4, CommonTold, GivesHolds, TellsFacts, Zenon
<1>7. Tells(m, SaysWs(q))
  BY <1>4, <1>5, WsTold
<1>8. Tells(m, TrojanSays(n))
  BY <1>6, <1>7, TellsFacts, Zenon DEF TrojanSays, q
<1>9. Tells(m, CommonSays(n, "trojan") \union TrojanSays(n))
  BY <1>6, <1>8, TellsFacts, Zenon
<1>. QED BY <1>3, <1>9

(* What a line says, its entry has: vless.                                 *)
LEMMA VlessTold ==
  ASSUME NEW n, UrlParts(n), ~IsSome(n.whole), Decoded(n.user) = n.said,
         n.said # <<>>
  PROVE  \E m : /\ Vless(UrlText(n)) = Ok(m)
                /\ Tells(m, CommonSays(n, "vless") \union VlessSays(n))
<1> DEFINE u == PartsOf(n)
           q == Params(n)
           m == VlessEntry(u, Digits[n.port], n.said)
<1>1. /\ Keyed(u) = q /\ u.host = n.host /\ u.host # <<>>
      /\ u.fragment = n.name
      /\ Or(u.auth, <<>>) = n.user /\ IsSome(u.port) /\ u.port[1] = <<n.port>>
      /\ RequiredPort(<<n.port>>) = Some(Digits[n.port])
      /\ IsSome(RequiredPort(<<n.port>>))
  BY PartsFacts
<1>2. /\ IsSome(ParseUrlLike(UrlText(n))) /\ ParseUrlLike(UrlText(n))[1] = u
  BY ParsedParts
<1> HIDE DEF u
<1>3. Vless(UrlText(n)) = Ok(m)
  <2>1. Some(Digits[n.port])[1] = Digits[n.port]
    BY SomeFacts
  <2>. QED BY <1>1, <1>2, <2>1 DEF Vless
<1> HIDE DEF m
<1>4. /\ Names4(m, "vless", DecodeAndTrim(n.name), n.host, Digits[n.port])
      /\ Gives(m, "uuid", Str(n.said))
      /\ OptGives(m, "servername", Get(q, "sni"))
      /\ OptGives(m, "client-fingerprint", Get(q, "fp"))
      /\ Get(q, "security") = Some(<<"reality">>) /\ IsSome(Get(q, "pbk")) =>
           GivesIn(m, "reality-opts", "public-key", Str(Get(q, "pbk")[1]))
      /\ Get(q, "type") = Some(<<"ws">>) /\ ~Has(q, "headerType") =>
           Gives(m, "network", Word("ws"))
      /\ Get(q, "type") = Some(<<"ws">>) /\ ~Has(q, "headerType")
         /\ IsSome(Get(q, "path")) =>
           GivesIn(m, "ws-opts", "path", Str(Get(q, "path")[1]))
  <2>1. m = VlessEntry(u, Digits[n.port], n.said)
    BY DEF m
  <2>. QED BY <1>1, <2>1, VlessGives
<1> HIDE DEF q
<1>5. /\ Tells(m, CommonSays(n, "vless"))
      /\ Tells(m, {<<<<"uuid">>, Str(n.said)>>})
      /\ Tells(m, Says(<<"servername">>, Get(q, "sni")))
      /\ Tells(m, Says(<<"client-fingerprint">>, Get(q, "fp")))
  BY <1>4, CommonTold, GivesHolds, TellsFacts, Zenon
<1> DEFINE W == IF Has(q, "headerType") THEN {} ELSE SaysWs(q)
           R == IF Get(q, "security") = Some(<<"reality">>)
                THEN Says(<<"reality-opts", "public-key">>, Get(q, "pbk"))
                ELSE {}
<1>6. Tells(m, W)
  <2>1. CASE Has(q, "headerType")
    BY <2>1, TellsFacts
  <2>2. CASE ~Has(q, "headerType")
    BY <1>4, <2>2, WsTold
  <2>. QED BY <2>1, <2>2
<1>7. Tells(m, R)
  <2>1. CASE Get(q, "security") = Some(<<"reality">>)
    <3>1. R = Says(<<"reality-opts", "public-key">>, Get(q, "pbk"))
      BY <2>1
    <3>. QED BY <1>4, <2>1, <3>1, TellsFacts, Zenon
  <2>2. CASE ~(Get(q, "security") = Some(<<"reality">>))
    BY <2>2, TellsFacts
  <2>. QED BY <2>1, <2>2
<1>8. VlessSays(n) = {<<<<"uuid">>, Str(n.said)>>}
         \union Says(<<"servername">>, Get(q, "sni"))
         \union Says(<<"client-fingerprint">>, Get(q, "fp"))
         \union W \union R
  BY DEF VlessSays, q
<1> HIDE DEF W, R
<1>9. Tells(m, VlessSays(n))
  <2>1. Tells(m, {<<<<"uuid">>, Str(n.said)>>}
         \union Says(<<"servername">>, Get(q, "sni"))
         \union Says(<<"client-fingerprint">>, Get(q, "fp"))
         \union W \union R)
    BY <1>5, <1>6, <1>7, TellsFacts, Zenon
  <2>. QED BY <1>8, <2>1
<1>10. Tells(m, CommonSays(n, "vless") \union VlessSays(n))
  BY <1>5, <1>9, TellsFacts, Zenon
<1>. QED BY <1>3, <1>10

(* What a line says, its entry has: http and socks5.                       *)
LEMMA LoginCuts ==
  ASSUME NEW said, IsLogin(said)
  PROVE  /\ SplitOnce(Login(said), ":") = <<said[1], Some(said[2])>>
         /\ said[2] # <<>>
<1>1. /\ said[1] \in Seq(Tokens) /\ said[2] \in Seq(Tokens)
      /\ Free(said[1], {":"}) /\ said[2] # <<>>
  BY TextTokens DEF IsLogin
<1>2. ":" \in Tokens
  BY TokenFacts
<1>. QED BY <1>1, <1>2, SplitTextFacts DEF Login

LEMMA ProxyTold ==
  ASSUME NEW n, UrlParts(n), ~IsSome(n.whole), NEW type, NEW label,
         n.scheme = type, IsLogin(n.said), Decoded(n.user) = Login(n.said)
  PROVE  \E m : /\ Proxy(type, label, UrlText(n)) = Ok(m)
                /\ Tells(m, CommonSays(n, type) \union ProxySays(n))
<1> DEFINE u == PartsOf(n)
           q == Params(n)
           m == ProxyEntry(type, label, u)
           login == SplitOnce(Decoded(Or(u.auth, <<>>)), ":")
<1>1. /\ KeyedAny(u) = q /\ u.host = n.host /\ u.fragment = n.name
      /\ Or(u.auth, <<>>) = n.user
      /\ PortOrDefault(u.port, 443) = Digits[n.port]
  BY PartsFacts
<1>2. /\ IsSome(ParseUrlLike(UrlText(n))) /\ ParseUrlLike(UrlText(n))[1] = u
  BY ParsedParts
<1> HIDE DEF u
<1>3. Proxy(type, label, UrlText(n)) = Ok(m)
  BY <1>2 DEF Proxy
<1>4. /\ IsSome(login[2]) /\ login[1] = n.said[1] /\ login[2][1] = n.said[2]
  <2>1. SplitOnce(Login(n.said), ":") = <<n.said[1], Some(n.said[2])>>
    BY LoginCuts
  <2>2. login = <<n.said[1], Some(n.said[2])>>
    BY <1>1, <2>1
  <2>. QED BY <2>2, SomeFacts
<1> HIDE DEF m
<1>5. /\ Names4(m, type, DecodeAndTrim(n.name), n.host, Digits[n.port])
      /\ Gives(m, "username", Str(n.said[1]))
      /\ Gives(m, "password", Str(n.said[2]))
      /\ FlagGives(m, "tls", q, "tls")
      /\ FlagGives(m, "skip-cert-verify", q, "skip-cert-verify")
      /\ type = "socks5" => FlagGives(m, "udp", q, "udp")
  <2>1. m = ProxyEntry(type, label, u)
    BY DEF m
  <2>2. login = SplitOnce(Decoded(Or(u.auth, <<>>)), ":")
    OBVIOUS
  <2> HIDE DEF login
  <2>3. /\ Names4(m, type, DecodeAndTrim(u.fragment), u.host,
                  PortOrDefault(u.port, 443))
        /\ Gives(m, "username", Str(login[1]))
        /\ Gives(m, "password", Str(login[2][1]))
        /\ FlagGives(m, "tls", KeyedAny(u), "tls")
        /\ FlagGives(m, "skip-cert-verify", KeyedAny(u), "skip-cert-verify")
        /\ type = "socks5" => FlagGives(m, "udp", KeyedAny(u), "udp")
    BY <1>4, <2>1, <2>2, ProxyGives
  <2>. QED BY <1>1, <1>4, <2>3
<1> HIDE DEF q
<1>6. /\ Tells(m, CommonSays(n, type))
      /\ Tells(m, {<<<<"username">>, Str(n.said[1])>>})
      /\ Tells(m, {<<<<"password">>, Str(n.said[2])>>})
      /\ Tells(m, SaysSo(<<"tls">>, q, "tls"))
      /\ Tells(m, SaysSo(<<"skip-cert-verify">>, q, "skip-cert-verify"))
      /\ type = "socks5" => Tells(m, SaysSo(<<"udp">>, q, "udp"))
  BY <1>5, CommonTold, GivesHolds, TellsFacts, Zenon
<1> DEFINE U == IF n.scheme = "socks5" THEN SaysSo(<<"udp">>, q, "udp") ELSE {}
           x == <<<<"username">>, Str(n.said[1])>>
           y == <<<<"password">>, Str(n.said[2])>>
<1>7. Tells(m, U)
  <2>1. CASE type = "socks5"
    BY <1>6, <2>1
  <2>2. CASE type # "socks5"
    BY <2>2, TellsFacts
  <2>. QED BY <2>1, <2>2
<1>8. ProxySays(n) = {x, y}
         \union SaysSo(<<"tls">>, q, "tls")
         \union SaysSo(<<"skip-cert-verify">>, q, "skip-cert-verify")
         \union U
  BY DEF ProxySays, q
<1>9. Tells(m, {x}) /\ Tells(m, {y})
  BY <1>6
<1> HIDE DEF U, x, y
<1>10. Tells(m, {x, y})
  BY <1>9 DEF Tells
<1>11. Tells(m, ProxySays(n))
  <2>1. Tells(m, {x, y}
         \union SaysSo(<<"tls">>, q, "tls")
         \union SaysSo(<<"skip-cert-verify">>, q, "skip-cert-verify")
         \union U)
    BY <1>6, <1>7, <1>10, TellsFacts, Zenon
  <2>. QED BY <1>8, <2>1
<1>12. Tells(m, CommonSays(n, type) \union ProxySays(n))
  BY <1>6, <1>11, TellsFacts, Zenon
<1>. QED BY <1>3, <1>12

(* ss: its address, with or without a slash after it.                      *)
LEMMA SsAddress ==
  ASSUME NEW n, UrlParts(n), NEW slash, slash \in {<<>>, <<"/">>}
  PROVE  LET main == Address(n) \o slash
             at == SplitLast(main, "@")
         IN  /\ Contains(main, "@") /\ main # <<>> /\ main \in Seq(Tokens)
             /\ IsSome(at[2]) /\ at[1] = n.user
             /\ SplitLast(Split(at[2][1], "/")[1], ":")
                  = <<Bracketed(n.host), Some(<<n.port>>)>>
<1> DEFINE A == Address(n)
           hp == HostAndPort(n)
           u == n.user
           main == A \o slash
           at == SplitLast(main, "@")
           b == hp \o slash
<1>1. /\ A \in Seq(Tokens) /\ hp \in Seq(Tokens) /\ A = u \o <<"@">> \o hp
      /\ Free(hp, {"@", "/", "?", "#"})
      /\ SplitLast(hp, ":") = <<Bracketed(n.host), Some(<<n.port>>)>>
      /\ Len(A) > 0 /\ Contains(A, "@")
  BY AddressFacts
<1>2. u \in Seq(Tokens)
  BY UrlTokens
<1>3. /\ <<"@">> \in Seq(Tokens) /\ <<"/">> \in Seq(Tokens)
      /\ <<>> \in Seq(Tokens) /\ "@" \in Tokens /\ "/" \in Tokens
  BY TokenFacts, OneToken
<1>4. slash \in Seq(Tokens) /\ Free(slash, {"@"})
  <2>1. "/" \notin {"@"}
    OBVIOUS
  <2>2. Free(<<"/">>, {"@"}) /\ Free(<<>>, {"@"})
    BY <2>1, FreeFacts, Zenon
  <2>. QED BY <1>3, <2>2
<1>5. Free(hp, {"@"}) /\ Free(hp, {"/"})
  BY <1>1, FreeOfFewer
<1> HIDE DEF A, hp, u
<1>6. b \in Seq(Tokens) /\ Free(b, {"@"})
  BY <1>1, <1>4, <1>5, ConcatProperties, FreeFacts
<1>7. main = u \o <<"@">> \o b
  <2> DEFINE w == u \o <<"@">>
  <2>1. w \in Seq(Tokens)
    BY <1>2, <1>3, ConcatProperties
  <2>2. A = w \o hp
    BY <1>1
  <2> HIDE DEF w
  <2>3. (w \o hp) \o slash = w \o (hp \o slash)
    BY <1>1, <1>4, <2>1, ConcatAssociative
  <2>. QED BY <2>2, <2>3 DEF w
<1>8. main \in Seq(Tokens) /\ Len(main) = Len(A) + Len(slash)
  BY <1>1, <1>4, ConcatProperties
<1>9. main # <<>> /\ Contains(main, "@")
  <2>1. main[Len(u) + 1] = "@" /\ Len(main) = Len(u) + 1 + Len(b)
    <3> HIDE DEF b, main
    <3>. QED BY <1>2, <1>3, <1>6, <1>7, AroundFacts
  <2> HIDE DEF b, main
  <2>2. Len(u) \in Nat /\ Len(b) \in Nat /\ DOMAIN main = 1 .. Len(main)
    BY <1>2, <1>6, <1>8
  <2>3. Len(u) + 1 \in 1 .. Len(main)
    BY <2>1, <2>2
  <2>. QED BY <2>1, <2>2, <2>3 DEF Contains
<1>10. at = <<u, Some(b)>>
  <2> HIDE DEF b
  <2>1. SplitLast(u \o <<"@">> \o b, "@") = <<u, Some(b)>>
    BY <1>2, <1>3, <1>6, SplitTextFacts
  <2> HIDE DEF main
  <2>. QED BY <1>7, <2>1
<1>11. Split(b, "/")[1] = hp
  <2>1. CASE slash = <<>>
    <3>1. b = hp
      BY <1>1, <2>1, ConcatEmptySeq
    <3>2. Split(hp, "/") = <<hp>>
      BY <1>1, <1>3, <1>5, SplitShort
    <3>. QED BY <3>1, <3>2
  <2>2. CASE slash = <<"/">>
    <3>1. b = hp \o <<"/">> \o <<>>
      <4>1. b \o <<>> = b
        BY <1>6, ConcatEmptySeq
      <4>. QED BY <2>2, <4>1
    <3>2. Free(<<>>, {"/"})
      BY FreeFacts
    <3>3. Split(hp \o <<"/">> \o <<>>, "/") = <<hp, <<>>>>
      BY <1>1, <1>3, <1>5, <3>2, SplitShort
    <3> HIDE DEF b
    <3>. QED BY <3>1, <3>3
  <2>. QED BY <2>1, <2>2
<1>12. IsSome(at[2]) /\ at[1] = u /\ at[2][1] = b
  <2> HIDE DEF at, b
  <2>. QED BY <1>10, SomeFacts
<1>13. SplitLast(Split(at[2][1], "/")[1], ":")
         = <<Bracketed(n.host), Some(<<n.port>>)>>
  <2> HIDE DEF at, b
  <2>. QED BY <1>1, <1>11, <1>12
<1>. QED BY <1>8, <1>9, <1>12, <1>13 DEF A, u

LEMMA CipherKept ==
  \A c \in CIPHERS \ {"chacha20-poly1305"} : Cipher(Some(<<c>>)) = <<c>>
<1> SUFFICES ASSUME NEW c \in CIPHERS, c # "chacha20-poly1305"
             PROVE  Cipher(Some(<<c>>)) = <<c>>
  OBVIOUS
<1>1. IsSome(Some(<<c>>)) /\ Some(<<c>>)[1] = <<c>>
  BY SomeFacts
<1>2. Len(<<c>>) = 1 /\ <<c>>[1] = c /\ <<c>> # <<"chacha20-poly1305">>
  OBVIOUS
<1>. QED BY <1>1, <1>2 DEF Cipher

(* What ss finds before the query.                                         *)
LEMMA SsMain ==
  ASSUME NEW n, UrlParts(n),
         IsSome(n.whole) => /\ n.whole \in Text /\ Free(n.whole, SEPARATORS)
                            /\ DecodeBase64(n.whole) = Address(n) /\ ~n.slash
  PROVE  LET f == SplitOnce(UrlText(n), "#")
             cut == SplitOnce(f[1], "?")
         IN  /\ f[2] = n.name /\ cut[2] = QueryOf(n)
             /\ \E slash \in {<<>>, <<"/">>} :
                  (IF Contains(cut[1], "@") THEN cut[1]
                   ELSE DecodeBase64(cut[1])) = Address(n) \o slash
<1> DEFINE base == IF IsSome(n.whole) THEN n.whole ELSE Address(n)
           slash == SlashOf(n)
           f == SplitOnce(UrlText(n), "#")
           cut == SplitOnce(f[1], "?")
<1>1. /\ Address(n) \in Seq(Tokens) /\ Free(Address(n), {"?", "#"})
      /\ Len(Address(n)) > 0
  BY AddressFacts
<1>2. base \in Seq(Tokens) /\ Free(base, {"?", "#"}) /\ base # <<>>
  <2>1. CASE IsSome(n.whole)
    BY <2>1, TextTokens, FreeOfFewer DEF SEPARATORS, IsSome, None
  <2>2. CASE ~IsSome(n.whole)
    BY <1>1, <2>2
  <2>. QED BY <2>1, <2>2
<1>3. UrlText(n) = base \o slash \o After("?", QueryOf(n)) \o After("#", n.name)
  BY UrlTextFacts
<1> HIDE DEF base
<1>4. /\ f[2] = n.name /\ cut = <<base \o slash, QueryOf(n)>>
  BY <1>2, <1>3, UrlCuts
<1>5. cut[1] = base \o slash /\ cut[2] = QueryOf(n)
  BY <1>4
<1> HIDE DEF f, cut
<1>6. slash \in {<<>>, <<"/">>}
  BY DEF SlashOf
<1>7. CASE IsSome(n.whole)
  <2>1. n.whole \in Seq(Tokens) /\ slash = <<>> /\ base = n.whole
    BY <1>7, TextTokens DEF SlashOf, base
  <2>2. cut[1] = n.whole
    BY <1>5, <2>1, ConcatEmptySeq
  <2>3. ~Contains(n.whole, "@")
    <3>1. Free(n.whole, {"@"})
      BY <1>7, FreeOfFewer DEF SEPARATORS
    <3>. QED BY <2>1, <3>1 DEF Contains, Free
  <2>4. Address(n) \o <<>> = Address(n)
    BY <1>1, ConcatEmptySeq
  <2>. QED BY <1>4, <1>5, <1>7, <2>2, <2>3, <2>4 DEF f, cut
<1>8. CASE ~IsSome(n.whole)
  <2>1. cut[1] = Address(n) \o slash
    BY <1>5, <1>8 DEF base
  <2>2. Contains(Address(n) \o slash, "@")
    BY <1>6, SsAddress
  <2> HIDE DEF slash
  <2>. QED BY <1>4, <1>5, <1>6, <2>1, <2>2 DEF f, cut
<1>. QED BY <1>7, <1>8

(* What a line says, its entry has: ss.                                    *)
LEMMA SsConverts ==
  ASSUME NEW n, UrlParts(n), IsLogin(n.said),
         DecodeBase64(n.user) = Login(n.said),
         IsSome(n.whole) => /\ n.whole \in Text /\ Free(n.whole, SEPARATORS)
                            /\ DecodeBase64(n.whole) = Address(n) /\ ~n.slash,
         NEW plugin,
         (IF IsSome(Get(Params(n), "plugin"))
          THEN SsPlugin(Get(Params(n), "plugin")[1]) ELSE Ok(<<>>)) = Ok(plugin)
  PROVE  Ss(UrlText(n)) =
           Ok(SsEntry(Params(n), plugin, DecodeAndTrim(n.name), n.host,
                      Digits[n.port], n.said[1], n.said[2]))
<1> DEFINE f == SplitOnce(UrlText(n), "#")
           cut == SplitOnce(f[1], "?")
           q == Query(cut[2])
           main == IF Contains(cut[1], "@") THEN cut[1]
                   ELSE DecodeBase64(cut[1])
           at == SplitLast(main, "@")
           hp == SplitLast(Split(at[2][1], "/")[1], ":")
           server == Unbracketed(hp[1])
           port == RequiredPort(hp[2][1])
           user == SplitOnce(DecodeBase64(at[1]), ":")
           result == IF IsSome(Get(q, "plugin"))
                     THEN SsPlugin(Get(q, "plugin")[1]) ELSE Ok(<<>>)
<1>1. Ss(UrlText(n)) =
        IF \/ ~IsSome(at[2]) \/ ~IsSome(hp[2]) \/ ~IsSome(port)
           \/ server = <<>> \/ Or(user[2], <<>>) = <<>> \/ ~IsOk(result)
        THEN Invalid
        ELSE Ok(SsEntry(q, result.ok, DecodeAndTrim(f[2]), server, port[1],
                        user[1], user[2][1]))
  BY DEF Ss
<1>2. /\ f[2] = n.name /\ cut[2] = QueryOf(n)
      /\ \E slash \in {<<>>, <<"/">>} : main = Address(n) \o slash
  BY SsMain
<1>3. q = Params(n)
  <2>1. Query(QueryOf(n)) = Params(n)
    <3>1. PartsOf(n).query = QueryOf(n)
      BY DEF PartsOf
    <3>. QED BY <3>1, PartsFacts DEF Keyed
  <2>. QED BY <1>2, <2>1
<1>4. result = Ok(plugin)
  BY <1>3
<1> HIDE DEF f, cut, q, result, main
<1>5. /\ IsSome(at[2]) /\ at[1] = n.user
      /\ hp = <<Bracketed(n.host), Some(<<n.port>>)>>
  BY <1>2, SsAddress
<1> HIDE DEF at, hp
<1>6. hp[1] = Bracketed(n.host) /\ IsSome(hp[2]) /\ hp[2][1] = <<n.port>>
  BY <1>5, SomeFacts
<1>7. server = n.host /\ n.host # <<>>
  BY <1>6, BracketedFacts, UrlTokens
<1>8. IsSome(port) /\ port[1] = Digits[n.port]
  BY <1>6, PartsFacts, SomeFacts
<1>9. user = <<n.said[1], Some(n.said[2])>> /\ n.said[2] # <<>>
  BY <1>5, LoginCuts
<1> HIDE DEF user, server, port
<1>10. user[1] = n.said[1] /\ user[2][1] = n.said[2]
       /\ Or(user[2], <<>>) = n.said[2]
  BY <1>9, SomeFacts DEF Or, OrElse
<1>11. IsOk(result) /\ result.ok = plugin
  BY <1>4 DEF IsOk, Ok
<1>. QED BY <1>1, <1>2, <1>3, <1>5, <1>6, <1>7, <1>8, <1>9, <1>10, <1>11

LEMMA SsTold ==
  ASSUME NEW n, UrlParts(n), IsLogin(n.said),
         DecodeBase64(n.user) = Login(n.said),
         \E c \in CIPHERS \ {"chacha20-poly1305"} : n.said[1] = <<c>>,
         IsSome(n.whole) => /\ n.whole \in Text /\ Free(n.whole, SEPARATORS)
                            /\ DecodeBase64(n.whole) = Address(n) /\ ~n.slash,
         Has(Params(n), "plugin") =>
           Get(Params(n), "plugin") = Some(ObfsLocal(n.obfs)),
         IsMode(n.obfs), ~Has(Params(n), "v2ray-plugin")
  PROVE  \E m : /\ Ss(UrlText(n)) = Ok(m)
                /\ Tells(m, CommonSays(n, "ss") \union SsSays(n))
<1> DEFINE q == Params(n)
           P == IF Has(q, "plugin")
                THEN {<<<<"plugin">>, Word("obfs")>>,
                      <<<<"plugin-opts", "mode">>, Word(n.obfs)>>}
                ELSE {}
           A == {<<<<"cipher">>, Str(n.said[1])>>}
           B == {<<<<"password">>, Str(n.said[2])>>}
           six == {"type", "name", "server", "port", "cipher", "password"}
           plugged(p) == (IF IsSome(Get(q, "plugin"))
                          THEN SsPlugin(Get(q, "plugin")[1]) ELSE Ok(<<>>))
                         = Ok(p)
<1>1. \E p : /\ plugged(p)
             /\ \A k \in six : Lacks(p, k)
             /\ Has(q, "plugin") => /\ Gives(p, "plugin", Word("obfs"))
                                    /\ GivesIn(p, "plugin-opts", "mode",
                                               Word(n.obfs))
  <2>1. CASE Has(q, "plugin")
    <3>1. /\ IsSome(Get(q, "plugin"))
          /\ Get(q, "plugin")[1] = ObfsLocal(n.obfs)
      BY <2>1, SomeFacts
    <3>2. PICK p : /\ SsPlugin(ObfsLocal(n.obfs)) = Ok(p)
                   /\ Gives(p, "plugin", Word("obfs"))
                   /\ GivesIn(p, "plugin-opts", "mode", Word(n.obfs))
                   /\ \A k \in six : Lacks(p, k)
      BY ObfsGives
    <3>3. plugged(p)
      BY <3>1, <3>2
    <3> HIDE DEF plugged, six
    <3>. QED BY <3>2, <3>3
  <2>2. CASE ~Has(q, "plugin")
    <3>1. plugged(<<>>)
      BY <2>2 DEF Get, IsSome
    <3>2. \A k \in six : Lacks(<<>>, k)
      BY GivesKv
    <3> HIDE DEF plugged, six
    <3>. QED BY <2>2, <3>1, <3>2
  <2>. QED BY <2>1, <2>2
<1>2. PICK p : /\ plugged(p)
               /\ \A k \in six : Lacks(p, k)
               /\ Has(q, "plugin") =>
                    /\ Gives(p, "plugin", Word("obfs"))
                    /\ GivesIn(p, "plugin-opts", "mode", Word(n.obfs))
  BY <1>1
<1> DEFINE m == SsEntry(q, p, DecodeAndTrim(n.name), n.host, Digits[n.port],
                        n.said[1], n.said[2])
<1>3. Ss(UrlText(n)) = Ok(m)
  BY <1>2, SsConverts
<1>4. ~IsSome(Get(q, "v2ray-plugin"))
  BY DEF Get, IsSome
<1>5. m = SsEntry(q, p, DecodeAndTrim(n.name), n.host, Digits[n.port],
                  n.said[1], n.said[2])
  OBVIOUS
<1> HIDE DEF m, q, plugged
<1>6. /\ Names4(m, "ss", DecodeAndTrim(n.name), n.host, Digits[n.port])
      /\ Gives(m, "cipher", Str(Cipher(Some(n.said[1]))))
      /\ Gives(m, "password", Str(n.said[2]))
      /\ \A k \in {"plugin", "plugin-opts"} : \A v :
           Gives(p, k, v) => Gives(m, k, v)
  BY <1>2, <1>4, <1>5, SsGives
<1>7. Cipher(Some(n.said[1])) = n.said[1]
  BY CipherKept
<1>8. /\ Tells(m, CommonSays(n, "ss"))
      /\ Tells(m, A) /\ Tells(m, B)
  BY <1>6, <1>7, CommonTold, GivesHolds, Zenon
<1>9. Tells(m, P)
  <2>1. CASE Has(q, "plugin")
    <3>1. Gives(m, "plugin", Word("obfs"))
      BY <1>2, <1>6, <2>1
    <3>2. GivesIn(m, "plugin-opts", "mode", Word(n.obfs))
      BY <1>2, <1>6, <2>1 DEF GivesIn
    <3> DEFINE x == <<<<"plugin">>, Word("obfs")>>
               y == <<<<"plugin-opts", "mode">>, Word(n.obfs)>>
    <3>3. Tells(m, {x})
      BY <3>1, GivesHolds, Zenon
    <3>4. Holds(m, y)
      BY <3>2, GivesHolds, Zenon
    <3>5. P = {x, y}
      BY <2>1
    <3> HIDE DEF x, y, P
    <3>. QED BY <3>3, <3>4, <3>5 DEF Tells
  <2>2. CASE ~Has(q, "plugin")
    BY <2>2, TellsFacts
  <2>. QED BY <2>1, <2>2
<1>10. SsSays(n) = A \union B \union P
  <2> DEFINE a == <<<<"cipher">>, Str(n.said[1])>>
             b == <<<<"password">>, Str(n.said[2])>>
  <2>1. SsSays(n) = {a, b} \union P
    BY DEF SsSays, q
  <2>2. A = {a} /\ B = {b}
    OBVIOUS
  <2> HIDE DEF a, b, A, B, P
  <2>. QED BY <2>1, <2>2
<1> HIDE DEF A, B, P
<1>11. Tells(m, SsSays(n))
  <2>1. Tells(m, A \union B \union P)
    BY <1>8, <1>9, TellsFacts, Zenon
  <2>. QED BY <1>10, <2>1
<1>12. Tells(m, CommonSays(n, "ss") \union SsSays(n))
  BY <1>8, <1>11, TellsFacts, Zenon
<1>. QED BY <1>3, <1>12

(* The values of a vmess object that its entry is made of.                 *)
LEMMA ObjectFacts ==
  ASSUME NEW obj, NEW k,
         k \in DOMAIN obj =>
           obj[k] = IF "str" \in DOMAIN obj[k] THEN Str(obj[k].str)
                    ELSE Num(obj[k].num)
  PROVE  /\ IsSome(GetStr(obj, k)) <=>
              k \in DOMAIN obj /\ "str" \in DOMAIN obj[k]
         /\ IsSome(GetStr(obj, k)) => /\ GetStr(obj, k)[1] = obj[k].str
                                      /\ Field(obj, k) = Str(GetStr(obj, k)[1])
<1>1. CASE k \in DOMAIN obj /\ "str" \in DOMAIN obj[k]
  <2>1. Field(obj, k) = obj[k] /\ obj[k] = Str(obj[k].str)
    BY <1>1 DEF Field
  <2>2. GetStr(obj, k) = Some(obj[k].str)
    BY <1>1, <2>1 DEF GetStr
  <2>. QED BY <1>1, <2>1, <2>2, SomeFacts
<1>2. CASE ~(k \in DOMAIN obj /\ "str" \in DOMAIN obj[k])
  <2>1. "str" \notin DOMAIN Field(obj, k)
    <3>1. CASE k \in DOMAIN obj
      BY <1>2, <3>1 DEF Field
    <3>2. CASE k \notin DOMAIN obj
      BY <3>2 DEF Field
    <3>. QED BY <3>1, <3>2
  <2>2. ~IsSome(GetStr(obj, k))
    BY <2>1 DEF GetStr, IsSome
  <2>. QED BY <1>2, <2>2
<1>. QED BY <1>1, <1>2

LEMMA JsonPort ==
  ASSUME NEW v, NEW t, NEW d
  PROVE  /\ v = Str(t) /\ RequiredPort(t) # None =>
              RequiredPort(AnyStr(v)) = Some(Digits[t[1]])
         /\ v = Num(d) /\ d \in {Digits[w] : w \in DOMAIN Digits} \cap Ports =>
              RequiredPort(AnyStr(v)) = Some(d)
<1>1. ASSUME v = Str(t), RequiredPort(t) # None
      PROVE  RequiredPort(AnyStr(v)) = Some(Digits[t[1]])
  <2>1. DOMAIN v = {"str"} /\ v.str = t
    BY <1>1 DEF Str
  <2>2. "str" \in DOMAIN v /\ "num" \notin DOMAIN v /\ v # Bool(TRUE)
    <3>1. DOMAIN Bool(TRUE) = {"bool"}
      BY DEF Bool
    <3>. QED BY <2>1, <3>1
  <2>3. AnyStr(v) = t
    <3> DEFINE b == Bool(TRUE)
               q == <<CHOOSE w \in DOMAIN Digits : Digits[w] = v.num>>
    <3>1. AnyStr(v) = CASE "str" \in DOMAIN v -> v.str
                        [] "num" \in DOMAIN v -> q
                        [] v = b -> <<"true">>
                        [] OTHER -> <<"other">>
      BY DEF AnyStr
    <3>2. v # b
      BY <2>2
    <3> HIDE DEF b, q
    <3>. QED BY <2>1, <2>2, <3>1, <3>2
  <2>. QED BY <1>1, <2>3 DEF RequiredPort
<1>2. ASSUME v = Num(d), d \in {Digits[w] : w \in DOMAIN Digits} \cap Ports
      PROVE  RequiredPort(AnyStr(v)) = Some(d)
  <2> DEFINE w == CHOOSE w \in DOMAIN Digits : Digits[w] = d
  <2>1. DOMAIN v = {"num"} /\ v.num = d
    BY <1>2 DEF Num
  <2>2. "str" \notin DOMAIN v /\ "num" \in DOMAIN v /\ v # Bool(TRUE)
    <3>1. DOMAIN Bool(TRUE) = {"bool"}
      BY DEF Bool
    <3>. QED BY <2>1, <3>1
  <2>3. AnyStr(v) = <<w>>
    <3> DEFINE b == Bool(TRUE)
    <3>1. AnyStr(v) = CASE "str" \in DOMAIN v -> v.str
                        [] "num" \in DOMAIN v -> <<w>>
                        [] v = b -> <<"true">>
                        [] OTHER -> <<"other">>
      BY <2>1 DEF AnyStr
    <3>2. v # b
      BY <2>2
    <3> HIDE DEF b, w
    <3>. QED BY <2>1, <2>2, <3>1, <3>2
  <2>4. w \in DOMAIN Digits /\ Digits[w] = d
    BY <1>2
  <2> HIDE DEF w
  <2>5. Len(<<w>>) = 1 /\ <<w>>[1] = w
    OBVIOUS
  <2>. QED BY <1>2, <2>3, <2>4, <2>5 DEF RequiredPort, IsNumber
<1>. QED BY <1>1, <1>2

(* What a line says, its entry has: vmess.                                 *)
LEMMA VmessTold ==
  ASSUME NEW n, WellWrittenVmess(n)
  PROVE  \E m : /\ Vmess(<<n.word>>) = Ok(m)
                /\ Tells(m, VmessSays(Json[Base64[n.word][1]].map))
<1> DEFINE content == Base64[n.word]
           json == Json[content[1]]
           obj == json.map
           T(k) == GetStr(obj, k)
           port == IF "str" \in DOMAIN obj["port"]
                   THEN Digits[obj["port"].str[1]] ELSE obj["port"].num
           m == VmessEntry(obj, obj["add"].str, port, obj["id"].str)
<1>1. /\ DecodeBase64(<<n.word>>) = content /\ Len(content) = 1
      /\ content[1] \in DOMAIN Json /\ "map" \in DOMAIN json
      /\ {"add", "id", "port"} \subseteq DOMAIN obj
      /\ "str" \in DOMAIN obj["add"] /\ "str" \in DOMAIN obj["id"]
      /\ IF "str" \in DOMAIN obj["port"]
         THEN \E w \in DOMAIN Digits : /\ obj["port"].str = <<w>>
                                       /\ Digits[w] \in Ports
         ELSE obj["port"].num \in {Digits[w] : w \in DOMAIN Digits} \cap Ports
  BY DEF WellWrittenVmess
<1>2. \A k \in DOMAIN obj :
        obj[k] = IF "str" \in DOMAIN obj[k] THEN Str(obj[k].str)
                 ELSE Num(obj[k].num)
  BY DEF WellWrittenVmess
<1> HIDE DEF content, obj
<1>3. /\ IsSome(T("add")) /\ T("add")[1] = obj["add"].str
      /\ IsSome(T("id")) /\ T("id")[1] = obj["id"].str
  BY <1>1, <1>2, ObjectFacts
<1>4. RequiredPort(AnyStr(obj["port"])) = Some(port)
  <2>1. CASE "str" \in DOMAIN obj["port"]
    <3>1. obj["port"] = Str(obj["port"].str)
      BY <1>1, <1>2, <2>1
    <3>2. RequiredPort(obj["port"].str) # None
      <4>1. PICK w \in DOMAIN Digits : /\ obj["port"].str = <<w>>
                                       /\ Digits[w] \in Ports
        BY <1>1, <2>1
      <4>2. Len(<<w>>) = 1 /\ <<w>>[1] = w
        OBVIOUS
      <4>3. RequiredPort(<<w>>) = Some(Digits[w])
        BY <4>1, <4>2 DEF RequiredPort, IsNumber
      <4>4. IsSome(Some(Digits[w]))
        BY SomeFacts
      <4>. QED BY <4>1, <4>3, <4>4 DEF IsSome
    <3>3. RequiredPort(AnyStr(obj["port"]))
            = Some(Digits[obj["port"].str[1]])
      BY <3>1, <3>2, JsonPort
    <3>. QED BY <2>1, <3>3
  <2>2. CASE "str" \notin DOMAIN obj["port"]
    <3>1. obj["port"] = Num(obj["port"].num)
      BY <1>1, <1>2, <2>2
    <3>2. obj["port"].num \in {Digits[w] : w \in DOMAIN Digits} \cap Ports
      BY <1>1, <2>2
    <3>3. RequiredPort(AnyStr(obj["port"])) = Some(obj["port"].num)
      BY <3>1, <3>2, JsonPort
    <3>. QED BY <2>2, <3>3
  <2>. QED BY <2>1, <2>2
<1>5. port = IF IsSome(T("port")) THEN Digits[T("port")[1][1]]
             ELSE obj["port"].num
  <2>1. /\ IsSome(T("port")) <=> "str" \in DOMAIN obj["port"]
        /\ IsSome(T("port")) => T("port")[1] = obj["port"].str
    BY <1>1, <1>2, ObjectFacts
  <2>. QED BY <2>1
<1> HIDE DEF port
<1>6. Vmess(<<n.word>>) = Ok(m)
  <2> DEFINE c == DecodeBase64(<<n.word>>)
             j == IF Len(c) = 1 /\ c[1] \in DOMAIN Json THEN Json[c[1]]
                  ELSE Bool(FALSE)
             p == IF "port" \in DOMAIN j.map
                  THEN RequiredPort(AnyStr(j.map["port"])) ELSE None
  <2>1. Vmess(<<n.word>>) =
          IF "map" \notin DOMAIN j THEN Invalid
          ELSE IF \/ ~IsSome(GetStr(j.map, "add"))
                  \/ ~IsSome(GetStr(j.map, "id")) \/ ~IsSome(p)
          THEN Invalid
          ELSE Ok(VmessEntry(j.map, GetStr(j.map, "add")[1], p[1],
                             GetStr(j.map, "id")[1]))
    BY DEF Vmess
  <2>2. j = json
    BY <1>1
  <2>3. j.map = obj
    BY <2>2 DEF obj
  <2>4. "map" \in DOMAIN j
    BY <1>1, <2>2
  <2>5. p = Some(port)
    BY <1>1, <1>4, <2>3
  <2> HIDE DEF p, j
  <2>6. IsSome(p) /\ p[1] = port
    BY <2>5, SomeFacts
  <2>. QED BY <1>3, <2>1, <2>3, <2>4, <2>6
<1>7. m = VmessEntry(obj, obj["add"].str, port, obj["id"].str)
  OBVIOUS
<1> HIDE DEF m
<1>8. /\ Names4(m, "vmess", T("ps"), obj["add"].str, port)
      /\ Gives(m, "uuid", Str(obj["id"].str))
      /\ Field(obj, "tls") = Word("tls") => Gives(m, "tls", Bool(TRUE))
      /\ Field(obj, "tls") = Word("tls") =>
           OptGives(m, "servername", T("sni"))
      /\ T("net") = Some(<<"ws">>) /\ IsSome(T("path")) =>
           GivesIn(m, "ws-opts", "path", Str(T("path")[1]))
  BY <1>7, VmessGives
<1> DEFINE a == <<<<"type">>, Word("vmess")>>
           b == <<<<"server">>, Str(obj["add"].str)>>
           c == <<<<"port">>, Num(port)>>
           d == <<<<"uuid">>, Str(obj["id"].str)>>
           N == Says(<<"name">>, T("ps"))
           L == IF T("tls") = Some(<<"tls">>)
                THEN {<<<<"tls">>, Bool(TRUE)>>}
                     \union Says(<<"servername">>, T("sni"))
                ELSE {}
           W == IF T("net") = Some(<<"ws">>)
                THEN Says(<<"ws-opts", "path">>, T("path")) ELSE {}
<1>9. VmessSays(obj) = {a, b, c, d} \union N \union L \union W
  BY <1>5 DEF VmessSays
<1>10. Tells(m, {a}) /\ Tells(m, {b}) /\ Tells(m, {c}) /\ Tells(m, {d})
  BY <1>8, GivesHolds DEF Names4
<1>11. Tells(m, N)
  <2>1. OptGives(m, "name", T("ps"))
    BY <1>8 DEF Names4, OptGives
  <2>. QED BY <2>1, TellsFacts, Zenon
<1>12. Tells(m, L)
  <2>1. CASE T("tls") = Some(<<"tls">>)
    <3>1. Field(obj, "tls") = Word("tls")
      <4>1. IsSome(T("tls")) /\ T("tls")[1] = <<"tls">>
        BY <2>1, SomeFacts
      <4>2. Field(obj, "tls") = Str(T("tls")[1])
        BY <1>2, <4>1, ObjectFacts
      <4>. QED BY <4>1, <4>2 DEF Word
    <3>2. Tells(m, {<<<<"tls">>, Bool(TRUE)>>})
      BY <1>8, <3>1, GivesHolds, Zenon
    <3>3. Tells(m, Says(<<"servername">>, T("sni")))
      BY <1>8, <3>1, TellsFacts, Zenon
    <3>4. Tells(m, {<<<<"tls">>, Bool(TRUE)>>}
                   \union Says(<<"servername">>, T("sni")))
      BY <3>2, <3>3, TellsFacts, Zenon
    <3>. QED BY <2>1, <3>4
  <2>2. CASE ~(T("tls") = Some(<<"tls">>))
    BY <2>2, TellsFacts
  <2>. QED BY <2>1, <2>2
<1>13. Tells(m, W)
  <2>1. CASE T("net") = Some(<<"ws">>)
    <3>1. Tells(m, Says(<<"ws-opts", "path">>, T("path")))
      BY <1>8, <2>1, TellsFacts, Zenon
    <3>. QED BY <2>1, <3>1
  <2>2. CASE ~(T("net") = Some(<<"ws">>))
    BY <2>2, TellsFacts
  <2>. QED BY <2>1, <2>2
<1> HIDE DEF a, b, c, d, N, L, W
<1>14. Tells(m, {a, b, c, d})
  BY <1>10 DEF Tells
<1>15. Tells(m, {a, b, c, d} \union N \union L \union W)
  BY <1>11, <1>12, <1>13, <1>14, TellsFacts, Zenon
<1>16. Tells(m, VmessSays(obj))
  BY <1>9, <1>15
<1>. QED BY <1>6, <1>16 DEF obj, content

(* rsplit_once keeps the end of a text.                                    *)
LEMMA LastExists ==
  ASSUME NEW t, Len(t) \in Nat, NEW c, NEW j \in 1 .. Len(t), t[j] = c
  PROVE  \E k \in 1 .. Len(t) : t[k] = c /\ \A i \in k + 1 .. Len(t) : t[i] # c
<1> DEFINE I == {i \in 1 .. Len(t) : t[i] = c}
           g == InOrder(I)
           m == Cardinality(I)
<1>1. /\ m \in Nat /\ g \in [1 .. m -> I]
      /\ \A i, x \in 1 .. m : i < x => g[i] < g[x]
      /\ \A x \in I : \E i \in 1 .. m : g[i] = x
  <2>1. Len(t) \in Nat /\ I \in SUBSET (1 .. Len(t))
    OBVIOUS
  <2> HIDE DEF I
  <2>. QED BY <2>1, InOrderOfPositions
<1>2. j \in I /\ I \subseteq 1 .. Len(t)
  OBVIOUS
<1> HIDE DEF g, m
<1>3. m \in 1 .. m
  BY <1>1, <1>2
<1>4. g[m] \in I
  BY <1>1, <1>3
<1>5. ASSUME NEW i \in g[m] + 1 .. Len(t), t[i] = c PROVE FALSE
  <2>1. i \in I /\ g[m] < i
    BY <1>2, <1>4, <1>5
  <2>2. PICK x \in 1 .. m : g[x] = i
    BY <1>1, <2>1
  <2>3. x = m \/ g[x] < g[m]
    BY <1>1, <1>3, <2>2
  <2>. QED BY <1>2, <1>4, <2>1, <2>2, <2>3
<1>. QED BY <1>4, <1>5

LEMMA LastCut ==
  ASSUME NEW t \in Seq(Tokens), NEW c
  PROVE  \/ SplitLast(t, c) = <<t, None>>
         \/ \E k \in 1 .. Len(t) :
              /\ t[k] = c
              /\ SplitLast(t, c) = <<SubSeq(t, 1, k - 1),
                                     Some(SubSeq(t, k + 1, Len(t)))>>
<1>1. Len(t) \in Nat
  OBVIOUS
<1>2. CASE \A i \in 1 .. Len(t) : t[i] # c
  BY <1>2, NoCutFacts
<1>3. CASE \E i \in 1 .. Len(t) : t[i] = c
  <2>1. PICK k \in 1 .. Len(t) :
          t[k] = c /\ \A i \in k + 1 .. Len(t) : t[i] # c
    BY <1>1, <1>3, LastExists
  <2>. QED BY <1>1, <2>1, CutFacts
<1>. QED BY <1>2, <1>3

LEMMA TailFacts ==
  ASSUME NEW t \in Seq(Tokens), NEW k \in 0 .. Len(t)
  PROVE  LET b == SubSeq(t, k + 1, Len(t))
         IN  /\ b \in Seq(Tokens) /\ Len(b) = Len(t) - k
             /\ Len(b) >= 2 => b[Len(b) - 1] = t[Len(t) - 1]
<1> DEFINE b == SubSeq(t, k + 1, Len(t))
           L == Len(t)
<1>1. L \in Nat /\ \A i \in k + 1 .. L : t[i] \in Tokens
  OBVIOUS
<1>2. /\ k + 1 \in Int /\ L \in Int
      /\ L - (k + 1) + 1 = L - k /\ (k + 1 <= L <=> L - k # 0)
  BY <1>1
<1>3. /\ b \in Seq(Tokens)
      /\ Len(b) = IF k + 1 <= L THEN L - (k + 1) + 1 ELSE 0
      /\ \A i \in 1 .. L - (k + 1) + 1 : b[i] = t[k + 1 + i - 1]
  <2> DEFINE m == k + 1
  <2>1. m \in Int /\ L \in Int /\ \A i \in m .. L : t[i] \in Tokens
    BY <1>1, <1>2
  <2> HIDE DEF m, L
  <2>2. /\ SubSeq(t, m, L) \in Seq(Tokens)
        /\ Len(SubSeq(t, m, L)) = IF m <= L THEN L - m + 1 ELSE 0
        /\ \A i \in 1 .. L - m + 1 : SubSeq(t, m, L)[i] = t[m + i - 1]
    BY <2>1, SubSeqProperties
  <2>. QED BY <2>2 DEF m, L
<1> HIDE DEF b, L
<1>4. Len(b) = L - k
  BY <1>1, <1>2, <1>3
<1>5. ASSUME Len(b) >= 2 PROVE b[Len(b) - 1] = t[L - 1]
  <2>1. L - k - 1 \in 1 .. L - (k + 1) + 1 /\ k + 1 + (L - k - 1) - 1 = L - 1
    BY <1>1, <1>4, <1>5
  <2>. QED BY <1>3, <1>4, <2>1
<1>. QED BY <1>3, <1>4, <1>5 DEF b, L

(* A port is the last token, after a colon.                                *)
LEMMA PortAtEnd ==
  ASSUME NEW s \in Seq(Tokens), IsSome(HostPort(s)[2])
  PROVE  Len(s) >= 2 /\ s[Len(s) - 1] = ":"
<1> DEFINE cut == SplitLast(s, ":")
<1>1. Len(s) \in Nat
  OBVIOUS
<1>2. IsSome(cut[2]) /\ IsNumber(cut[2][1])
  BY DEF HostPort, IsSome
<1>3. cut # <<s, None>>
  BY <1>2 DEF IsSome
<1>4. PICK k \in 1 .. Len(s) :
        s[k] = ":" /\ cut = <<SubSeq(s, 1, k - 1), Some(SubSeq(s, k + 1, Len(s)))>>
  BY <1>3, LastCut
<1> HIDE DEF cut
<1>5. cut[2][1] = SubSeq(s, k + 1, Len(s))
  BY <1>4, SomeFacts
<1>6. Len(SubSeq(s, k + 1, Len(s))) = 1
  BY <1>2, <1>5 DEF IsNumber
<1>7. Len(s) - k = 1
  <2>1. k \in 0 .. Len(s)
    BY <1>1
  <2>. QED BY <1>6, <2>1, TailFacts
<1>. QED BY <1>1, <1>4, <1>7

(* No colon before the last token, and parse_url_like finds no port.       *)
LEMMA NoPort ==
  ASSUME NEW s, NEW x \in Seq(Tokens),
         SplitOnce(SplitOnce(s, "#")[1], "?")[1] = x,
         Len(x) >= 2 => x[Len(x) - 1] # ":",
         Len(x) >= 3 /\ x[Len(x)] = "/" => x[Len(x) - 2] # ":"
  PROVE  ~(IsSome(ParseUrlLike(s)) /\ IsSome(ParseUrlLike(s)[1].port))
<1> DEFINE f == SplitOnce(s, "#")
           q == SplitOnce(f[1], "?")
           n == Len(q[1])
           before == IF n > 0 /\ q[1][n] = "/" THEN SubSeq(q[1], 1, n - 1) ELSE q[1]
           a == SplitLast(before, "@")
           r == Or(a[2], before)
           hp == HostPort(r)
<1>1. Len(x) \in Nat
  OBVIOUS
<1>2. before = IF Len(x) > 0 /\ x[Len(x)] = "/" THEN SubSeq(x, 1, Len(x) - 1)
               ELSE x
  OBVIOUS
<1>3. /\ before \in Seq(Tokens)
      /\ Len(before) >= 2 => before[Len(before) - 1] # ":"
  <2> HIDE DEF before
  <2>1. CASE Len(x) > 0 /\ x[Len(x)] = "/"
    <3> DEFINE L == Len(x) - 1
               y == SubSeq(x, 1, L)
    <3>1. /\ L \in Nat /\ \A i \in 1 .. L : x[i] \in Tokens
          /\ L - 1 + 1 = L /\ (1 <= L <=> L # 0)
      <4>1. Len(x) > 0
        BY <2>1
      <4> DEFINE N == Len(x)
      <4>2. N \in Nat /\ \A i \in 1 .. N : x[i] \in Tokens
        OBVIOUS
      <4>3. L = N - 1
        OBVIOUS
      <4> HIDE DEF N, L
      <4>4. N > 0
        BY <4>1 DEF N
      <4>. QED BY <4>2, <4>3, <4>4
    <3>2. /\ y \in Seq(Tokens) /\ Len(y) = IF 1 <= L THEN L - 1 + 1 ELSE 0
          /\ \A i \in 1 .. L - 1 + 1 : y[i] = x[1 + i - 1]
      BY <3>1, SubSeqProperties
    <3> HIDE DEF y
    <3>3. Len(y) = L
      BY <3>1, <3>2
    <3>4. ASSUME L >= 2 PROVE y[L - 1] # ":"
      <4>1. L - 1 \in 1 .. L - 1 + 1 /\ 1 + (L - 1) - 1 = Len(x) - 2 /\ Len(x) >= 3
        BY <1>1, <3>1, <3>4
      <4>2. y[L - 1] = x[Len(x) - 2]
        BY <3>2, <4>1
      <4>. QED BY <2>1, <4>1, <4>2
    <3>5. before = y
      BY <1>2, <2>1 DEF y
    <3>. QED BY <3>2, <3>3, <3>4, <3>5
  <2>2. CASE ~(Len(x) > 0 /\ x[Len(x)] = "/")
    BY <1>2, <2>2
  <2>. QED BY <2>1, <2>2
<1> HIDE DEF before
<1>4. r \in Seq(Tokens) /\ (Len(r) >= 2 => r[Len(r) - 1] # ":")
  <2>1. CASE a = <<before, None>>
    <3>1. r = before
      BY <2>1, SomeFacts DEF Or, OrElse, IsSome
    <3>. QED BY <1>3, <3>1
  <2>2. CASE a # <<before, None>>
    <3>1. PICK k \in 1 .. Len(before) :
            a = <<SubSeq(before, 1, k - 1),
                  Some(SubSeq(before, k + 1, Len(before)))>>
      BY <1>3, <2>2, LastCut
    <3> HIDE DEF a
    <3>2. r = SubSeq(before, k + 1, Len(before))
      BY <3>1, SomeFacts DEF Or, OrElse
    <3>3. /\ k \in 0 .. Len(before) /\ Len(before) \in Nat
      BY <1>3
    <3>4. /\ r \in Seq(Tokens) /\ Len(r) = Len(before) - k
          /\ Len(r) >= 2 => r[Len(r) - 1] = before[Len(before) - 1]
      BY <1>3, <3>2, <3>3, TailFacts
    <3>5. Len(r) >= 2 => Len(before) >= 2
      BY <3>3, <3>4
    <3>. QED BY <1>3, <3>4, <3>5
  <2>. QED BY <2>1, <2>2
<1> HIDE DEF r
<1>5. ~IsSome(hp[2])
  BY <1>4, PortAtEnd
<1>6. ParseUrlLike(s) =
        IF hp[1] = <<>> THEN None
        ELSE Some([auth |-> IF IsSome(a[2]) THEN Some(a[1]) ELSE None,
                   host |-> Unbracketed(hp[1]), port |-> hp[2],
                   query |-> q[2], fragment |-> f[2]])
  BY DEF ParseUrlLike, r, before
<1> HIDE DEF hp, a, q, f
<1>. QED BY <1>5, <1>6, SomeFacts DEF IsSome

LEMMA NotEmptyConcat ==
  ASSUME NEW T, NEW k \in Seq(T), NEW v \in Seq(T), Len(k) = 1
  PROVE  k \o v # <<>>
  BY ConcatEqualIffEmpty

(* A query with a parameter in it is not empty.                            *)
LEMMA QueryNotEmpty ==
  ASSUME NEW n, UrlParts(n), n.params # <<>>
  PROVE  n.query # <<>>
<1> DEFINE parts == [i \in DOMAIN n.params |-> Part(n.params[i])]
<1>1. /\ Len(n.params) \in Nat \ {0} /\ DOMAIN n.params = 1 .. Len(n.params)
      /\ Joined(n.query, parts, "&")
  <2> DEFINE R == [key : STRING \ {"=", "&", " ", ""}, value : OptionText]
             P == n.params
  <2>1. P \in Seq(R) /\ P # <<>> /\ Joined(n.query, parts, "&")
    BY Zenon DEF UrlParts
  <2> HIDE DEF P, R
  <2>2. Len(P) \in Nat \ {0} /\ DOMAIN P = 1 .. Len(P)
    BY <2>1
  <2>. QED BY <2>1, <2>2 DEF P
<1>2. Len(parts) = Len(n.params)
  BY <1>1
<1>3. Part(n.params[1]) # <<>> /\ parts[1] = Part(n.params[1])
  <2> DEFINE p == n.params[1]
             k == <<p.key>>
             v == IF IsSome(p.value) THEN <<"=">> \o p.value[1] ELSE <<>>
  <2>1. p.key \in STRING /\ p.value \in OptionText /\ 1 \in DOMAIN n.params
    <3> DEFINE K == STRING \ {"=", "&", " ", ""}
               R == [key : K, value : OptionText]
               P == n.params
    <3>1. P \in Seq(R) /\ Len(P) \in Nat \ {0} /\ DOMAIN P = 1 .. Len(P)
      BY <1>1, Zenon DEF UrlParts
    <3>2. \A r \in R : r.key \in K /\ r.value \in OptionText
      OBVIOUS
    <3>3. K \subseteq STRING
      OBVIOUS
    <3> HIDE DEF P, R, K
    <3>4. 1 \in DOMAIN P
      BY <3>1
    <3>5. P[1] \in R
      BY <3>1, <3>4
    <3>6. P[1].key \in STRING /\ P[1].value \in OptionText
      BY <3>2, <3>3, <3>5
    <3>. QED BY <3>4, <3>6 DEF P
  <2>2. k \in Seq(Tokens) /\ Len(k) = 1 /\ v \in Seq(Tokens)
    <3>1. p.key \in Tokens
      BY <2>1 DEF Tokens
    <3>2. k \in Seq(Tokens) /\ Len(k) = 1 /\ <<"=">> \in Seq(Tokens)
      BY <3>1, TokenFacts, OneToken
    <3>3. IsSome(p.value) => p.value[1] \in Seq(Tokens)
      BY <2>1, OptionFacts
    <3> HIDE DEF p, k
    <3>. QED BY <3>2, <3>3, TokenFacts, ConcatProperties
  <2>3. Part(p) = k \o v
    BY DEF Part
  <2> HIDE DEF p, k, v
  <2>4. k \o v # <<>>
    BY <2>2, NotEmptyConcat
  <2>. QED BY <2>1, <2>3, <2>4 DEF p
<1> HIDE DEF parts
<1> SUFFICES ASSUME n.query = <<>> PROVE FALSE
  OBVIOUS
<1>4. PICK ends \in [0 .. Len(parts) -> 0 .. Len(n.query) + 1] :
        /\ ends[0] = 0 /\ ends[Len(parts)] = Len(n.query) + 1
        /\ \A j, k \in 0 .. Len(parts) : j < k => ends[j] < ends[k]
        /\ \A k \in 1 .. Len(parts) :
             SubSeq(n.query, ends[k - 1] + 1, ends[k] - 1) = parts[k]
  BY <1>1 DEF Joined
<1>5. ends[1] = 1
  <2>1. Len(n.query) = 0
    OBVIOUS
  <2>2. 0 \in 0 .. Len(parts) /\ 1 \in 0 .. Len(parts)
    BY <1>1, <1>2
  <2>3. ends[0] < ends[1] /\ ends[0] = 0
    BY <1>4, <2>2
  <2>4. ends[1] \in 0 .. Len(n.query) + 1
    BY <1>4, <2>2
  <2>5. ends[1] \in 0 .. 1
    BY <2>1, <2>4
  <2>. QED BY <2>3, <2>5
<1>6. SubSeq(n.query, 1, 0) = parts[1]
  <2>1. 1 \in 1 .. Len(parts)
    BY <1>1, <1>2
  <2>2. SubSeq(n.query, ends[1 - 1] + 1, ends[1] - 1) = parts[1]
    BY <1>4, <2>1
  <2>3. ends[1 - 1] + 1 = 1 /\ ends[1] - 1 = 0
    BY <1>4, <1>5
  <2>. QED BY <2>2, <2>3
<1>7. SubSeq(<<>>, 1, 0) = <<>>
  OBVIOUS
<1>. QED BY <1>3, <1>6, <1>7

(* A Shadowrocket address, decoded, runs on into the query, and the port   *)
(* with it.                                                                *)
LEMMA ShadowrocketRefused ==
  ASSUME NEW n, UrlParts(n), Shadowrocket(n)
  PROVE  Vless(UrlText(n)) = Invalid /\ UrlText(n) # <<>>
<1> DEFINE w == n.whole
           A == Address(n)
           Q == n.query
           s == UrlText(n)
           rest == Q \o After("#", n.name)
           rebuilt == A \o rest \o <<"?">>
           x == A \o Q
<1>1. /\ w \in Seq(Tokens) /\ w # <<>> /\ DecodeBase64(w) = A /\ ~n.slash
      /\ Free(w, {"?", "#"}) /\ Free(w, {"?"}) /\ Free(w, {":"})
      /\ IsSome(n.whole)
  <2>1. Free(w, SEPARATORS) /\ w \in Text
    BY DEF Shadowrocket, Wrapped
  <2>2. Free(w, {"?", "#"}) /\ Free(w, {"?"}) /\ Free(w, {":"})
    BY <2>1, FreeOfFewer DEF SEPARATORS
  <2>. QED BY <2>1, <2>2, TextTokens DEF Shadowrocket, Wrapped, IsSome, None
<1>2. /\ Q \in Seq(Tokens) /\ Free(Q, {"?"}) /\ Free(Q, {":"}) /\ Free(Q, {"#"})
      /\ Q # <<"/">> /\ n.params # <<>>
  <2>1. Free(Q, {":", "?"}) /\ n.params # <<>>
        /\ \A y \in DOMAIN Digits \union {"/"} : Q # <<y>>
    BY Zenon DEF Shadowrocket
  <2>2. Q \in Seq(Tokens)
    BY UrlTokens, Zenon
  <2>3. Free(Q, {"#"})
    BY Zenon DEF UrlParts
  <2> HIDE DEF Q
  <2>4. Free(Q, {"?"}) /\ Free(Q, {":"})
    BY <2>1, FreeOfFewer
  <2>5. Q # <<"/">>
    BY <2>1
  <2>. QED BY <2>1, <2>2, <2>3, <2>4, <2>5
<1>3. /\ IsSome(n.name) => n.name = Some(n.name[1]) /\ n.name[1] \in Seq(Tokens)
      /\ "?" \in Tokens /\ "#" \in Tokens
      /\ <<"?">> \in Seq(Tokens) /\ <<"#">> \in Seq(Tokens)
      /\ <<>> \in Seq(Tokens)
  BY UrlTokens, TokenFacts, OneToken
<1>4. /\ A \in Seq(Tokens) /\ Free(A, {"?", "#"}) /\ Len(A) > 0
      /\ A[Len(A)] = n.port
  BY AddressFacts
<1>5. Q # <<>>
  BY <1>2, QueryNotEmpty
<1>6. /\ s = w \o SlashOf(n) \o After("?", QueryOf(n)) \o After("#", n.name)
      /\ SlashOf(n) = <<>> /\ QueryOf(n) = Some(Q)
      /\ After("?", QueryOf(n)) = <<"?">> \o Q
  BY <1>1, <1>2, UrlTextFacts, SomeFacts DEF SlashOf, QueryOf, After
<1>7. s # <<>> /\ SplitOnce(SplitOnce(s, "#")[1], "?")[1] = w
  <2>1. s # <<>> /\ SplitOnce(SplitOnce(s, "#")[1], "?") = <<w \o SlashOf(n), QueryOf(n)>>
    <3> HIDE DEF w
    <3>. QED BY <1>1, <1>6, UrlCuts
  <2>2. w \o SlashOf(n) = w
    BY <1>1, <1>6, ConcatEmptySeq
  <2>. QED BY <2>1, <2>2
<1>8. rest \in Seq(Tokens) /\ After("#", n.name) \in Seq(Tokens)
  BY <1>2, <1>3, AfterFacts
<1>9. s = w \o <<"?">> \o rest
  <2> DEFINE h == After("#", n.name)
             m == <<"?">>
             wm == w \o m
  <2>1. s = w \o <<>> \o (m \o Q) \o h /\ w \o <<>> = w
    BY <1>1, <1>6, ConcatEmptySeq
  <2>2. m \in Seq(Tokens) /\ h \in Seq(Tokens)
    BY <1>3, <1>8
  <2>3. wm \in Seq(Tokens)
    BY <1>1, <2>2, ConcatProperties
  <2> HIDE DEF h, m, w, Q, s
  <2>4. w \o (m \o Q) = wm \o Q
    BY <1>1, <1>2, <2>2, TokensAssociate
  <2> HIDE DEF wm
  <2>5. (wm \o Q) \o h = wm \o (Q \o h)
    BY <1>2, <2>2, <2>3, TokensAssociate
  <2>6. s = wm \o (Q \o h)
    BY <2>1, <2>4, <2>5
  <2>. QED BY <2>6 DEF wm, h, m, Q
<1>10. SplitOnce(s, "?") = <<w, Some(rest)>>
  <2> HIDE DEF rest, s, w
  <2>. QED BY <1>1, <1>3, <1>8, <1>9, SplitTextFacts
<1>11. x \in Seq(Tokens) /\ Free(x, {"#"}) /\ Free(x, {"?"})
  <2>1. Free(A, {"#"}) /\ Free(A, {"?"})
    BY <1>4, FreeOfFewer
  <2> HIDE DEF A, Q
  <2>. QED BY <1>2, <1>4, <2>1, FreeFacts, ConcatProperties
<1>12. SplitOnce(SplitOnce(rebuilt, "#")[1], "?")[1] = x
  <2> HIDE DEF x, A, Q
  <2>1. CASE IsSome(n.name)
    <3> DEFINE y == n.name[1]
               z == y \o <<"?">>
               m == <<"?">>
               h == <<"#">>
    <3>1. y \in Seq(Tokens) /\ z \in Seq(Tokens) /\ m \in Seq(Tokens)
          /\ h \in Seq(Tokens) /\ rest = Q \o (h \o y)
      BY <1>3, <2>1, ConcatProperties DEF After
    <3> HIDE DEF y, m, h, rest
    <3>2. rebuilt = x \o h \o z
      <4>1. A \o (Q \o (h \o y)) = x \o (h \o y)
        <5> DEFINE hy == h \o y
        <5>1. hy \in Seq(Tokens)
          BY <3>1, ConcatProperties
        <5> HIDE DEF hy
        <5>2. A \o (Q \o hy) = (A \o Q) \o hy
          BY <1>2, <1>4, <5>1, TokensAssociate
        <5>. QED BY <5>2 DEF hy, x
      <4> DEFINE xh == x \o h
      <4>2. x \o (h \o y) = xh \o y
        BY <1>11, <3>1, TokensAssociate
      <4>3. xh \in Seq(Tokens)
        BY <1>11, <3>1, ConcatProperties
      <4> HIDE DEF xh
      <4>4. (xh \o y) \o m = xh \o (y \o m)
        BY <3>1, <4>3, TokensAssociate
      <4>5. rebuilt = A \o rest \o m /\ z = y \o m
        BY DEF m
      <4>. QED BY <3>1, <4>1, <4>2, <4>4, <4>5 DEF xh
    <3>3. SplitOnce(x \o h \o z, "#") = <<x, Some(z)>>
      <4> HIDE DEF z
      <4>. QED BY <1>3, <1>11, <3>1, SplitTextFacts DEF h
    <3>4. SplitOnce(x, "?") = <<x, None>>
      BY <1>3, <1>11, SplitTextFacts
    <3> HIDE DEF rebuilt, z
    <3>. QED BY <3>2, <3>3, <3>4
  <2>2. CASE ~IsSome(n.name)
    <3> DEFINE m == <<"?">>
               xm == x \o m
    <3>1. rest = Q
      BY <1>2, <2>2, ConcatEmptySeq DEF After
    <3>2. rebuilt = xm
      <4> HIDE DEF m
      <4>. QED BY <3>1 DEF x, m
    <3>3. m \in Seq(Tokens) /\ Free(m, {"#"}) /\ xm \in Seq(Tokens)
      BY <1>3, <1>11, FreeFacts, ConcatProperties
    <3>4. Free(xm, {"#"})
      <4> HIDE DEF m
      <4>. QED BY <1>11, <3>3, FreeFacts
    <3>5. SplitOnce(xm, "#") = <<xm, None>>
      <4> HIDE DEF xm
      <4>. QED BY <1>3, <3>3, <3>4, SplitTextFacts
    <3>6. SplitOnce(xm, "?") = <<x, Some(<<>>)>>
      <4>1. xm = x \o m \o <<>>
        <5>1. xm \o <<>> = xm
          <6> HIDE DEF xm
          <6>. QED BY <3>3, ConcatEmptySeq
        <5>. QED BY <5>1
      <4>2. SplitOnce(x \o <<"?">> \o <<>>, "?") = <<x, Some(<<>>)>>
        BY <1>3, <1>11, SplitTextFacts
      <4>. QED BY <4>1, <4>2
    <3> HIDE DEF rebuilt, xm
    <3>. QED BY <3>2, <3>5, <3>6
  <2>. QED BY <2>1, <2>2
<1>13. ~(IsSome(ParseUrlLike(s)) /\ IsSome(ParseUrlLike(s)[1].port))
  <2>1. DOMAIN w = 1 .. Len(w) /\ Len(w) \in Nat
    BY <1>1
  <2>2. \A i \in 1 .. Len(w) : w[i] # ":"
    BY <1>1, <2>1 DEF Free
  <2> HIDE DEF w, s
  <2>3. /\ Len(w) >= 2 => w[Len(w) - 1] # ":"
        /\ Len(w) >= 3 /\ w[Len(w)] = "/" => w[Len(w) - 2] # ":"
    BY <2>1, <2>2
  <2>. QED BY <1>1, <1>7, <2>3, NoPort
<1>14. ~(IsSome(ParseUrlLike(rebuilt)) /\ IsSome(ParseUrlLike(rebuilt)[1].port))
  <2>1. /\ Len(x) = Len(A) + Len(Q) /\ Len(A) \in Nat /\ Len(Q) \in Nat
        /\ Len(Q) # 0 /\ DOMAIN Q = 1 .. Len(Q)
        /\ \A i \in 1 .. Len(A) + Len(Q) :
             x[i] = IF i <= Len(A) THEN A[i] ELSE Q[i - Len(A)]
    <3> HIDE DEF A, Q
    <3>. QED BY <1>2, <1>4, <1>5, ConcatProperties
  <2>2. \A i \in 1 .. Len(Q) : Q[i] # ":"
    BY <1>2, <2>1 DEF Free
  <2>3. n.port # ":" /\ (Len(Q) = 1 => Q[1] # "/")
    <3>1. n.port # ":"
      BY DEF UrlParts, SEPARATORS
    <3>2. ASSUME Len(Q) = 1 PROVE Q = <<Q[1]>>
      BY <1>2, <3>2
    <3>. QED BY <1>2, <3>1, <3>2
  <2> HIDE DEF x, A, Q, rebuilt
  <2>4. ASSUME Len(x) >= 2 PROVE x[Len(x) - 1] # ":"
    <3>1. CASE Len(Q) >= 2
      <4>1. /\ Len(x) - 1 \in 1 .. Len(A) + Len(Q) /\ ~(Len(x) - 1 <= Len(A))
            /\ Len(x) - 1 - Len(A) \in 1 .. Len(Q)
        BY <2>1, <3>1
      <4>. QED BY <2>1, <2>2, <4>1
    <3>2. CASE Len(Q) = 1
      <4>1. /\ Len(x) - 1 \in 1 .. Len(A) + Len(Q) /\ Len(x) - 1 = Len(A)
        BY <1>4, <2>1, <3>2
      <4>. QED BY <1>4, <2>1, <2>3, <4>1
    <3>. QED BY <2>1, <3>1, <3>2
  <2>5. ASSUME Len(x) >= 3, x[Len(x)] = "/" PROVE x[Len(x) - 2] # ":"
    <3>1. CASE Len(Q) >= 3
      <4>1. /\ Len(x) - 2 \in 1 .. Len(A) + Len(Q) /\ ~(Len(x) - 2 <= Len(A))
            /\ Len(x) - 2 - Len(A) \in 1 .. Len(Q)
        BY <2>1, <3>1
      <4>. QED BY <2>1, <2>2, <4>1
    <3>2. CASE Len(Q) = 2
      <4>1. /\ Len(x) - 2 \in 1 .. Len(A) + Len(Q) /\ Len(x) - 2 = Len(A)
        BY <1>4, <2>1, <3>2
      <4>. QED BY <1>4, <2>1, <2>3, <4>1
    <3>3. CASE Len(Q) = 1
      <4>1. /\ Len(x) \in 1 .. Len(A) + Len(Q) /\ ~(Len(x) <= Len(A))
            /\ Len(x) - Len(A) = 1
        BY <1>4, <2>1, <3>3
      <4>2. x[Len(x)] = Q[1]
        BY <2>1, <4>1
      <4>. QED BY <2>3, <2>5, <3>3, <4>2
    <3>. QED BY <2>1, <3>1, <3>2, <3>3
  <2>. QED BY <1>11, <1>12, <2>4, <2>5, NoPort
<1>15. /\ IsSome(SplitOnce(s, "?")[2])
       /\ DecodeBase64(SplitOnce(s, "?")[1]) \o Or(SplitOnce(s, "?")[2], <<>>)
          \o <<"?">> = rebuilt
  <2> DEFINE cut == SplitOnce(s, "?")
             head == DecodeBase64(cut[1])
             tail == Or(cut[2], <<>>)
  <2> HIDE DEF s, rest, w, A
  <2>1. cut[1] = w /\ cut[2] = Some(rest)
    BY <1>10
  <2>2. head = A
    BY <1>1, <2>1, Zenon
  <2>3. IsSome(cut[2]) /\ tail = rest
    <3> HIDE DEF cut
    <3>. QED BY <2>1, SomeFacts DEF Or, OrElse
  <2>4. rebuilt = A \o rest \o <<"?">>
    OBVIOUS
  <2> HIDE DEF head, tail, rebuilt
  <2>5. head \o tail \o <<"?">> = rebuilt
    BY <2>2, <2>3, <2>4, Zenon
  <2>. QED BY <2>3, <2>5, Zenon DEF head, tail
<1> HIDE DEF rebuilt, s
<1>16. Vless(s) = Invalid
  BY <1>13, <1>14, <1>15 DEF Vless, IsSome
<1>. QED BY <1>7, <1>16 DEF s

(* The converter of a scheme is the one its lines are given to.            *)
LEMMA Chosen ==
  ASSUME NEW line, line.scheme \in KNOWN_SCHEMES
  PROVE  LET s == line.scheme
             r == line.rest
             c == ConvertNode(line)
         IN  /\ s = "vless" /\ r # <<>> => c = Vless(r)
             /\ s = "vmess" => c = Vmess(r)
             /\ s = "ss" => c = Ss(r)
             /\ s = "trojan" => c = Trojan(r)
             /\ s = "http" => c = Proxy("http", "HTTP", r)
             /\ s = "socks5" => c = Proxy("socks5", "SOCKS5", r)
             /\ s \in {"hysteria2", "hy2"} => c = Hysteria2(r)
             /\ s \in {"https", "socks"} => c = Invalid
<1> DEFINE s == line.scheme
           r == line.rest
           low == IF s \in DOMAIN Lower THEN Lower[s] ELSE s
<1>1. low = s
  BY LowerAssumption
<1>2. ConvertNode(line) =
        CASE low = "vless" -> IF s = low /\ r # <<>> THEN Vless(r) ELSE Invalid
        [] low = "vmess" -> IF s = low THEN Vmess(r) ELSE Invalid
        [] low = "ss" -> IF s = low THEN Ss(r) ELSE Invalid
        [] low = "trojan" -> IF s = low THEN Trojan(r) ELSE Invalid
        [] low \in {"http", "https"} ->
             IF s = "http" THEN Proxy("http", "HTTP", r) ELSE Invalid
        [] low \in {"socks5", "socks"} ->
             IF s = "socks5" THEN Proxy("socks5", "SOCKS5", r) ELSE Invalid
        [] low \in {"hysteria2", "hy2"} ->
             IF s = low THEN Hysteria2(r) ELSE Invalid
        [] OTHER -> Err("UnsupportedScheme")
  BY DEF ConvertNode
<1> HIDE DEF s, r, low
<1>. QED BY <1>1, <1>2 DEF s, r

(* A node written in any of the formats that the comments name is accepted *)
(* by the converter of its scheme, and its entry has all that its line     *)
(* says, but for three: https, socks and Shadowrocket vless are refused,   *)
(* however they are written (convert_node).                                *)
THEOREM WrittenTold ==
  ASSUME NEW n \in WRITTEN
  PROVE  /\ n.scheme \in KNOWN_SCHEMES
         /\ IF Refused(n) THEN ConvertNode(LineOf(n)) = Invalid
            ELSE \E m : ConvertNode(LineOf(n)) = Ok(m) /\ Tells(m, Sayings(n))
<1> DEFINE line == LineOf(n)
<1>1. /\ line.scheme = n.scheme
      /\ line.rest = IF n.scheme = "vmess" THEN <<n.word>> ELSE UrlText(n)
  BY DEF LineOf, Node
<1>2. CASE n.scheme = "vmess"
  <2>1. WellWrittenVmess(n)
    BY <1>2, WrittenAssumption
  <2>2. PICK m : /\ Vmess(<<n.word>>) = Ok(m)
                 /\ Tells(m, VmessSays(Json[Base64[n.word][1]].map))
    BY <2>1, VmessTold
  <2>3. n.scheme \in KNOWN_SCHEMES
    BY <1>2 DEF KNOWN_SCHEMES
  <2>4. ConvertNode(line) = Vmess(<<n.word>>)
    <3> HIDE DEF line
    <3>. QED BY <1>1, <1>2, <2>3, Chosen
  <2>5. Sayings(n) = VmessSays(Json[Base64[n.word][1]].map)
    BY <1>2 DEF Sayings
  <2>6. ConvertNode(line) = Ok(m)
    BY <2>2, <2>4
  <2>7. Tells(m, Sayings(n))
    BY <2>2, <2>5
  <2> HIDE DEF line
  <2>8. \E x : ConvertNode(line) = Ok(x) /\ Tells(x, Sayings(n))
    BY <2>6, <2>7
  <2>9. ~Refused(n)
    BY <1>2 DEF Refused
  <2>. QED BY <2>3, <2>8, <2>9 DEF line
<1>3. CASE n.scheme # "vmess" /\ Refused(n)
  <2>1. WellWrittenUrl(n)
    BY <1>3, WrittenAssumption
  <2>2. UrlParts(n)
    BY <2>1 DEF WellWrittenUrl
  <2>3. line.rest = UrlText(n)
    BY <1>1, <1>3
  <2>4. CASE n.scheme \in {"https", "socks"}
    <3>1. n.scheme \in KNOWN_SCHEMES
      BY <2>4 DEF KNOWN_SCHEMES
    <3>2. ConvertNode(line) = Invalid
      <4> HIDE DEF line
      <4>. QED BY <1>1, <2>4, <3>1, Chosen
    <3>. QED BY <1>3, <3>1, <3>2
  <2>5. CASE n.scheme = "vless" /\ IsSome(n.whole)
    <3>1. n.scheme \in KNOWN_SCHEMES
      BY <2>5 DEF KNOWN_SCHEMES
    <3>2. Shadowrocket(n)
      BY <2>1, <2>5 DEF WellWrittenUrl
    <3>3. Vless(UrlText(n)) = Invalid /\ UrlText(n) # <<>>
      BY <2>2, <3>2, ShadowrocketRefused
    <3>4. ConvertNode(line) = Invalid
      <4> HIDE DEF line
      <4>. QED BY <1>1, <2>3, <2>5, <3>1, <3>3, Chosen
    <3>. QED BY <1>3, <3>1, <3>4
  <2>. QED BY <1>3, <2>4, <2>5 DEF Refused
<1>4. CASE n.scheme # "vmess" /\ ~Refused(n)
  <2>1. WellWrittenUrl(n)
    BY <1>4, WrittenAssumption
  <2>2. UrlParts(n)
    BY <2>1 DEF WellWrittenUrl
  <2>3. line.rest = UrlText(n)
    BY <1>1, <1>4
  <2> DEFINE s == n.scheme
             plain == ~IsSome(n.whole) /\ Decoded(n.user) = n.said
                      /\ n.said # <<>>
             login == ~IsSome(n.whole) /\ IsLogin(n.said)
                      /\ Decoded(n.user) = Login(n.said)
  <2>14. s \notin {"https", "socks"} /\ (s = "vless" => ~IsSome(n.whole))
    BY <1>4 DEF Refused
  <2>4. s \in {"vless", "trojan", "hysteria2", "hy2", "http", "socks5", "ss"}
    BY <2>1, <2>14 DEF WellWrittenUrl
  <2>5. s \in {"vless", "trojan", "hysteria2", "hy2"} => plain
    BY <2>1, <2>14 DEF WellWrittenUrl
  <2>6. s \in {"http", "socks5"} => login
    BY <2>1 DEF WellWrittenUrl
  <2>7. s \in KNOWN_SCHEMES
    BY <2>4 DEF KNOWN_SCHEMES
  <2>8. s \in {"hysteria2", "hy2"} =>
          ConvertNode(line) = Hysteria2(UrlText(n))
    <3> HIDE DEF line
    <3>. QED BY <1>1, <2>3, <2>7, Chosen
  <2>9. CASE s = "vless"
    <3>1. UrlText(n) # <<>>
      BY <2>2, <2>5, <2>9, ParsedParts
    <3>2. ConvertNode(line) = Vless(UrlText(n))
      <4> HIDE DEF line
      <4>. QED BY <1>1, <2>3, <2>7, <2>9, <3>1, Chosen
    <3>3. Sayings(n) = CommonSays(n, "vless") \union VlessSays(n)
      BY <2>9 DEF Sayings
    <3>. QED BY <1>4, <2>2, <2>5, <2>7, <2>9, <3>2, <3>3, VlessTold
  <2>10. CASE s = "trojan"
    <3>1. ConvertNode(line) = Trojan(UrlText(n))
      <4> HIDE DEF line
      <4>. QED BY <1>1, <2>3, <2>7, <2>10, Chosen
    <3>2. Sayings(n) = CommonSays(n, "trojan") \union TrojanSays(n)
      BY <2>10 DEF Sayings
    <3>. QED BY <1>4, <2>2, <2>5, <2>7, <2>10, <3>1, <3>2, TrojanTold
  <2>11. CASE s \in {"hysteria2", "hy2"}
    <3>1. Sayings(n) = CommonSays(n, "hysteria2") \union Hysteria2Says(n)
      BY <2>11 DEF Sayings
    <3>. QED BY <1>4, <2>2, <2>5, <2>7, <2>8, <2>11, <3>1, Hysteria2Told
  <2>12. CASE s \in {"http", "socks5"}
    <3> DEFINE label == IF s = "http" THEN "HTTP" ELSE "SOCKS5"
    <3>1. ConvertNode(line) = Proxy(s, label, UrlText(n))
      <4> HIDE DEF line
      <4>. QED BY <1>1, <2>3, <2>7, <2>12, Chosen
    <3>2. Sayings(n) = CommonSays(n, s) \union ProxySays(n)
      BY <2>12 DEF Sayings
    <3> HIDE DEF label
    <3>. QED BY <1>4, <2>2, <2>6, <2>7, <2>12, <3>1, <3>2, ProxyTold
  <2>13. CASE s = "ss"
    <3>1. ConvertNode(line) = Ss(UrlText(n))
      <4> HIDE DEF line
      <4>. QED BY <1>1, <2>3, <2>7, <2>13, Chosen
    <3>2. Sayings(n) = CommonSays(n, "ss") \union SsSays(n)
      BY <2>13 DEF Sayings
    <3>3. \E m : /\ Ss(UrlText(n)) = Ok(m)
                 /\ Tells(m, CommonSays(n, "ss") \union SsSays(n))
      BY <2>1, <2>13, SsTold DEF WellWrittenUrl, Wrapped
    <3>. QED BY <1>4, <2>7, <3>1, <3>2, <3>3
  <2>. QED BY <1>4, <2>4, <2>9, <2>10, <2>11, <2>12, <2>13
<1>. QED BY <1>2, <1>3, <1>4

(* A list of such lines is accepted, and the entries are theirs, in order. *)
LEMMA ListTold ==
  ASSUME NEW lines, IsSequence(lines), Nodes(lines) # <<>>,
         \A i \in DOMAIN Nodes(lines) :
           \E m : ConvertNode(Nodes(lines)[i]) = Ok(m)
  PROVE  LET entries == SubList(NodeListToYaml(lines).ok, "proxies")
         IN  /\ IsOk(NodeListToYaml(lines))
             /\ \A i \in DOMAIN Nodes(lines) : \A m :
                  ConvertNode(Nodes(lines)[i]) = Ok(m) => entries[i].map = m
<1> DEFINE nodes == Nodes(lines)
           results == [i \in DOMAIN nodes |-> ConvertNode(nodes[i])]
           bad == {i \in DOMAIN results : ~IsOk(results[i])}
           members == [i \in DOMAIN results |-> Map(results[i].ok)]
           doc == Kv("proxies", List(members))
<1>1. NodeListToYaml(lines) =
        IF bad # {} THEN results[CHOOSE i \in bad : \A j \in bad : i <= j]
        ELSE IF results = <<>> THEN Err("NotAConfig") ELSE Ok(doc)
  BY DEF NodeListToYaml
<1>2. Len(nodes) \in Nat /\ DOMAIN nodes = 1 .. Len(nodes)
  <2>1. IsSequence(nodes)
    BY RowsAtIsSequence DEF Nodes
  <2> HIDE DEF nodes
  <2>. QED BY <2>1, SequenceFacts
<1>3. nodes # <<>> /\ Len(nodes) # 0
  <2>1. IsSequence(nodes)
    BY RowsAtIsSequence DEF Nodes
  <2>2. nodes # <<>>
    OBVIOUS
  <2> HIDE DEF nodes
  <2>. QED BY <2>1, <2>2, SequenceFacts
<1>4. bad = {}
  BY DEF IsOk, Ok
<1>5. results # <<>>
  <2>1. 1 \in DOMAIN nodes
    BY <1>2, <1>3
  <2>. QED BY <2>1
<1> HIDE DEF bad
<1>6. NodeListToYaml(lines) = Ok(doc)
  <2> HIDE DEF results, doc
  <2>. QED BY <1>1, <1>4, <1>5
<1>7. SubList(Ok(doc).ok, "proxies") = members
  <2>1. Single(doc, "proxies", List(members)) /\ Ok(doc).ok = doc
    BY KvFacts DEF Ok
  <2>2. IsList(List(members)) /\ List(members).list = members
    BY DEF IsList, List
  <2> HIDE DEF members, doc
  <2>. QED BY <2>1, <2>2 DEF Single, SubList
<1>8. IsOk(Ok(doc))
  BY DEF IsOk, Ok
<1>9. ASSUME NEW i \in DOMAIN nodes, NEW m, ConvertNode(nodes[i]) = Ok(m)
      PROVE  members[i].map = m
  BY <1>9 DEF Map, Ok
<1> HIDE DEF members, doc
<1>. QED BY <1>6, <1>7, <1>8, <1>9

(* A list with a refused line in it, and nothing worse, is refused.        *)
LEMMA ListRefused ==
  ASSUME NEW lines, IsSequence(lines),
         \A i \in DOMAIN Nodes(lines) :
           \/ ConvertNode(Nodes(lines)[i]) = Invalid
           \/ \E m : ConvertNode(Nodes(lines)[i]) = Ok(m),
         NEW k \in DOMAIN Nodes(lines), ConvertNode(Nodes(lines)[k]) = Invalid
  PROVE  NodeListToYaml(lines) = Invalid
<1> DEFINE nodes == Nodes(lines)
           results == [i \in DOMAIN nodes |-> ConvertNode(nodes[i])]
           bad == {i \in DOMAIN results : ~IsOk(results[i])}
           first == CHOOSE i \in bad : \A j \in bad : i <= j
<1>1. bad # {} => NodeListToYaml(lines) = results[first]
  BY DEF NodeListToYaml
<1>2. Len(nodes) \in Nat /\ DOMAIN nodes = 1 .. Len(nodes)
  <2>1. IsSequence(nodes)
    BY RowsAtIsSequence DEF Nodes
  <2> HIDE DEF nodes
  <2>. QED BY <2>1, SequenceFacts
<1>3. ~IsOk(Invalid) /\ \A m : IsOk(Ok(m))
  BY DEF IsOk, Ok, Invalid, Err
<1>4. \A i \in bad : results[i] = Invalid
  BY <1>3
<1>5. k \in bad
  BY <1>3
<1>6. first \in bad
  <2>1. bad \in SUBSET (1 .. Len(nodes)) /\ bad # {}
    BY <1>2, <1>5
  <2> HIDE DEF bad, nodes
  <2>2. \E i \in bad : \A j \in bad : i <= j
    BY <1>2, <2>1, LeastPosition
  <2>. QED BY <2>2
<1> HIDE DEF bad, results, first, nodes
<1>. QED BY <1>1, <1>4, <1>5, <1>6

(* What is well written is converted as it was written.                    *)
LEMMA WrittenIsTold == GeneratedInv => NodesAsWritten
<1> DEFINE refused == \E n \in WRITTEN : Refused(n) /\ LineOf(n) \in ToSet(Lines)
           told == /\ IsOk(answer)
                   /\ \A i \in DOMAIN Lines, n \in WRITTEN :
                        LineOf(n) = Lines[i] =>
                          \A saying \in Sayings(n) :
                            Holds(Entries[i].map, saying)
<1> SUFFICES ASSUME GeneratedInv, Lines # <<>>,
                    ToSet(Lines) \subseteq {LineOf(n) : n \in WRITTEN}
             PROVE  IF refused THEN answer = Invalid ELSE told
  BY DEF NodesAsWritten
<1> DEFINE t == Normalize(text)
<1>1. /\ "lines" \in DOMAIN t /\ IsSequence(t.lines) /\ DOMAIN t = {"lines"}
      /\ Lines = Nodes(t.lines)
  BY TextFacts DEF GeneratedInv, Lines
<1>2. answer = ParseSubscription(t)
  BY DEF GeneratedInv, SubscriptionToYaml
<1> HIDE DEF t
<1>3. \A i \in DOMAIN Lines : \E n \in WRITTEN : Lines[i] = LineOf(n)
  BY DEF ToSet
<1>5. LooksLikeNodeList(t.lines)
  <2>1. IsSequence(Lines)
    BY <1>1, RowsAtIsSequence DEF Nodes
  <2>2. 1 \in DOMAIN Lines
    BY <2>1, SequenceFacts
  <2>3. PICK n \in WRITTEN : Lines[1] = LineOf(n)
    BY <1>3, <2>2
  <2>4. Lines[1].scheme = n.scheme
    BY <2>3 DEF LineOf, Node
  <2>5. n.scheme \in KNOWN_SCHEMES
    BY WrittenTold
  <2>. QED BY <1>1, <2>4, <2>5 DEF LooksLikeNodeList
<1>6. answer = NodeListToYaml(t.lines)
  BY <1>1, <1>2, <1>5 DEF ParseSubscription
<1>7. ASSUME refused PROVE answer = Invalid
  <2>1. PICK n \in WRITTEN, k \in DOMAIN Lines : Refused(n) /\ LineOf(n) = Lines[k]
    BY <1>7 DEF ToSet
  <2>2. ConvertNode(Lines[k]) = Invalid
    BY <2>1, WrittenTold
  <2>3. \A i \in DOMAIN Lines : \/ ConvertNode(Lines[i]) = Invalid
                                \/ \E m : ConvertNode(Lines[i]) = Ok(m)
    BY <1>3, WrittenTold
  <2>4. NodeListToYaml(t.lines) = Invalid
    BY <1>1, <2>2, <2>3, ListRefused
  <2>. QED BY <1>6, <2>4
<1>8. ASSUME ~refused PROVE told
  <2>1. \A i \in DOMAIN Lines, n \in WRITTEN : LineOf(n) = Lines[i] => ~Refused(n)
    BY <1>8 DEF ToSet
  <2> HIDE DEF refused
  <2>2. \A i \in DOMAIN Lines : \E m : ConvertNode(Lines[i]) = Ok(m)
    BY <1>3, <2>1, WrittenTold
  <2>3. /\ IsOk(answer)
        /\ \A i \in DOMAIN Lines : \A m :
             ConvertNode(Lines[i]) = Ok(m) => Entries[i].map = m
    BY <1>1, <1>6, <2>2, ListTold DEF Entries
  <2>4. ASSUME NEW i \in DOMAIN Lines, NEW n \in WRITTEN, LineOf(n) = Lines[i]
        PROVE  \A saying \in Sayings(n) : Holds(Entries[i].map, saying)
    <3>1. PICK m : ConvertNode(LineOf(n)) = Ok(m) /\ Tells(m, Sayings(n))
      BY <2>1, <2>4, WrittenTold
    <3>2. Entries[i].map = m
      BY <2>3, <2>4, <3>1
    <3>. QED BY <3>1, <3>2 DEF Tells
  <2>. QED BY <2>3, <2>4
<1> HIDE DEF refused, told
<1>. QED BY <1>7, <1>8

(* A node list is converted whole or not at all, and as it was written:    *)
(* for every set of nodes well written in the formats that the converters' *)
(* comments name, of any length and spelling, a list of them is refused as *)
(* a whole when one is https, socks or Shadowrocket vless; otherwise it is *)
(* accepted and the entry of each line has all that the line says          *)
(* (node_list_to_yaml over the converters of vless, vmess, trojan, ss,     *)
(* hysteria2, http and socks5).                                            *)
THEOREM ListsConvertAlways == GenSpec => []ListsConvert
<1>1. GeneratedInv => NodesAsWritten
  BY WrittenIsTold
<1>. QED BY <1>1, GeneratedInvariant, ListIsWholeAlways, PTL DEF ListsConvert

=============================================================================
