--------------------------- MODULE ListHeap_proofs ---------------------------
(***************************************************************************)
(* Theorems about ListHeap for any number of cells, threads, names and     *)
(* calls.  What Chain reaches is defined by recursion over the heap, which *)
(* no prover here unfolds for every length.  So the invariant says of each *)
(* list which cells are in it and in which order: o gives a file its user, *)
(* and a cell of a listing its thread; r gives each cell a rank that goes  *)
(* down along the pointers.  Both are existentially quantified, and each   *)
(* step is shown to have an o and an r after it.  ChainIsList comes back   *)
(* from there to what Chain reaches.  The last part shows that the list    *)
(* implements the registry: the cells describe one map of users, and each  *)
(* operation of list.c changes it at one of its steps.                     *)
(***************************************************************************)
EXTENDS ListHeapRegistry, FiniteSetTheorems, TLAPS

-----------------------------------------------------------------------------
(* Linked lists.                                                           *)

\* What a cell of the heap h points to.
Link(h, c) == IF h[c].kind \in {"node", "file", "entry"} THEN h[c].next ELSE Nil

\* The cells S, linked one after the other from p on, in the order of r, the
\* first one highest.
IsList(h, S, r, p) ==
  /\ S \subseteq Cell
  /\ IF p = Nil THEN S = {} ELSE p \in S /\ \A c \in S : r[c] <= r[p]
  /\ \A c \in S : Link(h, c) = Nil \/ (Link(h, c) \in S /\ r[Link(h, c)] < r[c])
  /\ \A c, d \in S : r[d] < r[c] => Link(h, c) # Nil /\ r[d] <= r[Link(h, c)]
  /\ \A c, d \in S : r[c] = r[d] => c = d

\* c is p or comes after it.
Ahead(r, c, p) == p # Nil /\ r[c] <= r[p]

\* A list depends on what its cells point to, and on their ranks.
LEMMA ListFrame ==
  ASSUME NEW h, NEW g, NEW S, NEW r, NEW q, NEW p, IsList(h, S, r, p),
         \A c \in S : Link(g, c) = Link(h, c) /\ q[c] = r[c]
  PROVE  IsList(g, S, q, p)
BY DEF IsList

\* A cell in front.
LEMMA ListPush ==
  ASSUME NEW h, NEW g, NEW S, NEW r \in [Cell -> Nat], NEW q \in [Cell -> Nat], NEW p,
         NEW c \in Cell \ S,
         IsList(h, S, r, p),
         \A d \in S : Link(g, d) = Link(h, d) /\ q[d] = r[d],
         Link(g, c) = p, p # Nil => q[c] > r[p]
  PROVE  IsList(g, S \cup {c}, q, c)
<1>1. c # Nil /\ Nil \notin S
  BY CellAssumption DEF IsList
<1>2. \A d \in S : d # c /\ d \in Cell /\ q[d] < q[c]
  BY DEF IsList
<1>. QED BY <1>1, <1>2 DEF IsList

\* Without the first cell.
LEMMA ListDropHead ==
  ASSUME NEW h, NEW g, NEW S, NEW r \in [Cell -> Nat], NEW p \in S, IsList(h, S, r, p),
         \A d \in S \ {p} : Link(g, d) = Link(h, d)
  PROVE  IsList(g, S \ {p}, r, Link(h, p))
BY CellAssumption DEF IsList

\* Without the cell after q.
LEMMA ListDrop ==
  ASSUME NEW h, NEW g, NEW S, NEW r \in [Cell -> Nat], NEW p, NEW q \in S, NEW c \in S,
         IsList(h, S, r, p),
         Link(h, q) = c, Link(g, q) = Link(h, c),
         \A d \in S \ {c, q} : Link(g, d) = Link(h, d)
  PROVE  IsList(g, S \ {c}, r, p)
BY CellAssumption DEF IsList

\* A cell after the last one, q.
LEMMA ListAppend ==
  ASSUME NEW h, NEW g, NEW S, NEW r \in [Cell -> Nat], NEW s \in [Cell -> Nat], NEW p,
         NEW q \in S, NEW c \in Cell \ S, IsList(h, S, r, p),
         Link(h, q) = Nil, Link(g, q) = c, Link(g, c) = Nil,
         \A d \in S \ {q} : Link(g, d) = Link(h, d),
         \A d \in S : s[d] = r[d] + 1,
         s[c] = 0
  PROVE  IsList(g, S \cup {c}, s, p)
<1>1. c # Nil /\ Nil \notin S /\ c # q
  BY CellAssumption DEF IsList
<1>2. \A d \in S : d # c /\ d \in Cell /\ s[c] < s[d] /\ r[d] \in Nat /\ r[q] <= r[d]
  BY DEF IsList
<1>3. \A d, e \in S : (s[d] < s[e] <=> r[d] < r[e]) /\ (s[d] <= s[e] <=> r[d] <= r[e])
                       /\ (s[d] = s[e] <=> r[d] = r[e])
  BY <1>2
<1>4. S \cup {c} \subseteq Cell
      /\ IF p = Nil THEN S \cup {c} = {} ELSE p \in S \cup {c} /\ \A d \in S \cup {c} : s[d] <= s[p]
  BY <1>2, <1>3 DEF IsList
<1>5. \A d \in S \cup {c} :
        Link(g, d) = Nil \/ (Link(g, d) \in S \cup {c} /\ s[Link(g, d)] < s[d])
  BY <1>1, <1>2, <1>3 DEF IsList
<1>6. \A d, e \in S \cup {c} : s[e] < s[d] => Link(g, d) # Nil /\ s[e] <= s[Link(g, d)]
  <2>1. ASSUME NEW d \in S, NEW e \in S, s[e] < s[d]
        PROVE  Link(g, d) # Nil /\ s[e] <= s[Link(g, d)]
    <3>1. Link(h, d) # Nil /\ r[e] <= r[Link(h, d)] /\ Link(h, d) \in S
      BY <1>3, <2>1 DEF IsList
    <3>. QED BY <1>3, <3>1
  <2>2. ASSUME NEW d \in S PROVE Link(g, d) # Nil /\ s[c] <= s[Link(g, d)]
    <3>1. CASE d = q
      BY <1>1, <3>1
    <3>2. CASE d # q
      <4>1. r[q] < r[d]
        BY <1>2, <3>2 DEF IsList
      <4>2. Link(h, d) # Nil /\ Link(h, d) \in S
        BY <4>1 DEF IsList
      <4>. QED BY <1>2, <3>2, <4>2
    <3>. QED BY <3>1, <3>2
  <2>. QED BY <1>2, <2>1, <2>2
<1>7. \A d, e \in S \cup {c} : s[d] = s[e] => d = e
  BY <1>2, <1>3 DEF IsList
<1>. QED BY <1>4, <1>5, <1>6, <1>7 DEF IsList

\* Only one cell of a list points to another one, and none to the first.
LEMMA ListPredecessor ==
  ASSUME NEW h, NEW S, NEW r \in [Cell -> Nat], NEW p, IsList(h, S, r, p), NEW c \in S,
         Link(h, c) # Nil
  PROVE  Link(h, c) # p /\ Link(h, c) # c /\ \A d \in S : Link(h, d) = Link(h, c) => d = c
BY DEF IsList

\* What comes after p, and what comes after the next cell.
LEMMA AheadNext ==
  ASSUME NEW h, NEW S, NEW r \in [Cell -> Nat], NEW p, IsList(h, S, r, p), NEW c \in S
  PROVE  /\ Link(h, c) \in S \cup {Nil}
         /\ \A d \in S : Ahead(r, d, c) <=> d = c \/ Ahead(r, d, Link(h, c))
         /\ ~Ahead(r, c, Link(h, c))
BY CellAssumption DEF IsList, Ahead

\* All of a list comes after its head.
LEMMA AheadHead ==
  ASSUME NEW h, NEW S, NEW r \in [Cell -> Nat], NEW p, IsList(h, S, r, p)
  PROVE  \A d \in S : Ahead(r, d, p)
BY DEF IsList, Ahead

-----------------------------------------------------------------------------
(* What is reached from a pointer.                                         *)

\* Induction over the numbers up to m.
LEMMA UpTo ==
  ASSUME NEW S, NEW m \in Nat, 0 \in S, \A n \in 0 .. m : n \in S /\ n < m => n + 1 \in S
  PROVE  0 .. m \subseteq S
<1>. SUFFICES ASSUME NEW x \in 0 .. m, x \notin S PROVE FALSE
  OBVIOUS
<1>. DEFINE T == {0 .. k : k \in (0 .. m) \ S}
            F == FiniteSubsetsOf(Nat)
            R == StrictSubsetOrdering(Nat)
<1>1. IsWellFoundedOn(R, F)
  BY FS_StrictSubsetOrderingWellFounded
<1>2. T \subseteq F
  <2>1. ASSUME NEW k \in Nat PROVE 0 .. k \in F
    <3>1. IsFiniteSet(0 .. k) /\ 0 .. k \in SUBSET Nat
      BY FS_Interval
    <3>. QED BY <3>1 DEF FiniteSubsetsOf
  <2>. QED BY <2>1
<1>3. T # {}
  OBVIOUS
<1>4. \E y \in T : \A z \in T : ~ (<<z, y>> \in R)
  <2>. HIDE DEF T, F, R
  <2>. QED BY <1>1, <1>2, <1>3, WFMin
<1>5. PICK k \in (0 .. m) \ S : \A z \in T : ~ (<<z, 0 .. k>> \in R)
  BY <1>4
<1>6. k # 0 /\ k - 1 \in (0 .. m) \ S
  BY <1>5
<1>7. 0 .. k - 1 \in T
  BY <1>6
<1>8. <<0 .. k - 1, 0 .. k>> \in R
  BY <1>6 DEF StrictSubsetOrdering
<1>. QED BY <1>5, <1>7, <1>8

\* Where a pointer leads in one step, in two, ...
LEMMA PathSteps ==
  ASSUME NEW p
  PROVE  /\ Path(p)[0] = p
         /\ \A k \in 1 .. Cardinality(Cell) :
              Path(p)[k] = IF Path(p)[k - 1] = Nil THEN Nil ELSE After(Path(p)[k - 1])
<1>. DEFINE N == Cardinality(Cell)
            Steps(f, m) == f = [k \in 0 .. m |->
                                  IF k = 0 THEN p
                                  ELSE LET c == f[k - 1] IN IF c = Nil THEN Nil ELSE After(c)]
            S == {m \in Nat : \E f : Steps(f, m)}
<1>1. N \in Nat
  BY CellAssumption, FS_CardinalityType
<1>2. 0 \in S
  <2>1. Steps([k \in 0 .. 0 |-> p], 0)
    OBVIOUS
  <2>. QED BY <2>1
<1>3. ASSUME NEW m \in Nat, m \in S PROVE m + 1 \in S
  <2>1. PICK f : Steps(f, m)
    BY <1>3
  <2>. DEFINE g == [k \in 0 .. m + 1 |->
                      IF k = m + 1 THEN (IF f[m] = Nil THEN Nil ELSE After(f[m])) ELSE f[k]]
  <2>2. ASSUME NEW k \in 0 .. m + 1
        PROVE  g[k] = IF k = 0 THEN p
                      ELSE LET c == g[k - 1] IN IF c = Nil THEN Nil ELSE After(c)
    <3>1. CASE k = m + 1
      BY <3>1
    <3>2. CASE k # m + 1 /\ k # 0
      <4>1. k \in 0 .. m /\ k - 1 \in 0 .. m /\ k - 1 # m + 1
        BY <3>2
      <4>2. g[k] = f[k] /\ g[k - 1] = f[k - 1]
        BY <3>2, <4>1
      <4>3. f[k] = LET c == f[k - 1] IN IF c = Nil THEN Nil ELSE After(c)
        BY <2>1, <3>2, <4>1
      <4>. HIDE DEF g
      <4>. QED BY <3>2, <4>2, <4>3
    <3>3. CASE k = 0
      <4>1. 0 \in 0 .. m + 1 /\ 0 \in 0 .. m /\ 0 # m + 1
        OBVIOUS
      <4>2. f[0] = p
        BY <2>1, <4>1
      <4>. QED BY <3>3, <4>1, <4>2
    <3>. QED BY <3>1, <3>2, <3>3
  <2>3. Steps(g, m + 1)
    BY <2>2
  <2>4. \E e : Steps(e, m + 1)
    <3>. HIDE DEF g, Steps
    <3>. QED BY <2>3
  <2>. QED BY <2>4
<1>4. N \in S
  <2>1. \A n \in 0 .. N : n \in S /\ n < N => n + 1 \in S
    BY <1>3
  <2>. HIDE DEF S, N
  <2>2. 0 .. N \subseteq S
    BY <1>1, <1>2, <2>1, UpTo
  <2>. QED BY <1>1, <2>2
<1>5. Steps(Path(p), N)
  <2>1. PICK f : Steps(f, N)
    BY <1>4
  <2>2. Path(p) = CHOOSE e : Steps(e, N)
    BY DEF Path
  <2>. QED BY <2>1, <2>2, Zenon
<1>6. 0 \in 0 .. N
  BY <1>1
<1>7. Path(p)[0] = p
  BY <1>5, <1>6
<1>. QED BY <1>1, <1>5, <1>7

\* From a cell of S whose links stay in S and go down in rank, one stays in S
\* and comes to the end.
LEMMA ChainStays ==
  ASSUME NEW S \in SUBSET Cell, NEW r \in [Cell -> Nat], NEW p \in S \cup {Nil},
         \A c \in S : After(c) = Nil \/ (After(c) \in S /\ r[After(c)] < r[c])
  PROVE  /\ Ends(p) /\ Chain(p) \subseteq S
         /\ p # Nil => p \in Chain(p)
         /\ \A c \in Chain(p) : After(c) = Nil \/ After(c) \in Chain(p)
<1>. DEFINE N == Cardinality(Cell)
            path == Path(p)
<1>1. N \in Nat
  BY CellAssumption, FS_CardinalityType
<1>2. /\ path[0] = p
      /\ \A k \in 1 .. N : path[k] = IF path[k - 1] = Nil THEN Nil ELSE After(path[k - 1])
  BY PathSteps
<1>3. Chain(p) = {path[k] : k \in 0 .. N} \ {Nil} /\ (Ends(p) <=> path[N] = Nil)
  BY DEF Chain, Ends
<1>. HIDE DEF path, N
<1>4. \A k \in 0 .. N : path[k] \in S \cup {Nil}
  <2>. DEFINE T == {k \in 0 .. N : path[k] \in S \cup {Nil}}
  <2>1. 0 \in T
    BY <1>1, <1>2
  <2>2. ASSUME NEW k \in 0 .. N, k \in T, k < N PROVE k + 1 \in T
    <3>1. k + 1 \in 1 .. N /\ (k + 1) - 1 = k
      BY <1>1, <2>2
    <3>2. path[k + 1] = IF path[k] = Nil THEN Nil ELSE After(path[k])
      BY <1>2, <3>1
    <3>. QED BY <2>2, <3>1, <3>2
  <2>3. 0 .. N \subseteq T
    <3>. HIDE DEF T
    <3>. QED BY <1>1, <2>1, <2>2, UpTo
  <2>. QED BY <2>3
<1>5. \A k \in 0 .. N : path[k] # Nil =>
        \A j \in 0 .. N : j < k => path[j] # Nil /\ r[path[k]] < r[path[j]]
  <2>. DEFINE T == {k \in 0 .. N : path[k] # Nil =>
                      \A j \in 0 .. N : j < k => path[j] # Nil /\ r[path[k]] < r[path[j]]}
  <2>1. 0 \in T
    BY <1>1
  <2>2. ASSUME NEW k \in 0 .. N, k \in T, k < N PROVE k + 1 \in T
    <3>1. k + 1 \in 1 .. N /\ (k + 1) - 1 = k
      BY <1>1, <2>2
    <3>2. path[k + 1] = IF path[k] = Nil THEN Nil ELSE After(path[k])
      BY <1>2, <3>1
    <3>3. SUFFICES ASSUME path[k + 1] # Nil, NEW j \in 0 .. N, j < k + 1
                   PROVE  path[j] # Nil /\ r[path[k + 1]] < r[path[j]]
      BY <3>1
    <3>4. path[k] \in S /\ path[k + 1] = After(path[k])
      BY <1>4, <3>2, <3>3
    <3>5. path[k + 1] \in S /\ r[path[k + 1]] < r[path[k]]
      BY <3>3, <3>4
    <3>6. path[k] # Nil
      BY <3>2, <3>3
    <3>7. CASE j = k
      BY <3>5, <3>6, <3>7
    <3>8. CASE j < k
      <4>1. path[j] # Nil /\ r[path[k]] < r[path[j]]
        BY <2>2, <3>6, <3>8
      <4>2. path[j] \in S
        BY <1>4, <4>1
      <4>. QED BY <3>4, <3>5, <4>1, <4>2
    <3>. QED BY <3>3, <3>7, <3>8
  <2>3. 0 .. N \subseteq T
    <3>. HIDE DEF T
    <3>. QED BY <1>1, <2>1, <2>2, UpTo
  <2>. QED BY <2>3
<1>6. path[N] = Nil
  <2>. SUFFICES ASSUME path[N] # Nil PROVE FALSE
    OBVIOUS
  <2>. DEFINE f == [k \in 0 .. N |-> path[k]]
  <2>1. \A k \in 0 .. N : path[k] # Nil /\ path[k] \in S
    <3>1. N \in 0 .. N
      BY <1>1
    <3>2. \A k \in 0 .. N : k < N => path[k] # Nil
      BY <1>5, <3>1
    <3>3. \A k \in 0 .. N : k # N => k < N
      BY <1>1
    <3>. QED BY <1>4, <3>2, <3>3
  <2>2. f \in [0 .. N -> Cell]
    BY <2>1
  <2>3. IsFiniteSet(0 .. N) /\ Cardinality(0 .. N) = N + 1
    BY <1>1, FS_Interval
  <2>4. Cardinality(0 .. N) > Cardinality(Cell)
    BY <1>1, <2>3 DEF N
  <2>5. \E j, k \in 0 .. N : j # k /\ f[j] = f[k]
    <3>. HIDE DEF f
    <3>. QED BY <2>2, <2>3, <2>4, CellAssumption, FS_PigeonHole
  <2>6. PICK j \in 0 .. N, k \in 0 .. N : j # k /\ path[j] = path[k]
    BY <2>5
  <2>7. j < k \/ k < j
    BY <1>1, <2>6
  <2>8. r[path[j]] < r[path[k]] \/ r[path[k]] < r[path[j]]
    BY <1>5, <2>1, <2>7
  <2>. QED BY <2>1, <2>6, <2>8
<1>7. p # Nil => p \in Chain(p)
  BY <1>1, <1>2, <1>3
<1>8. ASSUME NEW c \in Chain(p) PROVE After(c) = Nil \/ After(c) \in Chain(p)
  <2>1. PICK k \in 0 .. N : c = path[k] /\ path[k] # Nil
    BY <1>3
  <2>2. k + 1 \in 1 .. N /\ (k + 1) - 1 = k /\ k + 1 \in 0 .. N
    BY <1>1, <1>6, <2>1
  <2>3. path[k + 1] = After(c)
    BY <1>2, <2>1, <2>2
  <2>. QED BY <1>3, <2>2, <2>3
<1>. QED BY <1>3, <1>4, <1>6, <1>7, <1>8

\* What a cell points to, now.
LEMMA AfterIsLink == \A c : After(c) = Link(heap, c)
BY DEF After, Link

\* From the head of a list one comes to all of it.
LEMMA ChainIsList ==
  ASSUME NEW S, NEW r \in [Cell -> Nat], NEW p, IsList(heap, S, r, p)
  PROVE  Chain(p) = S /\ Ends(p)
<1>1. /\ S \in SUBSET Cell /\ p \in S \cup {Nil}
      /\ \A c \in S : After(c) = Nil \/ (After(c) \in S /\ r[After(c)] < r[c])
      /\ IF p = Nil THEN S = {} ELSE p \in S /\ \A c \in S : r[c] <= r[p]
      /\ \A c, d \in S : r[d] < r[c] => After(c) # Nil /\ r[d] <= r[After(c)]
      /\ \A c, d \in S : r[c] = r[d] => c = d
  BY AfterIsLink DEF IsList
<1>2. /\ Ends(p) /\ Chain(p) \subseteq S
      /\ p # Nil => p \in Chain(p)
      /\ \A c \in Chain(p) : After(c) = Nil \/ After(c) \in Chain(p)
  BY <1>1, ChainStays
<1>3. SUFFICES ASSUME NEW x \in S, x \notin Chain(p) PROVE FALSE
  BY <1>2
<1>. DEFINE N == Cardinality(Cell)
            path == Path(p)
            T == {k \in 0 .. N : path[k] \in S /\ r[path[k]] > r[x]}
<1>4. N \in Nat
  BY CellAssumption, FS_CardinalityType
<1>5. /\ path[0] = p
      /\ \A k \in 1 .. N : path[k] = IF path[k - 1] = Nil THEN Nil ELSE After(path[k - 1])
  BY PathSteps
<1>6. Chain(p) = {path[k] : k \in 0 .. N} \ {Nil} /\ path[N] = Nil
  BY <1>2 DEF Chain, Ends
<1>7. Nil \notin S
  BY <1>1, CellAssumption
<1>. HIDE DEF path, N
<1>8. 0 \in T
  BY <1>1, <1>2, <1>3, <1>4, <1>5
<1>9. ASSUME NEW k \in 0 .. N, k \in T, k < N PROVE k + 1 \in T
  <2>1. k + 1 \in 1 .. N /\ (k + 1) - 1 = k /\ k + 1 \in 0 .. N
    BY <1>4, <1>9
  <2>2. path[k] \in S /\ r[path[k]] > r[x] /\ path[k + 1] = After(path[k])
    BY <1>5, <1>7, <1>9, <2>1
  <2>3. path[k + 1] \in S /\ r[x] <= r[path[k + 1]]
    BY <1>1, <1>3, <2>2
  <2>4. path[k + 1] # x
    BY <1>3, <1>6, <1>7, <2>1
  <2>5. r[path[k + 1]] # r[x] /\ r[path[k + 1]] \in Nat /\ r[x] \in Nat
    BY <1>1, <1>3, <2>3, <2>4
  <2>. QED BY <2>1, <2>3, <2>5
<1>10. N \in T
  <2>. HIDE DEF T
  <2>1. 0 .. N \subseteq T
    BY <1>4, <1>8, <1>9, UpTo
  <2>. QED BY <1>4, <2>1
<1>. QED BY <1>6, <1>7, <1>10
-----------------------------------------------------------------------------
(* The inductive invariant.                                                *)

\* Where a thread is while it holds the mutex, and everywhere.
Section == {"find", "found", "absent", "free", "file", "target", "fill"}
PcSet == {"idle", "lock", "send", "return"} \cup Section

\* What the cells hold: list.h's structures, and what malloc and free leave.
Ref == Cell \cup {Nil}
Node == [kind : {"node"}, name : User, addr : Addr \cup {Nil}, list_files : Ref, next : Ref]
FileNode == [kind : {"file"}, name : File, desc : Desc, next : Ref]
Shows == UserEntry \cup FileEntry
Entry == [kind : {"entry"}, shows : Shows, next : Ref]
Content == {Free, Raw, Lost} \cup Node \cup FileNode \cup Entry

\* What the variables hold.
HeapTypes ==
  /\ alive \in BOOLEAN
  /\ heap \in [Cell -> Content]
  /\ messages \in Ref /\ mutex \in Thread \cup {Nil}
  /\ pc \in [Thread -> PcSet]
  /\ req \in [Thread -> Request \cup {Nil}]
  /\ ans \in [Thread -> Answer \cup {Nil}]
  /\ {current, previous, scan, before, tail} \subseteq Ref
  /\ reply \in [Thread -> Ref]
  /\ left \in [Thread -> Nat]
  /\ sent \in [Thread -> SUBSET Shows]

\* Who holds the mutex, and which operations come where.
Control(t) ==
  /\ pc[t] \in Section <=> mutex = t
  /\ req[t] = Nil <=> pc[t] = "idle"
  /\ ans[t] = Nil <=> pc[t] \notin {"free", "send", "return"}
  /\ pc[t] = "free" => Asks(t, {"UNREGISTER"}) /\ ans[t].out = {}
  /\ pc[t] = "file" => Asks(t, {"PUBLISH", "DELETE"})
  /\ pc[t] = "target" => Asks(t, {"LIST_CONTENT"})
  /\ pc[t] \in {"fill", "send"} => Lists(t)

\* The cells that hold a k.
Kind(k) == {c \in Cell : heap[c].kind = k}

\* The users in the list: all but one that is being freed.
Doomed == {c \in Cell : c = current /\ \E t \in Thread : pc[t] = "free"}
Listed == Kind("node") \ Doomed

\* The files of the node n, and the first one; the cells of t's listing.
Owned(o, n) == {f \in Kind("file") : o[f] = n}
FirstFile(n) == IF n \in Doomed THEN scan ELSE heap[n].list_files
Mine(o, t) == {c \in Kind("raw") \cup Kind("entry") : o[c] = t}

\* The names of S differ.
Distinct(S) == \A m, n \in S : heap[m].name = heap[n].name => m = n

\* The users are a list from messages, and each one's files a list from its node.
UsersSound(r) == IsList(heap, Listed, r, messages) /\ Distinct(Listed)
FilesSound(o, r) ==
  /\ \A f \in Kind("file") : o[f] \in Kind("node")
  /\ \A n \in Kind("node") : IsList(heap, Owned(o, n), r, FirstFile(n)) /\ Distinct(Owned(o, n))

\* The user who calls is in the list, and connected.
Asker(t) == \E n \in Listed : heap[n].name = req[t].user /\ heap[n].addr # Nil

\* The walk of find has not passed the user it looks for, and previous is one behind.
Walking(r, t) ==
  /\ current \in Listed \cup {Nil}
  /\ \A n \in Listed : heap[n].name = req[t].user => Ahead(r, n, current)
  /\ IF previous = Nil THEN current = messages
                       ELSE heap[previous].next = current

\* Where the walk of the users ended.
Standing(t) ==
  /\ pc[t] = "absent" => current = Nil
  /\ pc[t] \in {"found", "file"} => current \in Listed /\ heap[current].name = req[t].user
  /\ pc[t] = "free" => current \in Kind("node")
  /\ pc[t] = "fill" => current \in Listed

\* The walk of the user's files, in the same way.
AtFile(o, r, t) ==
  /\ heap[current].addr # Nil
  /\ scan \in Owned(o, current) \cup {Nil}
  /\ \A f \in Owned(o, current) : heap[f].name = req[t].file => Ahead(r, f, scan)
  /\ IF before = Nil THEN scan = heap[current].list_files
                     ELSE before \in Owned(o, current) /\ heap[before].next = scan

\* list_content's walk to the other user.
AtTarget(r, t) ==
  /\ current \in Listed \cup {Nil}
  /\ \A n \in Listed : heap[n].name = req[t].other => Ahead(r, n, current)
  /\ Asker(t)

\* What is copied next is a user, or a file of the other user.
AtFill(o, t) ==
  /\ Asker(t)
  /\ IF Asks(t, {"LIST_USERS"})
       THEN scan \in Listed \cup {Nil}
       ELSE heap[current].name = req[t].other /\ scan \in Owned(o, current) \cup {Nil}

\* The pointers of the thread in the section ...
Cursors(o, r, t) ==
  /\ mutex = t => /\ previous \in Listed \cup {Nil}
                  /\ Standing(t)
                  /\ pc[t] \notin {"free", "file", "fill"} => scan = Nil
                  /\ pc[t] # "file" => before = Nil
                  /\ pc[t] # "fill" => tail = Nil
  /\ pc[t] \in {"find", "found", "absent"} => Walking(r, t)
  /\ pc[t] = "file" => AtFile(o, r, t)
  /\ pc[t] = "target" => AtTarget(r, t)
  /\ pc[t] = "fill" => AtFill(o, t)

\* ... and that there are none when the mutex is free.
AtRest == mutex = Nil => current = Nil /\ previous = Nil /\ scan = Nil /\ before = Nil /\ tail = Nil

\* The entries of a listing: the rank of one is the number of those to come, itself
\* included; a cell that was not filled in has rank 0.
Entries(o, t) == {c \in Mine(o, t) : heap[c].kind = "entry"}
Numbered(o, r, t) ==
  /\ reply[t] \in Mine(o, t) \cup {Nil}
  /\ \A c \in Mine(o, t) \ Entries(o, t) : r[c] = 0
  /\ \A c \in Entries(o, t) : /\ r[c] >= 1
                              /\ heap[c].next = Nil => r[c] = 1 /\ Mine(o, t) = Entries(o, t)
                              /\ heap[c].next # Nil => /\ heap[c].next \in Mine(o, t)
                                                       /\ r[heap[c].next] = r[c] - 1
  /\ \A c, d \in Mine(o, t) : r[c] = r[d] => c = d

\* Before it is filled in there is the first cell at most.
Empty(o, t) ==
  /\ left[t] = 0 /\ sent[t] = {}
  /\ Mine(o, t) \subseteq {reply[t]} /\ Entries(o, t) = {}
  /\ pc[t] = "idle" => reply[t] = Nil

\* What a listing shows of the users and of the files in S, and what its cells S show.
Copies(S) == {[name |-> heap[n].name, addr |-> heap[n].addr] : n \in {m \in S : heap[m].addr # Nil}}
FileCopies(S) == {[name |-> heap[f].name, desc |-> heap[f].desc] : f \in S}
Displayed(S) == {heap[c].shows : c \in S}

\* While it is filled in, it shows what the walk has passed, and of its cells only
\* tail is as malloc returned it.
Passed(r, S) == {c \in S : ~Ahead(r, c, scan)}
Filling(o, r, t) ==
  /\ sent[t] = {}
  /\ IsList(heap, Mine(o, t), r, reply[t])
  /\ left[t] = IF Asks(t, {"LIST_USERS"}) /\ reply[t] # Nil THEN r[reply[t]] ELSE 0
  /\ Mine(o, t) \ Entries(o, t) \subseteq {tail}
  /\ tail # Nil => tail \in Mine(o, t) /\ (scan # Nil => tail \notin Entries(o, t))
  /\ Asks(t, {"LIST_CONTENT"}) /\ scan = Nil => Mine(o, t) = Entries(o, t)
  /\ Displayed(Entries(o, t)) = IF Asks(t, {"LIST_USERS"}) THEN Copies(Passed(r, Listed))
                                ELSE FileCopies(Passed(r, Owned(o, current)))

\* While it is sent, what was sent and what is to come is the answer.
ToCome(o, r, t) == {c \in Entries(o, t) : Ahead(r, c, reply[t])}
Sending(o, r, t) ==
  /\ More(t) => /\ reply[t] \in Entries(o, t)
                /\ Asks(t, {"LIST_USERS"}) => left[t] = r[reply[t]]
                /\ Asks(t, {"LIST_CONTENT"}) => Mine(o, t) = Entries(o, t)
                /\ sent[t] \cup Displayed(ToCome(o, r, t)) = ans[t].out
  /\ ~More(t) => sent[t] = ans[t].out

\* A listing, wherever its thread is.
Listing(o, r, t) ==
  /\ Numbered(o, r, t)
  /\ pc[t] \notin {"fill", "send", "return"} => Empty(o, t)
  /\ pc[t] = "fill" => Filling(o, r, t)
  /\ pc[t] = "send" => Sending(o, r, t)
  /\ pc[t] = "return" => sent[t] = ans[t].out

\* The invariant.
Controls == \A t \in Thread : Control(t)
Shape(o, r) ==
  /\ UsersSound(r) /\ FilesSound(o, r)
  /\ \A t \in Thread : Cursors(o, r, t) /\ Listing(o, r, t)
Owner == [Cell -> Cell \cup Thread]
Rank == [Cell -> Nat]
HeapInv == HeapTypes /\ Controls /\ AtRest /\ \E o \in Owner, r \in Rank : Shape(o, r)

-----------------------------------------------------------------------------
(* What the types say.                                                     *)

\* The fields of a request.
LEMMA RequestFields ==
  ASSUME NEW q \in Request
  PROVE  /\ q.op \in {"REGISTER", "UNREGISTER", "CONNECT", "DISCONNECT", "PUBLISH", "DELETE",
                      "LIST_USERS", "LIST_CONTENT"}
         /\ q.user \in User
         /\ q.op = "CONNECT" => q.addr \in Addr
         /\ q.op \in {"PUBLISH", "DELETE"} => q.file \in File
         /\ q.op = "PUBLISH" => q.desc \in Desc
         /\ q.op = "LIST_CONTENT" => q.other \in User
BY DEF Request

\* What a cell holds, by its kind.
LEMMA Contents ==
  ASSUME HeapTypes, NEW c \in Cell
  PROVE  /\ heap[c].kind \in {"free", "raw", "lost", "node", "file", "entry"}
         /\ heap[c].kind = "free" <=> heap[c] = Free
         /\ heap[c].kind = "raw" <=> heap[c] = Raw
         /\ heap[c].kind = "node" <=> heap[c] \in Node
         /\ heap[c].kind = "file" <=> heap[c] \in FileNode
         /\ heap[c].kind = "entry" <=> heap[c] \in Entry
<1>1. heap[c] \in Content
  BY DEF HeapTypes
<1>2. /\ Free.kind = "free" /\ Raw.kind = "raw" /\ Lost.kind = "lost"
      /\ \A x \in Node : x.kind = "node"
      /\ \A x \in FileNode : x.kind = "file"
      /\ \A x \in Entry : x.kind = "entry"
  BY DEF Free, Raw, Lost, Node, FileNode, Entry
<1>. QED BY <1>1, <1>2 DEF Content

\* The pointers in it.
LEMMA Pointers ==
  ASSUME HeapTypes, NEW c \in Cell
  PROVE  /\ heap[c].kind = "node" => heap[c].list_files \in Ref /\ heap[c].next \in Ref
         /\ heap[c].kind = "file" => heap[c].next \in Ref
         /\ heap[c].kind = "entry" => heap[c].next \in Ref
         /\ Link(heap, c) \in Ref
         /\ heap[c].kind \in {"node", "file", "entry"} => Link(heap, c) = heap[c].next
         /\ heap[c].kind \notin {"node", "file", "entry"} => Link(heap, c) = Nil
<1>1. /\ \A x \in Node : x.list_files \in Ref /\ x.next \in Ref
      /\ \A x \in FileNode : x.next \in Ref
      /\ \A x \in Entry : x.next \in Ref
  BY DEF Node, FileNode, Entry
<1>. QED BY <1>1, Contents DEF Link, Ref

\* A thread inside an operation is the one that holds the mutex.
LEMMA Inside ==
  ASSUME HeapTypes, Controls, NEW t \in Thread, pc[t] \in Section
  PROVE  /\ mutex = t /\ t # Nil
         /\ \A s \in Thread : s # t => pc[s] \notin Section
         /\ req[t] \in Request /\ req[t] # Nil
BY NilAssumption DEF HeapTypes, Controls, Control, Section

\* Nothing is being freed unless a thread is at it.
LEMMA NothingDoomed ==
  ASSUME \A s \in Thread : pc[s] # "free"
  PROVE  Doomed = {} /\ Listed = Kind("node") /\ \A n : FirstFile(n) = heap[n].list_files
BY DEF Doomed, Listed, FirstFile

-----------------------------------------------------------------------------
(* What a step leaves alone.                                               *)

\* The cells of a thread's listing are what they were.
SameListing(o, r, p, q, t) ==
  \A c \in Cell : /\ heap'[c].kind \in {"raw", "entry"} /\ p[c] = t
                     <=> heap[c].kind \in {"raw", "entry"} /\ o[c] = t
                  /\ heap[c].kind \in {"raw", "entry"} /\ o[c] = t =>
                       heap'[c] = heap[c] /\ q[c] = r[c]

\* So they are the same cells.
LEMMA SameCells ==
  ASSUME NEW o, NEW r, NEW p, NEW q, NEW t, SameListing(o, r, p, q, t)
  PROVE  /\ Mine(p, t)' = Mine(o, t) /\ Entries(p, t)' = Entries(o, t)
         /\ \A c \in Mine(o, t) : heap'[c] = heap[c] /\ q[c] = r[c]
<1>1. \A c \in Cell : c \in Mine(o, t) <=> heap[c].kind \in {"raw", "entry"} /\ o[c] = t
  BY DEF Mine, Kind
<1>2. \A c \in Cell : c \in Mine(p, t)' <=> heap'[c].kind \in {"raw", "entry"} /\ p[c] = t
  BY DEF Mine, Kind
<1>3. Mine(p, t)' = Mine(o, t)
  <2>1. Mine(o, t) \subseteq Cell /\ Mine(p, t)' \subseteq Cell
    BY DEF Mine, Kind
  <2>. QED BY <1>1, <1>2, <2>1 DEF SameListing
<1>4. \A c \in Mine(o, t) : heap'[c] = heap[c] /\ q[c] = r[c]
  BY <1>1 DEF SameListing, Mine, Kind
<1>. QED BY <1>3, <1>4 DEF Entries

\* A listing nobody touches is in the state it was in.
LEMMA ListingApart ==
  ASSUME NEW o, NEW r, NEW p, NEW q, NEW t \in Thread, Listing(o, r, t),
         SameListing(o, r, p, q, t),
         pc'[t] = pc[t], req'[t] = req[t], ans'[t] = ans[t],
         reply'[t] = reply[t], left'[t] = left[t], sent'[t] = sent[t],
         pc[t] # "fill"
  PROVE  Listing(p, q, t)'
<1>1. /\ Mine(p, t)' = Mine(o, t) /\ Entries(p, t)' = Entries(o, t)
      /\ \A c \in Mine(o, t) : heap'[c] = heap[c] /\ q[c] = r[c]
      /\ Entries(o, t) \subseteq Mine(o, t)
  BY SameCells DEF Entries
<1>2. Numbered(p, q, t)'
  BY <1>1 DEF Listing, Numbered
<1>3. pc[t] \notin {"fill", "send", "return"} => Empty(p, t)'
  BY <1>1 DEF Listing, Empty
<1>4. CASE pc[t] = "send"
  <2>1. Sending(o, r, t) /\ (More(t)' <=> More(t)) /\ \A ops : Asks(t, ops)' <=> Asks(t, ops)
    BY <1>4 DEF Listing, More, Asks
  <2>2. More(t) => ToCome(p, q, t)' = ToCome(o, r, t)
    BY <1>1, <2>1 DEF ToCome, Ahead, Sending
  <2>3. PICK S : S = ToCome(o, r, t)
    OBVIOUS
  <2>4. Displayed(S)' = Displayed(S)
    BY <1>1, <2>3 DEF Displayed, ToCome
  <2>5. More(t) => Displayed(ToCome(p, q, t))' = Displayed(ToCome(o, r, t))
    BY <2>2, <2>3, <2>4 DEF Displayed
  <2>6. Sending(p, q, t)'
    <3>1. CASE More(t)
      <4>1. /\ reply[t] \in Entries(o, t)
            /\ Asks(t, {"LIST_USERS"}) => left[t] = r[reply[t]]
            /\ Asks(t, {"LIST_CONTENT"}) => Mine(o, t) = Entries(o, t)
            /\ sent[t] \cup Displayed(ToCome(o, r, t)) = ans[t].out
        BY <2>1, <3>1 DEF Sending
      <4>2. sent'[t] \cup Displayed(ToCome(p, q, t))' = ans'[t].out
        BY <2>5, <3>1, <4>1
      <4>3. q[reply[t]] = r[reply[t]]
        BY <1>1, <4>1
      <4>. QED BY <1>1, <2>1, <3>1, <4>1, <4>2, <4>3 DEF Sending
    <3>2. CASE ~More(t)
      BY <2>1, <3>2 DEF Sending
    <3>. QED BY <3>1, <3>2
  <2>. QED BY <1>2, <1>4, <2>6 DEF Listing
<1>. QED BY <1>2, <1>3, <1>4 DEF Listing

\* Nor is one that has not begun, until it is returned empty.
LEMMA ListingEarly ==
  ASSUME NEW o, NEW r, NEW p, NEW q, NEW t \in Thread, Listing(o, r, t),
         SameListing(o, r, p, q, t),
         pc[t] \notin {"fill", "send", "return"},
         \/ pc'[t] \notin {"idle", "fill", "send", "return"}
         \/ pc'[t] = "return" /\ ans'[t].out = {},
         reply'[t] = reply[t], left'[t] = left[t], sent'[t] = sent[t]
  PROVE  Listing(p, q, t)'
<1>1. /\ Mine(p, t)' = Mine(o, t) /\ Entries(p, t)' = Entries(o, t)
      /\ \A c \in Mine(o, t) : heap'[c] = heap[c] /\ q[c] = r[c]
      /\ Entries(o, t) \subseteq Mine(o, t)
  BY SameCells DEF Entries
<1>2. Numbered(p, q, t)'
  BY <1>1 DEF Listing, Numbered
<1>. QED BY <1>1, <1>2 DEF Listing, Empty

\* What is said of the pointers of a thread that is not inside holds anyhow.
LEMMA CursorsOutside ==
  ASSUME NEW o, NEW r, NEW s \in Thread, Control(s)', mutex' # s
  PROVE  Cursors(o, r, s)'
BY DEF Cursors, Control, Section

\* Steps that do not touch the users' list.
Still(o, r, p, q) ==
  /\ messages' = messages /\ \A s \in Thread : pc'[s] = "free" <=> pc[s] = "free"
  /\ current' = current \/ \A s \in Thread : pc[s] # "free"
  /\ scan' = scan \/ \A s \in Thread : pc[s] # "free"
  /\ \A c \in Cell : heap[c].kind \in {"node", "file"} \/ heap'[c].kind \in {"node", "file"} =>
                       heap'[c] = heap[c] /\ p[c] = o[c] /\ q[c] = r[c]

\* They leave the users and their files as they are.
LEMMA StillSame ==
  ASSUME NEW o, NEW r, NEW p, NEW q, Still(o, r, p, q)
  PROVE  /\ Kind("node")' = Kind("node") /\ Kind("file")' = Kind("file") /\ Listed' = Listed
         /\ \A n : Owned(p, n)' = Owned(o, n)
         /\ \A n : FirstFile(n)' = IF n \in Kind("node") THEN FirstFile(n) ELSE FirstFile(n)'
         /\ \A c \in Kind("node") \cup Kind("file") : heap'[c] = heap[c] /\ q[c] = r[c] /\ p[c] = o[c]
<1>1. Kind("node")' = Kind("node") /\ Kind("file")' = Kind("file")
  BY DEF Still, Kind
<1>2. \A c \in Kind("node") \cup Kind("file") : heap'[c] = heap[c] /\ q[c] = r[c] /\ p[c] = o[c]
  BY DEF Still, Kind
<1>3. ASSUME NEW n PROVE Owned(p, n)' = Owned(o, n)
  BY <1>1, <1>2 DEF Owned
<1>4. Doomed' = Doomed /\ (Doomed # {} => scan' = scan)
  BY DEF Doomed, Still
<1>5. ASSUME NEW n \in Kind("node") PROVE FirstFile(n)' = FirstFile(n)
  <2>1. heap'[n] = heap[n]
    BY <1>2
  <2>2. CASE n \in Doomed
    BY <1>4, <2>2 DEF FirstFile
  <2>3. CASE n \notin Doomed
    BY <1>4, <2>1, <2>3 DEF FirstFile
  <2>. QED BY <2>2, <2>3
<1>. QED BY <1>1, <1>2, <1>3, <1>4, <1>5 DEF Listed

\* So the list stays sound.
LEMMA StillSound ==
  ASSUME NEW o, NEW r, NEW p, NEW q, Still(o, r, p, q), UsersSound(r), FilesSound(o, r)
  PROVE  UsersSound(q)' /\ FilesSound(p, q)'
<1>1. /\ Kind("node")' = Kind("node") /\ Kind("file")' = Kind("file") /\ Listed' = Listed
      /\ \A n : Owned(p, n)' = Owned(o, n)
      /\ \A n \in Kind("node") : FirstFile(n)' = FirstFile(n)
      /\ \A c \in Kind("node") \cup Kind("file") : heap'[c] = heap[c] /\ q[c] = r[c] /\ p[c] = o[c]
  BY StillSame
<1>2. \A c \in Kind("node") \cup Kind("file") : Link(heap', c) = Link(heap, c)
  BY <1>1 DEF Link
<1>3. UsersSound(q)'
  <2>1. \A c \in Listed : Link(heap', c) = Link(heap, c) /\ q[c] = r[c] /\ heap'[c] = heap[c]
    BY <1>1, <1>2 DEF Listed
  <2>2. IsList(heap', Listed, q, messages)
    BY <2>1, ListFrame DEF UsersSound
  <2>3. messages' = messages
    BY DEF Still
  <2>. QED BY <1>1, <2>1, <2>2, <2>3 DEF UsersSound, Distinct
<1>4. \A f \in Kind("file") : p[f] \in Kind("node")
  BY <1>1 DEF FilesSound
<1>5. ASSUME NEW n \in Kind("node")
      PROVE  IsList(heap', Owned(o, n), q, FirstFile(n)) /\ Distinct(Owned(p, n))'
  <2>1. \A c \in Owned(o, n) : Link(heap', c) = Link(heap, c) /\ q[c] = r[c] /\ heap'[c] = heap[c]
    BY <1>1, <1>2 DEF Owned
  <2>2. IsList(heap, Owned(o, n), r, FirstFile(n)) /\ Distinct(Owned(o, n))
    BY DEF FilesSound
  <2>3. IsList(heap', Owned(o, n), q, FirstFile(n))
    BY <2>1, <2>2, ListFrame
  <2>. QED BY <1>1, <2>1, <2>2, <2>3 DEF Distinct
<1>6. ASSUME NEW n \in Kind("node")'
      PROVE  IsList(heap, Owned(p, n), q, FirstFile(n))'
  BY <1>1, <1>5, <1>6
<1>. QED BY <1>1, <1>3, <1>4, <1>5, <1>6 DEF FilesSound

\* And the thread inside finds it as it left it.
LEMMA StillCursors ==
  ASSUME NEW o, NEW r, NEW p, NEW q, Still(o, r, p, q), NEW s \in Thread, Cursors(o, r, s),
         Control(s), UNCHANGED <<mutex, locals>>, pc'[s] = pc[s], req'[s] = req[s]
  PROVE  Cursors(p, q, s)'
<1>1. /\ Kind("node")' = Kind("node") /\ Kind("file")' = Kind("file") /\ Listed' = Listed
      /\ \A n : Owned(p, n)' = Owned(o, n)
      /\ \A c \in Kind("node") \cup Kind("file") : heap'[c] = heap[c] /\ q[c] = r[c] /\ p[c] = o[c]
  BY StillSame
<1>2. /\ UNCHANGED <<mutex, current, previous, scan, before, tail>> /\ messages' = messages
      /\ pc'[s] = pc[s] /\ req'[s] = req[s]
  BY DEF locals, Still
<1>3. /\ \A n \in Listed : heap'[n] = heap[n] /\ q[n] = r[n]
      /\ \A n : \A f \in Owned(o, n) : heap'[f] = heap[f] /\ q[f] = r[f]
      /\ Listed \subseteq Kind("node")
  BY <1>1 DEF Listed, Owned
<1>4. Standing(s) /\ mutex = s => Standing(s)'
  BY <1>1, <1>2, <1>3 DEF Standing
<1>5. Asker(s) => Asker(s)'
  BY <1>1, <1>2, <1>3 DEF Asker
<1>6. previous \in Listed \cup {Nil} /\ Walking(r, s) => Walking(q, s)'
  BY <1>1, <1>2, <1>3 DEF Walking, Ahead
<1>7. current \in Listed /\ AtFile(o, r, s) => AtFile(p, q, s)'
  BY <1>1, <1>2, <1>3 DEF AtFile, Ahead
<1>8. AtTarget(r, s) => AtTarget(q, s)'
  BY <1>1, <1>2, <1>3, <1>5 DEF AtTarget, Ahead
<1>9. current \in Listed /\ AtFill(o, s) => AtFill(p, s)'
  <2>1. Asks(s, {"LIST_USERS"})' <=> Asks(s, {"LIST_USERS"})
    BY <1>2 DEF Asks
  <2>. QED BY <1>1, <1>2, <1>3, <1>5, <2>1 DEF AtFill
<1>. QED
  <2>1. CASE mutex = s
    <3>1. previous \in Listed \cup {Nil} /\ Standing(s) /\ pc[s] \in {"file", "fill"} => current \in Listed
      BY <2>1 DEF Cursors, Standing
    <3>. QED BY <1>1, <1>2, <1>4, <1>6, <1>7, <1>8, <1>9, <2>1, <3>1 DEF Cursors
  <2>2. CASE mutex # s
    BY <1>2, <2>2 DEF Cursors, Control, Section
  <2>. QED BY <2>1, <2>2

-----------------------------------------------------------------------------
(* Where the thread in the section is.                                     *)

\* The invariant with its o and r named.
Inv(o, r) == HeapTypes /\ Controls /\ AtRest /\ o \in Owner /\ r \in Rank /\ Shape(o, r)

\* The users and files, as nodes of the heap.
LEMMA Members ==
  ASSUME NEW o, NEW r, Inv(o, r)
  PROVE  /\ \A n \in Listed : n \in Cell /\ n # Nil /\ heap[n].kind = "node" /\ heap[n] \in Node
                              /\ n \in Kind("node")
         /\ \A n \in Kind("node") : n \in Cell /\ n # Nil /\ heap[n].kind = "node" /\ heap[n] \in Node
         /\ \A n : \A f \in Owned(o, n) : /\ f \in Cell /\ f # Nil /\ f \in Kind("file") /\ o[f] = n
                                          /\ heap[f].kind = "file" /\ heap[f] \in FileNode
BY CellAssumption, Contents DEF Inv, Listed, Kind, Owned

\* At every place in the section.
LEMMA Section1 ==
  ASSUME NEW o, NEW r, Inv(o, r), NEW t \in Thread, pc[t] \in Section
  PROVE  /\ mutex = t /\ Control(t) /\ Cursors(o, r, t) /\ Listing(o, r, t)
         /\ \A s \in Thread : s # t => pc[s] \notin Section
         /\ req[t] \in Request
         /\ previous \in Listed \cup {Nil} /\ Standing(t)
         /\ pc[t] \notin {"free", "file", "fill"} => scan = Nil
         /\ pc[t] # "file" => before = Nil
         /\ pc[t] # "fill" => tail = Nil
         /\ UsersSound(r) /\ FilesSound(o, r)
<1>1. HeapTypes /\ Controls /\ Shape(o, r)
  BY DEF Inv
<1>2. mutex = t /\ req[t] \in Request /\ \A s \in Thread : s # t => pc[s] \notin Section
  BY <1>1, Inside
<1>. QED BY <1>1, <1>2 DEF Controls, Shape, Cursors

\* Outside of free, nothing is doomed.
LEMMA Section2 ==
  ASSUME NEW o, NEW r, Inv(o, r), NEW t \in Thread, pc[t] \in Section \ {"free"}
  PROVE  /\ \A s \in Thread : pc[s] # "free"
         /\ Doomed = {} /\ Listed = Kind("node") /\ \A n : FirstFile(n) = heap[n].list_files
<1>1. \A s \in Thread : pc[s] # "free"
  BY Section1 DEF Section
<1>. QED BY <1>1, NothingDoomed

\* At a node of the user who calls, or where it would be.
LEMMA Walks ==
  ASSUME NEW o, NEW r, Inv(o, r), NEW t \in Thread, pc[t] \in {"find", "found", "absent"}
  PROVE  /\ Walking(r, t) /\ scan = Nil /\ before = Nil /\ tail = Nil
         /\ current \in Listed \cup {Nil} /\ previous \in Listed \cup {Nil}
         /\ pc[t] = "absent" => current = Nil
         /\ pc[t] = "found" => /\ current \in Listed /\ current \in Cell /\ current # Nil
                               /\ heap[current].kind = "node" /\ heap[current] \in Node
                               /\ heap[current].name = req[t].user
         /\ \A s \in Thread : pc[s] # "free"
<1>1. pc[t] \in Section \ {"free"}
  BY DEF Section
<1>2. /\ Cursors(o, r, t) /\ previous \in Listed \cup {Nil} /\ Standing(t)
      /\ scan = Nil /\ before = Nil /\ tail = Nil
  BY <1>1, Section1
<1>3. \A s \in Thread : pc[s] # "free"
  BY <1>1, Section2
<1>. QED BY <1>2, <1>3, Members DEF Cursors, Standing, Walking

\* At a node that is being freed.
LEMMA Frees ==
  ASSUME NEW o, NEW r, Inv(o, r), NEW t \in Thread, pc[t] = "free"
  PROVE  /\ current \in Kind("node") /\ current \in Cell /\ heap[current].kind = "node"
         /\ Doomed = {current} /\ FirstFile(current) = scan
         /\ IsList(heap, Owned(o, current), r, scan)
         /\ scan \in Owned(o, current) \cup {Nil}
         /\ scan = Nil => Owned(o, current) = {}
         /\ before = Nil /\ tail = Nil
         /\ previous \in Listed \cup {Nil}
<1>1. pc[t] \in Section
  BY DEF Section
<1>2. /\ previous \in Listed \cup {Nil} /\ Standing(t) /\ FilesSound(o, r)
      /\ before = Nil /\ tail = Nil
  BY <1>1, Section1
<1>3. current \in Kind("node") /\ current \in Cell /\ heap[current].kind = "node"
  BY <1>2, Members DEF Standing
<1>4. Doomed = {current}
  BY <1>3 DEF Doomed
<1>5. FirstFile(current) = scan
  BY <1>4 DEF FirstFile
<1>6. IsList(heap, Owned(o, current), r, scan)
  BY <1>2, <1>3, <1>5 DEF FilesSound
<1>. QED BY <1>2, <1>3, <1>4, <1>5, <1>6 DEF IsList

\* At a file of the user who calls.
LEMMA AtFiles ==
  ASSUME NEW o, NEW r, Inv(o, r), NEW t \in Thread, pc[t] = "file"
  PROVE  /\ AtFile(o, r, t) /\ tail = Nil
         /\ current \in Listed /\ current \in Cell /\ current # Nil
         /\ heap[current].kind = "node" /\ heap[current] \in Node
         /\ heap[current].name = req[t].user
         /\ IsList(heap, Owned(o, current), r, heap[current].list_files)
         /\ Distinct(Owned(o, current))
         /\ previous \in Listed \cup {Nil}
         /\ \A s \in Thread : pc[s] # "free"
<1>1. pc[t] \in Section \ {"free"}
  BY DEF Section
<1>2. /\ Cursors(o, r, t) /\ Standing(t) /\ previous \in Listed \cup {Nil}
      /\ FilesSound(o, r) /\ tail = Nil
  BY <1>1, Section1
<1>3. /\ \A s \in Thread : pc[s] # "free"
      /\ FirstFile(current) = heap[current].list_files
  BY <1>1, Section2
<1>4. /\ current \in Listed /\ current \in Cell /\ current # Nil /\ current \in Kind("node")
      /\ heap[current].kind = "node" /\ heap[current] \in Node
      /\ heap[current].name = req[t].user
  BY <1>2, Members DEF Standing
<1>. QED BY <1>2, <1>3, <1>4 DEF Cursors, FilesSound

\* At a node on the way to the other user.
LEMMA AtOthers ==
  ASSUME NEW o, NEW r, Inv(o, r), NEW t \in Thread, pc[t] = "target"
  PROVE  /\ AtTarget(r, t) /\ scan = Nil /\ before = Nil /\ tail = Nil
         /\ current \in Listed \cup {Nil} /\ previous \in Listed \cup {Nil}
         /\ \A s \in Thread : pc[s] # "free"
<1>1. pc[t] \in Section \ {"free"}
  BY DEF Section
<1>. QED BY <1>1, Section1, Section2 DEF Cursors, AtTarget

\* At what is copied next.
LEMMA Fills ==
  ASSUME NEW o, NEW r, Inv(o, r), NEW t \in Thread, pc[t] = "fill"
  PROVE  /\ AtFill(o, t) /\ before = Nil /\ Filling(o, r, t) /\ Numbered(o, r, t)
         /\ current \in Listed /\ current \in Cell /\ previous \in Listed \cup {Nil}
         /\ \A s \in Thread : pc[s] # "free"
         /\ req[t].op \in {"LIST_USERS", "LIST_CONTENT"}
         /\ req[t].op = "LIST_USERS" =>
              scan \in Listed \cup {Nil} /\ IsList(heap, Listed, r, messages)
         /\ req[t].op = "LIST_CONTENT" =>
              /\ scan \in Owned(o, current) \cup {Nil}
              /\ IsList(heap, Owned(o, current), r, heap[current].list_files)
<1>1. pc[t] \in Section \ {"free"}
  BY DEF Section
<1>2. /\ Cursors(o, r, t) /\ Standing(t) /\ previous \in Listed \cup {Nil} /\ Control(t)
      /\ Listing(o, r, t) /\ FilesSound(o, r) /\ UsersSound(r) /\ before = Nil
  BY <1>1, Section1
<1>3. /\ \A s \in Thread : pc[s] # "free"
      /\ FirstFile(current) = heap[current].list_files
  BY <1>1, Section2
<1>4. current \in Listed /\ current \in Cell /\ current \in Kind("node")
  BY <1>2, Members DEF Standing
<1>5. AtFill(o, t) /\ Filling(o, r, t) /\ Numbered(o, r, t)
  BY <1>2 DEF Cursors, Listing
<1>6. IsList(heap, Owned(o, current), r, heap[current].list_files)
  BY <1>2, <1>3, <1>4 DEF FilesSound
<1>. QED BY <1>2, <1>3, <1>4, <1>5, <1>6 DEF AtFill, UsersSound, Control, Lists, Asks

-----------------------------------------------------------------------------
(* Types and control.                                                      *)

\* Leaving an operation keeps the types.
LEMMA LeaveTypes ==
  ASSUME HeapTypes, NEW t \in Thread, NEW code \in -1 .. 4, NEW next \in {"return", "send"},
         NEW out \in (SUBSET UserEntry) \cup (SUBSET FileEntry),
         Settle(t, code, out), Unlock(t, next),
         heap' \in [Cell -> Content], messages' \in Ref, reply' \in [Thread -> Ref]
  PROVE  HeapTypes'
<1>1. [code |-> code, out |-> out] \in Answer
  BY DEF Answer
<1>2. ans' \in [Thread -> Answer \cup {Nil}]
  BY <1>1 DEF Settle, HeapTypes
<1>3. pc' \in [Thread -> PcSet]
  BY DEF Unlock, Goto, HeapTypes, PcSet
<1>4. {current', previous', scan', before', tail'} \subseteq Ref /\ mutex' = Nil
  BY DEF Unlock, Ref
<1>. QED BY <1>2, <1>3, <1>4 DEF Unlock, HeapTypes

\* So does a refusal.
LEMMA RefuseTypes ==
  ASSUME HeapTypes, NEW t \in Thread, NEW code \in -1 .. 4, Refuse(t, code)
  PROVE  HeapTypes'
<1>1. Settle(t, code, {}) /\ Unlock(t, "return") /\ UNCHANGED <<heap, messages, reply>>
  BY DEF Refuse, Leave
<1>. QED BY <1>1, LeaveTypes, Zenon DEF HeapTypes

\* So does leaving it with a change of the heap.
LEMMA LeftTypes ==
  ASSUME HeapTypes, NEW t \in Thread, Leave(t, 0), UNCHANGED <<messages, reply>>,
         heap' \in [Cell -> Content]
  PROVE  HeapTypes'
<1>1. Settle(t, 0, {}) /\ Unlock(t, "return")
  BY DEF Leave
<1>2. messages' \in Ref /\ reply' \in [Thread -> Ref]
  BY DEF HeapTypes
<1>. QED BY <1>1, <1>2, LeaveTypes

\* A cell of the heap is given a new content.
LEMMA WriteTypes ==
  ASSUME HeapTypes, NEW c \in Cell, NEW x \in Content
  PROVE  [heap EXCEPT ![c] = x] \in [Cell -> Content]
BY DEF HeapTypes

\* The fields of a node that are written.
LEMMA NodeWrites ==
  ASSUME NEW n \in Node
  PROVE  /\ \A x \in Ref : [n EXCEPT !.next = x] \in Node /\ [n EXCEPT !.list_files = x] \in Node
         /\ \A x \in Addr \cup {Nil} : [n EXCEPT !.addr = x] \in Node
BY DEF Node

\* The field of a file that is.
LEMMA FileWrites ==
  ASSUME NEW f \in FileNode, NEW x \in Ref
  PROVE  [f EXCEPT !.next = x] \in FileNode
BY DEF FileNode

\* The listing as it is so far: an answer.
LEMMA Filled ==
  ASSUME NEW o, NEW r, Inv(o, r), NEW t \in Thread, pc[t] = "fill"
  PROVE  /\ Chain(reply[t]) = Mine(o, t)
         /\ {heap[c].shows : c \in {d \in Chain(reply[t]) : heap[d].kind = "entry"}}
              = Displayed(Entries(o, t))
         /\ Displayed(Entries(o, t)) \in (SUBSET UserEntry) \cup (SUBSET FileEntry)
<1>. DEFINE out == Displayed(Entries(o, t))
<1>1. Chain(reply[t]) = Mine(o, t)
  <2>1. Filling(o, r, t) /\ r \in [Cell -> Nat]
    BY Fills DEF Inv, Rank
  <2>. QED BY <2>1, ChainIsList DEF Filling
<1>2. {heap[c].shows : c \in {d \in Chain(reply[t]) : heap[d].kind = "entry"}} = out
  BY <1>1 DEF Displayed, Entries
<1>3. out \in (SUBSET UserEntry) \cup (SUBSET FileEntry)
  <2>1. Filling(o, r, t) /\ req[t].op \in {"LIST_USERS", "LIST_CONTENT"}
    BY Fills
  <2>2. CASE req[t].op = "LIST_USERS"
    <3>1. out = Copies(Passed(r, Listed))
      BY <2>1, <2>2 DEF Filling, Asks
    <3>2. \A n \in Listed : heap[n].name \in User /\ heap[n].addr \in Addr \cup {Nil}
      BY Members DEF Node
    <3>. QED BY <3>1, <3>2 DEF Copies, Passed, UserEntry
  <2>3. CASE req[t].op = "LIST_CONTENT"
    <3>1. out = FileCopies(Passed(r, Owned(o, current)))
      BY <2>1, <2>3 DEF Filling, Asks
    <3>2. \A f \in Owned(o, current) : heap[f].name \in File /\ heap[f].desc \in Desc
      BY Members DEF FileNode
    <3>. QED BY <3>1, <3>2 DEF FileCopies, Passed, FileEntry
  <2>. QED BY <2>1, <2>2, <2>3
<1>. QED BY <1>1, <1>2, <1>3

\* The end of the process.
LEMMA CrashTypes ==
  ASSUME HeapTypes, Crash
  PROVE  HeapTypes'
<1>1. heap' \in [Cell -> Content]
  BY DEF Crash, Content
<1>2. pc' \in [Thread -> PcSet] /\ req' \in [Thread -> Request \cup {Nil}]
      /\ ans' \in [Thread -> Answer \cup {Nil}]
  BY DEF Crash, PcSet
<1>3. reply' \in [Thread -> Ref] /\ left' \in [Thread -> Nat] /\ sent' \in [Thread -> SUBSET Shows]
  BY DEF Crash, Ref
<1>4. {current', previous', scan', before', tail'} \subseteq Ref
  BY DEF Crash, Ref
<1>. QED BY <1>1, <1>2, <1>3, <1>4 DEF Crash, HeapTypes, Ref

\* The steps of an operation keep the types.
LEMMA OperationTypes ==
  ASSUME NEW o, NEW r, Inv(o, r), NEW t \in Thread, Operation(t)
  PROVE  HeapTypes'
<1>1. HeapTypes /\ Controls
  BY DEF Inv
<1>2. CASE Lock(t)
  BY <1>1, <1>2 DEF Lock, HeapTypes, At, Goto, PcSet, Section, listing
<1>3. CASE Find(t)
  <2>1. current # Nil => heap[current].next \in Ref
    BY <1>1, <1>3, Walks, Members, Pointers DEF Find, At
  <2>. QED BY <1>1, <1>3, <2>1 DEF Find, HeapTypes, At, Goto, PcSet, Section, listing
<1>4. CASE Absent(t) \/ Offline(t)
  BY <1>1, <1>4, RefuseTypes DEF Absent, Offline
<1>5. CASE RegisterUser(t)
  <2>1. ASSUME NEW code \in {1, -1}, Refuse(t, code) PROVE HeapTypes'
    BY <1>1, <2>1, RefuseTypes
  <2>2. ASSUME At(t, "absent"), NEW c \in FreeCells,
               heap' = [heap EXCEPT ![c] = [kind |-> "node", name |-> req[t].user, addr |-> Nil,
                                            list_files |-> Nil, next |-> messages]],
               messages' = c, Leave(t, 0), UNCHANGED reply
        PROVE  HeapTypes'
    <3>1. req[t] \in Request /\ req[t].user \in User
      BY <1>1, <2>2, Section1, RequestFields DEF At, Section
    <3>2. [kind |-> "node", name |-> req[t].user, addr |-> Nil, list_files |-> Nil,
           next |-> messages] \in Content
      BY <1>1, <3>1 DEF HeapTypes, Content, Node, Ref
    <3>3. c \in Cell
      BY DEF FreeCells
    <3>4. heap' \in [Cell -> Content]
      BY <1>1, <2>2, <3>2, <3>3, WriteTypes, Zenon
    <3>. QED BY <1>1, <2>2, <3>3, <3>4, LeaveTypes DEF Leave, HeapTypes, Ref
  <2>. QED BY <1>5, <2>1, <2>2 DEF RegisterUser
<1>6. CASE Unlink(t)
  <2>1. At(t, "found") /\ current \in Cell /\ heap[current].kind = "node"
        /\ previous \in Listed \cup {Nil}
    BY <1>6, Walks DEF Unlink, Found, At
  <2>2. heap[current].next \in Ref /\ heap[current].list_files \in Ref
    BY <1>1, <2>1, Pointers
  <2>3. heap' \in [Cell -> Content]
    <3>1. CASE previous = Nil
      BY <1>1, <1>6, <3>1 DEF Unlink, HeapTypes
    <3>2. CASE previous # Nil
      <4>1. previous \in Cell /\ heap[previous] \in Node
        BY <2>1, <3>2, Members
      <4>2. [heap[previous] EXCEPT !.next = heap[current].next] \in Content
        BY <2>2, <4>1, NodeWrites DEF Content
      <4>3. heap' = [heap EXCEPT ![previous] = [heap[previous] EXCEPT !.next = heap[current].next]]
        BY <1>6, <3>2 DEF Unlink
      <4>. QED BY <1>1, <4>1, <4>2, <4>3, WriteTypes
    <3>. QED BY <3>1, <3>2
  <2>4. messages' \in Ref /\ scan' \in Ref
    BY <1>1, <1>6, <2>2 DEF Unlink, HeapTypes
  <2>5. [code |-> 0, out |-> {}] \in Answer
    BY DEF Answer
  <2>6. ans' \in [Thread -> Answer \cup {Nil}]
    BY <1>1, <1>6, <2>5 DEF Unlink, Settle, HeapTypes
  <2>7. pc' \in [Thread -> PcSet]
    BY <1>1, <1>6 DEF Unlink, Goto, HeapTypes, PcSet, Section
  <2>. QED BY <1>1, <1>6, <2>3, <2>4, <2>6, <2>7 DEF Unlink, HeapTypes, listing
<1>7. CASE FreeFile(t)
  <2>1. scan \in Cell /\ heap[scan].kind = "file"
    <3>1. scan \in Owned(o, current)
      <4>1. pc[t] = "free" /\ scan # Nil
        BY <1>7 DEF FreeFile, At
      <4>. QED BY <4>1, Frees
    <3>. QED BY <3>1, Members
  <2>2. heap[scan].next \in Ref
    BY <1>1, <2>1, Pointers
  <2>3. heap' \in [Cell -> Content]
    BY <1>1, <1>7, <2>1, WriteTypes DEF FreeFile, Content
  <2>. QED BY <1>1, <1>7, <2>3, <2>2 DEF FreeFile, HeapTypes, listing
<1>8. CASE FreeNode(t)
  <2>1. current \in Cell
    BY <1>8, Frees DEF FreeNode, At
  <2>2. heap' \in [Cell -> Content]
    BY <1>1, <1>8, <2>1, WriteTypes DEF FreeNode, Content
  <2>3. pc' \in [Thread -> PcSet] /\ mutex' = Nil
        /\ {current', previous', scan', before', tail'} \subseteq Ref
    BY <1>1, <1>8 DEF FreeNode, Unlock, Goto, HeapTypes, PcSet, Ref
  <2>. QED BY <1>1, <1>8, <2>2, <2>3 DEF FreeNode, Unlock, HeapTypes
<1>9. CASE ConnectUser(t)
  <2>1. ASSUME NEW code \in {2, 3}, Refuse(t, code) PROVE HeapTypes'
    BY <1>1, <2>1, RefuseTypes
  <2>2. ASSUME Found(t, {"CONNECT"}), heap' = [heap EXCEPT ![current].addr = req[t].addr],
               Leave(t, 0), UNCHANGED <<messages, reply>>
        PROVE  HeapTypes'
    <3>1. current \in Cell /\ heap[current] \in Node
      BY <2>2, Walks DEF Found, At
    <3>2. req[t].addr \in Addr
      BY <1>1, <2>2, Section1, RequestFields DEF Found, At, Asks, Section
    <3>3. [heap[current] EXCEPT !.addr = req[t].addr] \in Content
      BY <3>1, <3>2, NodeWrites DEF Content
    <3>4. heap' = [heap EXCEPT ![current] = [heap[current] EXCEPT !.addr = req[t].addr]]
      BY <2>2
    <3>5. heap' \in [Cell -> Content]
      BY <1>1, <3>1, <3>3, <3>4, WriteTypes
    <3>. QED BY <1>1, <2>2, <3>5, LeftTypes
  <2>. QED BY <1>9, <2>1, <2>2 DEF ConnectUser
<1>10. CASE DisconnectUser(t)
  <2>1. current \in Cell /\ heap[current] \in Node
    BY <1>10, Walks DEF DisconnectUser, Connected, Found, At
  <2>2. [heap[current] EXCEPT !.addr = Nil] \in Content
    BY <2>1, NodeWrites DEF Content
  <2>3. heap' = [heap EXCEPT ![current] = [heap[current] EXCEPT !.addr = Nil]]
    BY <1>10 DEF DisconnectUser
  <2>4. heap' \in [Cell -> Content]
    BY <1>1, <2>1, <2>2, <2>3, WriteTypes
  <2>. QED BY <1>1, <1>10, <2>4, LeftTypes DEF DisconnectUser
<1>11. CASE Files(t)
  <2>1. heap[current].list_files \in Ref
    BY <1>1, <1>11, Walks, Pointers DEF Files, Connected, Found, At
  <2>. QED BY <1>1, <1>11, <2>1 DEF Files, HeapTypes, Goto, PcSet, Section, listing
<1>12. CASE FindFile(t)
  <2>1. heap[scan].next \in Ref
    BY <1>1, <1>12, AtFiles, Members, Pointers DEF FindFile, At, AtFile
  <2>. QED BY <1>1, <1>12, <2>1 DEF FindFile, HeapTypes, listing
<1>13. CASE RegisterFile(t)
  <2>1. ASSUME NEW code \in {3, 4}, Refuse(t, code) PROVE HeapTypes'
    BY <1>1, <2>1, RefuseTypes
  <2>2. ASSUME At(t, "file"), Asks(t, {"PUBLISH"}), NEW c \in FreeCells,
               heap' = [heap EXCEPT ![c] = [kind |-> "file", name |-> req[t].file, desc |-> req[t].desc,
                                            next |-> heap[current].list_files],
                                    ![current].list_files = c],
               Leave(t, 0), UNCHANGED <<messages, reply>>
        PROVE  HeapTypes'
    <3>1. current \in Cell /\ heap[current] \in Node /\ heap[current].list_files \in Ref
      BY <1>1, <2>2, AtFiles, Pointers DEF At
    <3>2. req[t].file \in File /\ req[t].desc \in Desc
      BY <1>1, <2>2, Section1, RequestFields DEF At, Asks, Section
    <3>3. [kind |-> "file", name |-> req[t].file, desc |-> req[t].desc,
           next |-> heap[current].list_files] \in Content
      BY <3>1, <3>2 DEF Content, FileNode
    <3>4. c \in Cell /\ c # current
      BY <1>1, <3>1, Contents, AtFiles, <2>2 DEF FreeCells, Free, At
    <3>. DEFINE n == [heap[current] EXCEPT !.list_files = c]
    <3>5. n \in Content
      BY <3>1, <3>4, NodeWrites DEF Content, Ref
    <3>6. heap' = [d \in Cell |->
                     IF d = c THEN [kind |-> "file", name |-> req[t].file, desc |-> req[t].desc,
                                    next |-> heap[current].list_files]
                     ELSE IF d = current THEN n ELSE heap[d]]
      BY <1>1, <2>2, <3>1, <3>4 DEF HeapTypes
    <3>7. heap' \in [Cell -> Content]
      <4>. HIDE DEF n
      <4>. QED BY <1>1, <3>3, <3>5, <3>6 DEF HeapTypes
    <3>. QED BY <1>1, <2>2, <3>7, LeftTypes
  <2>. QED BY <1>13, <2>1, <2>2 DEF RegisterFile
<1>14. CASE UnregisterFile(t)
  <2>1. ASSUME NEW code \in {3}, Refuse(t, code) PROVE HeapTypes'
    BY <1>1, <2>1, RefuseTypes
  <2>2. ASSUME At(t, "file"), scan # Nil,
               heap' = IF before = Nil
                         THEN [heap EXCEPT ![current].list_files = heap[scan].next, ![scan] = Free]
                         ELSE [heap EXCEPT ![before].next = heap[scan].next, ![scan] = Free],
               Leave(t, 0), UNCHANGED <<messages, reply>>
        PROVE  HeapTypes'
    <3>1. /\ current \in Cell /\ heap[current] \in Node
          /\ scan \in Cell /\ heap[scan].kind = "file" /\ heap[scan].next \in Ref
          /\ before # Nil => before \in Cell /\ heap[before] \in FileNode
      BY <1>1, <2>2, AtFiles, Members, Pointers DEF At, AtFile
    <3>2. heap' \in [Cell -> Content]
      <4>1. CASE before = Nil
        <5>1. [heap[current] EXCEPT !.list_files = heap[scan].next] \in Content
          BY <3>1, NodeWrites DEF Content
        <5>2. heap' = [[heap EXCEPT ![current] = [heap[current] EXCEPT !.list_files = heap[scan].next]]
                         EXCEPT ![scan] = Free]
          BY <2>2, <4>1
        <5>. QED BY <1>1, <3>1, <5>1, <5>2 DEF HeapTypes, Content
      <4>2. CASE before # Nil
        <5>1. [heap[before] EXCEPT !.next = heap[scan].next] \in Content
          BY <3>1, <4>2, FileWrites DEF Content
        <5>2. heap' = [[heap EXCEPT ![before] = [heap[before] EXCEPT !.next = heap[scan].next]]
                         EXCEPT ![scan] = Free]
          BY <2>2, <4>2
        <5>. QED BY <1>1, <3>1, <4>2, <5>1, <5>2 DEF HeapTypes, Content
      <4>. QED BY <4>1, <4>2
    <3>. QED BY <1>1, <2>2, <3>2, LeftTypes
  <2>. QED BY <1>14, <2>1, <2>2 DEF UnregisterFile
<1>15. CASE ListUsers(t) \/ ListContent(t)
  BY <1>1, <1>15 DEF ListUsers, ListContent, HeapTypes, Goto, PcSet, Section, listing
<1>16. CASE Target(t)
  <2>1. ASSUME Refuse(t, 3) PROVE HeapTypes'
    BY <1>1, <2>1, RefuseTypes
  <2>2. current # Nil => heap[current].next \in Ref /\ heap[current].list_files \in Ref
    BY <1>1, <1>16, AtOthers, Members, Pointers DEF Target, At
  <2>3. ASSUME reply' = [reply EXCEPT ![t] = Nil], Settle(t, 0, {}), Unlock(t, "send"),
               UNCHANGED <<heap, messages>>
        PROVE  HeapTypes'
    <3>1. reply' \in [Thread -> Ref]
      BY <1>1, <2>3 DEF HeapTypes, Ref
    <3>. QED BY <1>1, <2>3, <3>1, LeaveTypes DEF HeapTypes
  <2>4. ASSUME current # Nil, current' = heap[current].next,
               UNCHANGED <<alive, heap, messages, mutex, pc, req, ans, previous, scan, before, tail, listing>>
        PROVE  HeapTypes'
    BY <1>1, <2>2, <2>4 DEF HeapTypes, listing
  <2>5. ASSUME current # Nil, scan' = heap[current].list_files, tail' = reply[t],
               Goto(t, "fill"),
               UNCHANGED <<alive, heap, messages, mutex, req, ans, current, previous, before, listing>>
        PROVE  HeapTypes'
    BY <1>1, <2>2, <2>5 DEF HeapTypes, listing, Goto, PcSet, Section
  <2>. QED BY <1>16, <2>1, <2>3, <2>4, <2>5 DEF Target
<1>17. CASE Skip(t)
  <2>1. scan \in Cell /\ heap[scan].next \in Ref
    BY <1>1, <1>17, Fills, Members, Pointers DEF Skip, At
  <2>. QED BY <1>1, <1>17, <2>1 DEF Skip, HeapTypes, listing
<1>18. CASE Fill(t)
  <2>1. pc[t] = "fill" /\ scan # Nil /\ Wanted(t) /\ tail # Nil
    BY <1>18 DEF Fill, At
  <2>2. scan \in Cell /\ heap[scan].next \in Ref
    BY <1>1, <2>1, Fills, Members, Pointers
  <2>3. Copied(t) \in Shows
    <3>1. CASE req[t].op = "LIST_USERS"
      <4>1. heap[scan] \in Node /\ heap[scan].addr # Nil
        BY <2>1, <3>1, Fills, Members DEF Wanted, Asks
      <4>2. heap[scan].name \in User /\ heap[scan].addr \in Addr
        BY <4>1 DEF Node
      <4>. QED BY <3>1, <4>2 DEF Copied, Asks, Shows, UserEntry
    <3>2. CASE req[t].op = "LIST_CONTENT"
      <4>1. heap[scan] \in FileNode
        BY <2>1, <3>2, Fills, Members
      <4>2. heap[scan].name \in File /\ heap[scan].desc \in Desc
        BY <4>1 DEF FileNode
      <4>. QED BY <3>2, <4>2 DEF Copied, Asks, Shows, FileEntry
    <3>. QED BY <2>1, <3>1, <3>2, Fills
  <2>4. PICK c \in FreeCells \cup {Nil} :
          /\ heap' = [d \in Cell |-> CASE d = tail -> [kind |-> "entry", shows |-> Copied(t), next |-> c]
                                       [] d = c    -> Raw
                                       [] OTHER    -> heap[d]]
          /\ tail' = IF heap[scan].next = Nil THEN tail ELSE c
    BY <1>18 DEF Fill
  <2>5. c \in Ref
    BY DEF FreeCells, Ref
  <2>6. [kind |-> "entry", shows |-> Copied(t), next |-> c] \in Content /\ Raw \in Content
    BY <2>3, <2>5 DEF Content, Entry
  <2>7. heap' \in [Cell -> Content] /\ tail' \in Ref
    BY <1>1, <2>4, <2>5, <2>6 DEF HeapTypes
  <2>8. left' \in [Thread -> Nat]
    BY <1>1, <1>18 DEF Fill, HeapTypes
  <2>. QED BY <1>1, <1>18, <2>2, <2>7, <2>8 DEF Fill, HeapTypes
<1>19. CASE FillNothing(t)
  BY <1>1, <1>19, CrashTypes DEF FillNothing
<1>20. CASE FillEnd(t)
  <2>. DEFINE out == {heap[c].shows : c \in {d \in Chain(reply[t]) : heap[d].kind = "entry"}}
  <2>1. pc[t] = "fill" /\ Settle(t, 0, out) /\ Unlock(t, "send") /\ UNCHANGED <<heap, messages, reply>>
        /\ scan = Nil
    BY <1>20 DEF FillEnd, At
  <2>2. out \in (SUBSET UserEntry) \cup (SUBSET FileEntry)
    BY <2>1, Filled
  <2>. HIDE DEF out
  <2>. QED BY <1>1, <2>1, <2>2, LeaveTypes DEF HeapTypes
<1>. QED BY <1>2, <1>3, <1>4, <1>5, <1>6, <1>7, <1>8, <1>9, <1>10, <1>11, <1>12, <1>13, <1>14,
     <1>15, <1>16, <1>17, <1>18, <1>19, <1>20 DEF Operation
\* The steps outside the mutex keep the types.
LEMMA OutsideTypes ==
  ASSUME NEW o, NEW r, Inv(o, r), NEW t \in Thread,
         (\E q \in Calls[t] : Call(t, q)) \/ Send(t) \/ SendEnd(t) \/ Return(t)
  PROVE  HeapTypes'
<1>1. HeapTypes /\ Control(t) /\ Listing(o, r, t)
  BY DEF Inv, Controls, Shape
<1>2. ASSUME NEW q \in Calls[t], Call(t, q) PROVE HeapTypes'
  <2>1. q \in Request
    BY CellAssumption
  <2>2. req' \in [Thread -> Request \cup {Nil}] /\ pc' \in [Thread -> PcSet]
    BY <1>1, <1>2, <2>1 DEF Call, Goto, HeapTypes, PcSet
  <2>3. heap' \in [Cell -> Content] /\ reply' \in [Thread -> Ref]
    <3>1. CASE UNCHANGED <<reply, heap>>
      BY <1>1, <3>1 DEF HeapTypes
    <3>2. CASE \E c \in FreeCells \cup {Nil} :
                 /\ reply' = [reply EXCEPT ![t] = c]
                 /\ heap' = [d \in Cell |-> IF d = c THEN Raw ELSE heap[d]]
      <4>1. PICK c \in FreeCells \cup {Nil} :
                 /\ reply' = [reply EXCEPT ![t] = c]
                 /\ heap' = [d \in Cell |-> IF d = c THEN Raw ELSE heap[d]]
        BY <3>2
      <4>2. c \in Ref /\ Raw \in Content
        BY DEF FreeCells, Ref, Content
      <4>. QED BY <1>1, <4>1, <4>2 DEF HeapTypes
    <3>. QED BY <1>2, <3>1, <3>2 DEF Call
  <2>. QED BY <1>1, <1>2, <2>2, <2>3 DEF Call, HeapTypes, locals
<1>3. CASE Send(t)
  <2>1. pc[t] = "send" /\ More(t) /\ Sending(o, r, t) /\ Lists(t)
    BY <1>1, <1>3 DEF Send, At, Listing, Control
  <2>2. reply[t] \in Entries(o, t)
    BY <2>1 DEF Sending
  <2>3. reply[t] \in Cell /\ heap[reply[t]].kind = "entry"
    BY <2>2 DEF Entries, Mine, Kind
  <2>4. heap[reply[t]] \in Entry /\ Link(heap, reply[t]) \in Ref
    BY <1>1, <2>3, Contents, Pointers
  <2>5. Shown(reply[t]) \in Shows /\ After(reply[t]) \in Ref
    BY <2>3, <2>4, AfterIsLink DEF Shown, Entry
  <2>6. Asks(t, {"LIST_USERS"}) => left[t] - 1 \in Nat
    BY <1>1, <2>1 DEF More, HeapTypes
  <2>7. sent' \in [Thread -> SUBSET Shows]
    BY <1>1, <1>3, <2>5 DEF Send, HeapTypes
  <2>8. reply' \in [Thread -> Ref] /\ left' \in [Thread -> Nat]
    BY <1>1, <1>3, <2>5, <2>6 DEF Send, HeapTypes
  <2>. QED BY <1>1, <1>3, <2>7, <2>8 DEF Send, HeapTypes, locals
<1>4. CASE SendEnd(t)
  BY <1>1, <1>4 DEF SendEnd, Goto, HeapTypes, PcSet, locals, listing
<1>5. CASE Return(t)
  <2>1. heap' \in [Cell -> Content]
    BY <1>1, <1>5 DEF Return, HeapTypes, Content
  <2>2. pc' \in [Thread -> PcSet] /\ reply' \in [Thread -> Ref]
    BY <1>1, <1>5 DEF Return, Goto, HeapTypes, PcSet, Ref
  <2>3. req' \in [Thread -> Request \cup {Nil}] /\ ans' \in [Thread -> Answer \cup {Nil}]
    BY <1>1, <1>5 DEF Return, HeapTypes
  <2>4. left' \in [Thread -> Nat] /\ sent' \in [Thread -> SUBSET Shows]
    BY <1>1, <1>5 DEF Return, HeapTypes
  <2>. QED BY <1>1, <1>5, <2>1, <2>2, <2>3, <2>4 DEF Return, HeapTypes, locals
<1>. QED BY <1>2, <1>3, <1>4, <1>5

-----------------------------------------------------------------------------
(* Who is where.                                                           *)

\* A step of t moves t only.
Others(t) == \A s \in Thread : s # t => pc'[s] = pc[s] /\ req'[s] = req[s] /\ ans'[s] = ans[s]
OthersLists(t) == \A s \in Thread : s # t => reply'[s] = reply[s] /\ left'[s] = left[s] /\ sent'[s] = sent[s]

\* As a Goto and a Settle do.
LEMMA Moves ==
  ASSUME HeapTypes, NEW t \in Thread
  PROVE  /\ \A x : Goto(t, x) => pc'[t] = x /\ \A s \in Thread : s # t => pc'[s] = pc[s]
         /\ \A code, out : Settle(t, code, out) =>
              ans'[t] = [code |-> code, out |-> out] /\ \A s \in Thread : s # t => ans'[s] = ans[s]
BY DEF HeapTypes, Goto, Settle

\* Who holds the mutex, when only t moves.
LEMMA ControlFrame ==
  ASSUME Controls, NEW t \in Thread, Control(t)', Others(t),
         \A s \in Thread : s # t => (mutex' = s <=> mutex = s)
  PROVE  Controls'
<1>1. ASSUME NEW s \in Thread, s # t PROVE Control(s)'
  <2>1. /\ pc'[s] = pc[s] /\ req'[s] = req[s] /\ ans'[s] = ans[s] /\ (mutex' = s <=> mutex = s)
        /\ Control(s)
    BY <1>1 DEF Others, Controls
  <2>. QED BY <2>1 DEF Control, Asks, Lists
<1>. QED BY <1>1 DEF Controls

\* Leaving an operation.
LEMMA LeaveControl ==
  ASSUME HeapTypes, Controls, NEW t \in Thread, pc[t] \in Section,
         NEW next \in {"return", "send"},
         NEW code, NEW out, [code |-> code, out |-> out] \in Answer, Settle(t, code, out),
         Unlock(t, next), next = "send" => Lists(t)
  PROVE  Controls' /\ AtRest' /\ Others(t) /\ mutex' = Nil
         /\ pc'[t] = next /\ req'[t] = req[t] /\ ans'[t] = [code |-> code, out |-> out]
<1>1. mutex = t /\ t # Nil /\ req[t] # Nil /\ \A s \in Thread : s # Nil
  BY Inside, NilAssumption
<1>2. req' = req /\ mutex' = Nil /\ pc'[t] = next /\ ans'[t] = [code |-> code, out |-> out]
  BY Moves DEF Unlock
<1>3. Others(t)
  BY Moves DEF Unlock, Others
<1>4. ans'[t] # Nil
  BY <1>2, AnswerAssumption
<1>5. Control(t)'
  BY <1>1, <1>2, <1>4 DEF Control, Section, Lists, Asks
<1>6. Controls'
  BY <1>1, <1>2, <1>3, <1>5, ControlFrame
<1>7. AtRest'
  BY DEF Unlock, AtRest
<1>. QED BY <1>2, <1>3, <1>6, <1>7

\* Leaving it with a number only.
LEMMA LeftControl ==
  ASSUME HeapTypes, Controls, NEW t \in Thread, pc[t] \in Section, NEW code \in -1 .. 4,
         Leave(t, code)
  PROVE  Controls' /\ AtRest' /\ Others(t) /\ mutex' = Nil
         /\ pc'[t] = "return" /\ req'[t] = req[t] /\ ans'[t] = [code |-> code, out |-> {}]
<1>1. [code |-> code, out |-> {}] \in Answer
  BY DEF Answer
<1>. QED BY <1>1, LeaveControl DEF Leave

\* Staying inside, at another place.
LEMMA StayControl ==
  ASSUME HeapTypes, Controls, NEW t \in Thread, pc[t] \in Section, UNCHANGED <<mutex, req>>,
         Others(t), pc'[t] \in Section, ans'[t] = Nil <=> pc'[t] # "free",
         pc'[t] = "free" => Asks(t, {"UNREGISTER"}) /\ ans'[t].out = {},
         pc'[t] = "file" => Asks(t, {"PUBLISH", "DELETE"}),
         pc'[t] = "target" => Asks(t, {"LIST_CONTENT"}),
         pc'[t] = "fill" => Lists(t)
  PROVE  Controls' /\ AtRest'
<1>1. mutex = t /\ t # Nil /\ req[t] # Nil
  BY Inside
<1>2. Control(t)'
  BY <1>1 DEF Control, Section, Lists, Asks
<1>. QED BY <1>1, <1>2, ControlFrame DEF AtRest

\* A step of an operation keeps control, and moves t only.
LEMMA OperationControl ==
  ASSUME NEW o, NEW r, Inv(o, r), NEW t \in Thread, Operation(t), ~ Crash
  PROVE  Controls' /\ AtRest' /\ Others(t) /\ OthersLists(t)
<1>1. /\ HeapTypes /\ Controls
      /\ pc[t] # "lock" => pc[t] \in Section /\ Control(t)
      /\ ans[t] = Nil <=> pc[t] # "free"
  <2>1. HeapTypes /\ Controls /\ Control(t)
    BY DEF Inv, Controls
  <2>2. pc[t] \in Section \cup {"lock"}
    BY DEF Operation, Lock, Find, Absent, Offline, RegisterUser, Unlink, FreeFile, FreeNode,
           ConnectUser,
           DisconnectUser, Files, FindFile, RegisterFile, UnregisterFile, ListUsers, ListContent, Target,
           Skip, Fill, FillNothing, FillEnd, At, Found, Connected, Section
  <2>. QED BY <2>1, <2>2 DEF Control, Section
<1>2. OthersLists(t)
  <2>1. \/ reply' = reply \/ reply' = [reply EXCEPT ![t] = Nil]
    BY DEF Operation, Lock, Find, Absent, Offline, RegisterUser, Unlink, FreeFile, FreeNode,
           ConnectUser,
           DisconnectUser, Files, FindFile, RegisterFile, UnregisterFile, ListUsers, ListContent, Target,
           Skip, Fill, FillNothing, FillEnd, Refuse, listing
  <2>2. left' = left \/ \E n : left' = [left EXCEPT ![t] = n]
    BY DEF Operation, Lock, Find, Absent, Offline, RegisterUser, Unlink, FreeFile, FreeNode,
           ConnectUser,
           DisconnectUser, Files, FindFile, RegisterFile, UnregisterFile, ListUsers, ListContent, Target,
           Skip, Fill, FillNothing, FillEnd, Refuse, Leave, Unlock, listing
  <2>3. sent' = sent
    BY DEF Operation, Lock, Find, Absent, Offline, RegisterUser, Unlink, FreeFile, FreeNode,
           ConnectUser,
           DisconnectUser, Files, FindFile, RegisterFile, UnregisterFile, ListUsers, ListContent, Target,
           Skip, Fill, FillNothing, FillEnd, Refuse, Leave, Unlock, listing
  <2>. QED BY <1>1, <2>1, <2>2, <2>3 DEF OthersLists, HeapTypes
<1>3. CASE Lock(t)
  <2>1. Control(t) /\ req[t] # Nil /\ mutex' = t /\ mutex = Nil /\ t # Nil /\ pc[t] = "lock"
    BY <1>3, NilAssumption DEF Inv, Controls, Control, Lock, At
  <2>2. Others(t) /\ pc'[t] = "find" /\ req' = req /\ ans' = ans
    BY <1>1, <1>3, Moves DEF Lock, Others
  <2>3. Control(t)'
    BY <2>1, <2>2 DEF Control, Section
  <2>4. \A s \in Thread : s # t => (mutex' = s <=> mutex = s)
    BY <2>1, NilAssumption
  <2>5. AtRest'
    BY <2>1 DEF AtRest
  <2>. QED BY <1>1, <1>2, <2>2, <2>3, <2>4, <2>5, ControlFrame
<1>4. CASE pc[t] \in Section /\ \E code \in -1 .. 4 : Leave(t, code)
  BY <1>1, <1>2, <1>4, LeftControl
<1>5. CASE FreeNode(t)
  <2>1. pc[t] = "free" /\ Unlock(t, "return") /\ ans' = ans /\ pc[t] \in Section
    BY <1>1, <1>5 DEF FreeNode, At
  <2>2. mutex = t /\ t # Nil /\ req[t] # Nil /\ ans[t] # Nil
    BY <1>1, <2>1, Inside
  <2>3. Others(t) /\ mutex' = Nil /\ pc'[t] = "return" /\ req' = req
    BY <1>1, <2>1, Moves DEF Unlock, Others
  <2>4. Control(t)'
    BY <2>1, <2>2, <2>3, NilAssumption DEF Control, Section
  <2>5. \A s \in Thread : s # t => (mutex' = s <=> mutex = s)
    BY <2>2, <2>3, NilAssumption
  <2>6. AtRest'
    BY <2>1 DEF Unlock, AtRest
  <2>. QED BY <1>1, <1>2, <2>3, <2>4, <2>5, <2>6, ControlFrame
<1>6. CASE pc[t] = "fill" /\ \E out : Settle(t, 0, out) /\ Unlock(t, "send") /\
             out \in (SUBSET UserEntry) \cup (SUBSET FileEntry)
  <2>1. PICK out : Settle(t, 0, out) /\ Unlock(t, "send") /\ out \in (SUBSET UserEntry) \cup (SUBSET FileEntry)
    BY <1>6
  <2>2. [code |-> 0, out |-> out] \in Answer
    BY <2>1 DEF Answer
  <2>3. Lists(t) /\ pc[t] \in Section
    BY <1>1, <1>6 DEF Control
  <2>. QED BY <1>1, <1>2, <2>1, <2>2, <2>3, LeaveControl
<1>7. CASE pc[t] = "target" /\ Settle(t, 0, {}) /\ Unlock(t, "send")
  <2>1. [code |-> 0, out |-> {}] \in Answer
    BY DEF Answer
  <2>2. Lists(t) /\ pc[t] \in Section
    BY <1>1, <1>7 DEF Control, Lists, Asks
  <2>. QED BY <1>1, <1>2, <1>7, <2>1, <2>2, LeaveControl
<1>8. CASE /\ pc[t] \in Section /\ UNCHANGED <<mutex, req>> /\ Others(t)
           /\ pc'[t] \in Section /\ (ans'[t] = Nil <=> pc'[t] # "free")
           /\ pc'[t] = "free" => Asks(t, {"UNREGISTER"}) /\ ans'[t].out = {}
           /\ pc'[t] = "file" => Asks(t, {"PUBLISH", "DELETE"})
           /\ pc'[t] = "target" => Asks(t, {"LIST_CONTENT"})
           /\ pc'[t] = "fill" => Lists(t)
  BY <1>1, <1>2, <1>8, StayControl
<1>. QED
  <2>1. CASE Find(t)
    <3>1. pc[t] = "find" /\ UNCHANGED <<mutex, req, ans>>
          /\ (UNCHANGED pc \/ Goto(t, "absent") \/ Goto(t, "found"))
      BY <2>1 DEF Find, At
    <3>2. Others(t) /\ pc'[t] \in {"find", "absent", "found"}
      BY <1>1, <3>1, Moves DEF Others
    <3>. QED BY <1>1, <1>8, <3>1, <3>2 DEF Section
  <2>2. CASE Unlink(t)
    <3>1. pc[t] = "found" /\ UNCHANGED <<mutex, req>> /\ Goto(t, "free") /\ Settle(t, 0, {})
          /\ Asks(t, {"UNREGISTER"})
      BY <2>2 DEF Unlink, Found, At
    <3>2. Others(t) /\ pc'[t] = "free" /\ ans'[t] = [code |-> 0, out |-> {}]
      BY <1>1, <3>1, Moves DEF Others
    <3>3. ans'[t] # Nil
      <4>1. [code |-> 0, out |-> {}] \in Answer
        BY DEF Answer
      <4>. QED BY <3>2, <4>1, AnswerAssumption
    <3>. QED BY <1>1, <1>8, <3>1, <3>2, <3>3 DEF Section
  <2>3. CASE FreeFile(t) \/ FindFile(t) \/ Skip(t)
    <3>1. pc[t] \in {"free", "file", "fill"} /\ UNCHANGED <<mutex, req, ans, pc>>
      BY <2>3 DEF FreeFile, FindFile, Skip, At
    <3>. QED BY <1>1, <1>8, <3>1 DEF Section, Others, Control
  <2>4. CASE Fill(t)
    <3>1. pc[t] = "fill" /\ UNCHANGED <<mutex, req, ans, pc>>
      BY <2>4 DEF Fill, At
    <3>. QED BY <1>1, <1>8, <3>1 DEF Section, Others, Control
  <2>5. CASE Files(t) \/ ListUsers(t) \/ ListContent(t)
    <3>1. pc[t] = "found" /\ UNCHANGED <<mutex, req, ans>>
          /\ \/ Goto(t, "file") /\ Asks(t, {"PUBLISH", "DELETE"})
             \/ Goto(t, "fill") /\ Asks(t, {"LIST_USERS"})
             \/ Goto(t, "target") /\ Asks(t, {"LIST_CONTENT"})
      BY <2>5 DEF Files, ListUsers, ListContent, Connected, Found, At
    <3>2. Others(t) /\ \/ pc'[t] = "file" /\ Asks(t, {"PUBLISH", "DELETE"})
                       \/ pc'[t] = "fill" /\ Asks(t, {"LIST_USERS"})
                       \/ pc'[t] = "target" /\ Asks(t, {"LIST_CONTENT"})
      BY <1>1, <3>1, Moves DEF Others
    <3>. QED BY <1>1, <1>8, <3>1, <3>2 DEF Section, Lists, Asks
  <2>6. CASE Target(t)
    <3>1. pc[t] = "target" /\ pc[t] \in Section /\ Asks(t, {"LIST_CONTENT"}) /\ ans[t] = Nil
      BY <1>1, <2>6 DEF Target, At, Control, Section
    <3>2. \/ Leave(t, 3)
          \/ Settle(t, 0, {}) /\ Unlock(t, "send")
          \/ UNCHANGED <<mutex, req, ans>> /\ (UNCHANGED pc \/ Goto(t, "fill"))
      BY <2>6 DEF Target, Refuse
    <3>3. CASE UNCHANGED <<mutex, req, ans>> /\ (UNCHANGED pc \/ Goto(t, "fill"))
      <4>1. Others(t) /\ pc'[t] \in {"target", "fill"}
        BY <1>1, <3>1, <3>3, Moves DEF Others
      <4>. QED BY <1>8, <3>1, <3>3, <4>1 DEF Section, Lists, Asks
    <3>. QED BY <1>4, <1>7, <3>1, <3>2, <3>3
  <2>7. CASE FillEnd(t)
    BY <1>6, <2>7, Filled DEF FillEnd, At
  <2>8. CASE Absent(t) \/ Offline(t) \/ RegisterUser(t) \/ ConnectUser(t) \/ DisconnectUser(t)
              \/ RegisterFile(t) \/ UnregisterFile(t)
    <3>1. pc[t] \in Section
      BY <2>8 DEF Absent, Offline, RegisterUser, ConnectUser, DisconnectUser, RegisterFile,
                  UnregisterFile,
                  Connected, Found, At, Section
    <3>2. \E code \in -1 .. 4 : Leave(t, code)
      BY <2>8 DEF Absent, Offline, RegisterUser, ConnectUser, DisconnectUser, RegisterFile,
                  UnregisterFile, Refuse
    <3>. QED BY <1>4, <3>1, <3>2
  <2>9. ~ FillNothing(t)
    BY DEF FillNothing
  <2>. QED BY <1>3, <1>5, <2>1, <2>2, <2>3, <2>4, <2>5, <2>6, <2>7, <2>8, <2>9 DEF Operation
\* A step outside the mutex too.
LEMMA OutsideControl ==
  ASSUME NEW o, NEW r, Inv(o, r), NEW t \in Thread,
         (\E q \in Calls[t] : Call(t, q)) \/ Send(t) \/ SendEnd(t) \/ Return(t)
  PROVE  /\ Controls' /\ AtRest' /\ Others(t) /\ OthersLists(t)
         /\ UNCHANGED <<mutex, messages, current, previous, scan, before, tail>> /\ mutex # t
<1>1. HeapTypes /\ Controls /\ Control(t)
  BY DEF Inv, Controls
<1>2. UNCHANGED <<mutex, messages, current, previous, scan, before, tail>>
  BY DEF Call, Send, SendEnd, Return, locals
<1>3. pc[t] \in {"idle", "send", "return"} /\ mutex # t
  <2>1. pc[t] \in {"idle", "send", "return"}
    BY DEF Call, Send, SendEnd, Return, At
  <2>. QED BY <1>1, <2>1 DEF Control, Section
<1>4. Others(t)
  BY <1>1 DEF Call, Send, SendEnd, Return, Goto, Others, HeapTypes
<1>5. OthersLists(t)
  BY <1>1 DEF Call, Send, SendEnd, Return, listing, OthersLists, HeapTypes
<1>6. Control(t)'
  <2>1. ASSUME NEW q \in Calls[t], Call(t, q) PROVE Control(t)'
    <3>1. pc[t] = "idle" /\ pc'[t] = "lock" /\ req'[t] = q /\ ans'[t] = ans[t]
      BY <1>1, <2>1 DEF Call, At, Goto, HeapTypes
    <3>2. q # Nil
      BY CellAssumption, RequestAssumption
    <3>. QED BY <1>1, <1>2, <1>3, <3>1, <3>2 DEF Control, Section
  <2>2. CASE Send(t)
    BY <1>1, <1>2, <1>3, <2>2 DEF Send, Control, Lists, Asks
  <2>3. CASE SendEnd(t)
    <3>1. pc[t] = "send" /\ pc'[t] = "return" /\ req'[t] = req[t] /\ ans'[t] = ans[t]
      BY <1>1, <2>3 DEF SendEnd, At, Goto, HeapTypes
    <3>. QED BY <1>1, <1>2, <1>3, <3>1 DEF Control, Section
  <2>4. CASE Return(t)
    <3>1. pc'[t] = "idle" /\ req'[t] = Nil /\ ans'[t] = Nil
      BY <1>1, <2>4 DEF Return, Goto, HeapTypes
    <3>. QED BY <1>1, <1>2, <1>3, <3>1 DEF Control, Section
  <2>. QED BY <2>1, <2>2, <2>3, <2>4
<1>7. Controls'
  BY <1>1, <1>2, <1>4, <1>6, ControlFrame
<1>8. AtRest'
  BY <1>2 DEF AtRest, Inv
<1>. QED BY <1>2, <1>3, <1>4, <1>5, <1>7, <1>8

-----------------------------------------------------------------------------
(* Steps outside the mutex.                                                *)

\* A listing that is filled in by another thread is not disturbed.
LEMMA ListingBeside ==
  ASSUME NEW o, NEW r, NEW p, NEW q, NEW s \in Thread, Inv(o, r), Still(o, r, p, q),
         SameListing(o, r, p, q, s), UNCHANGED <<current, scan, tail>>,
         pc'[s] = pc[s], req'[s] = req[s], ans'[s] = ans[s],
         reply'[s] = reply[s], left'[s] = left[s], sent'[s] = sent[s]
  PROVE  Listing(p, q, s)'
<1>1. Listing(o, r, s)
  BY DEF Inv, Shape
<1>2. CASE pc[s] # "fill"
  BY <1>1, <1>2, ListingApart
<1>3. CASE pc[s] = "fill"
  <2>1. /\ Mine(p, s)' = Mine(o, s) /\ Entries(p, s)' = Entries(o, s)
        /\ \A c \in Mine(o, s) : heap'[c] = heap[c] /\ q[c] = r[c]
        /\ Entries(o, s) \subseteq Mine(o, s)
    BY SameCells DEF Entries
  <2>2. Numbered(p, q, s)'
    BY <1>1, <2>1 DEF Listing, Numbered
  <2>3. Filling(o, r, s) /\ AtFill(o, s) /\ current \in Kind("node")
        /\ req[s].op \in {"LIST_USERS", "LIST_CONTENT"}
    BY <1>3, Fills, Members
  <2>4. /\ Listed' = Listed /\ \A n : Owned(p, n)' = Owned(o, n)
        /\ \A c \in Listed : heap'[c] = heap[c] /\ q[c] = r[c]
        /\ \A n : \A c \in Owned(o, n) : heap'[c] = heap[c] /\ q[c] = r[c]
    BY StillSame DEF Listed, Owned
  <2>5. \A ops : Asks(s, ops)' <=> Asks(s, ops)
    BY DEF Asks
  <2>6. PICK E : E = Entries(o, s)
    OBVIOUS
  <2>7. Displayed(E)' = Displayed(E)
    BY <2>1, <2>6 DEF Displayed
  <2>8. Displayed(Entries(p, s))' = Displayed(Entries(o, s))
    BY <2>1, <2>6, <2>7 DEF Displayed
  <2>9. IsList(heap', Mine(o, s), q, reply[s])
    <3>1. IsList(heap, Mine(o, s), r, reply[s])
      BY <2>3 DEF Filling
    <3>2. \A c \in Mine(o, s) : Link(heap', c) = Link(heap, c) /\ q[c] = r[c]
      BY <2>1 DEF Link
    <3>. QED BY <3>1, <3>2, ListFrame
  <2>10. reply[s] # Nil => q[reply[s]] = r[reply[s]]
    BY <1>1, <2>1 DEF Listing, Numbered
  <2>11. CASE req[s].op = "LIST_USERS"
    <3>1. scan \in Listed \cup {Nil}
      BY <2>3, <2>11 DEF AtFill, Asks
    <3>2. \A n \in Listed : Ahead(q, n, scan) <=> Ahead(r, n, scan)
      BY <2>4, <3>1 DEF Ahead
    <3>3. Passed(q, Listed)' = Passed(r, Listed)
      BY <2>4, <3>2 DEF Passed
    <3>4. PICK S : S = Passed(r, Listed)
      OBVIOUS
    <3>5. Copies(S)' = Copies(S)
      BY <2>4, <3>4 DEF Copies, Passed
    <3>6. Copies(Passed(q, Listed))' = Copies(Passed(r, Listed))
      BY <3>3, <3>4, <3>5 DEF Copies
    <3>7. Filling(p, q, s)'
      BY <2>1, <2>3, <2>5, <2>8, <2>9, <2>10, <2>11, <3>6 DEF Filling, Asks
    <3>. QED BY <1>3, <2>2, <3>7 DEF Listing
  <2>12. CASE req[s].op = "LIST_CONTENT"
    <3>1. scan \in Owned(o, current) \cup {Nil}
      BY <2>3, <2>12 DEF AtFill, Asks
    <3>2. \A f \in Owned(o, current) : Ahead(q, f, scan) <=> Ahead(r, f, scan)
      BY <2>4, <3>1 DEF Ahead
    <3>3. Passed(q, Owned(p, current))' = Passed(r, Owned(o, current))
      BY <2>4, <3>2 DEF Passed
    <3>4. PICK S : S = Passed(r, Owned(o, current))
      OBVIOUS
    <3>5. FileCopies(S)' = FileCopies(S)
      BY <2>4, <3>4 DEF FileCopies, Passed
    <3>6. FileCopies(Passed(q, Owned(p, current)))' = FileCopies(Passed(r, Owned(o, current)))
      BY <3>3, <3>4, <3>5 DEF FileCopies
    <3>7. Filling(p, q, s)'
      BY <2>1, <2>3, <2>5, <2>8, <2>9, <2>10, <2>12, <3>6 DEF Filling, Asks
    <3>. QED BY <1>3, <2>2, <3>7 DEF Listing
  <2>. QED BY <2>3, <2>11, <2>12
<1>. QED BY <1>2, <1>3

\* What remains to be shown of a step outside.
LEMMA Outside ==
  ASSUME NEW o, NEW r, NEW p, NEW q, NEW t \in Thread, Inv(o, r), Still(o, r, p, q), mutex # t,
         UNCHANGED <<mutex, messages, current, previous, scan, before, tail>>,
         Controls', Others(t), OthersLists(t), Listing(p, q, t)',
         \A s \in Thread : s # t => SameListing(o, r, p, q, s) \/ Listing(p, q, s)'
  PROVE  Shape(p, q)'
<1>1. UsersSound(q)' /\ FilesSound(p, q)'
  BY StillSound DEF Inv, Shape
<1>2. ASSUME NEW s \in Thread PROVE Cursors(p, q, s)'
  <2>1. CASE s = t
    <3>1. Control(t)' /\ mutex' # t
      BY DEF Controls
    <3>. QED BY <2>1, <3>1, CursorsOutside
  <2>2. CASE s # t
    <3>1. Cursors(o, r, s) /\ Control(s) /\ pc'[s] = pc[s] /\ req'[s] = req[s]
      BY <2>2 DEF Inv, Shape, Controls, Others
    <3>. QED BY <3>1, StillCursors DEF locals
  <2>. QED BY <2>1, <2>2
<1>3. ASSUME NEW s \in Thread PROVE Listing(p, q, s)'
  <2>1. CASE s # t /\ SameListing(o, r, p, q, s)
    BY <2>1, ListingBeside DEF Others, OthersLists
  <2>. QED BY <2>1
<1>. QED BY <1>1, <1>2, <1>3 DEF Shape

\* A call: the first entry of a listing is t's.
LEMMA CallShape ==
  ASSUME NEW o, NEW r, Inv(o, r), NEW t \in Thread, NEW m \in Calls[t], Call(t, m)
  PROVE  \E p \in Owner, q \in Rank : Shape(p, q)'
<1>1. HeapTypes /\ Listing(o, r, t) /\ o \in Owner /\ r \in Rank /\ pc[t] = "idle"
  BY DEF Inv, Shape, Call, At
<1>2. /\ Controls' /\ Others(t) /\ OthersLists(t) /\ mutex # t
      /\ UNCHANGED <<mutex, messages, current, previous, scan, before, tail>>
  BY OutsideControl
<1>3. pc'[t] = "lock" /\ left'[t] = 0 /\ sent'[t] = {} /\ reply[t] = Nil /\ Mine(o, t) = {}
  <2>1. Empty(o, t)
    BY <1>1 DEF Listing
  <2>2. Mine(o, t) \subseteq Cell
    BY DEF Mine, Kind
  <2>. QED BY <1>1, <2>1, <2>2, CellAssumption, Moves DEF Call, Empty
<1>4. \A s \in Thread : pc'[s] = "free" <=> pc[s] = "free"
  BY <1>1, <1>2, <1>3 DEF Others
<1>5. CASE UNCHANGED <<reply, heap>>
  <2>1. Still(o, r, o, r)
    BY <1>2, <1>4, <1>5 DEF Still
  <2>2. \A s \in Thread : SameListing(o, r, o, r, s)
    BY <1>5 DEF SameListing
  <2>3. reply'[t] = reply[t] /\ left'[t] = left[t] /\ sent'[t] = sent[t]
    BY <1>5 DEF Call
  <2>4. Listing(o, r, t)'
    BY <1>1, <1>3, <2>2, <2>3, ListingEarly
  <2>5. Shape(o, r)'
    BY <1>2, <2>1, <2>2, <2>4, Outside
  <2>. QED BY <1>1, <2>5
<1>6. ASSUME NEW c \in FreeCells, reply' = [reply EXCEPT ![t] = c],
             heap' = [d \in Cell |-> IF d = c THEN Raw ELSE heap[d]]
      PROVE  \E p \in Owner, q \in Rank : Shape(p, q)'
  <2>1. c \in Cell /\ heap[c].kind = "free" /\ Raw.kind = "raw"
    BY DEF FreeCells, Free, Raw
  <2>2. PICK p \in Owner : p = [o EXCEPT ![c] = t]
    BY <1>1, <2>1 DEF Owner
  <2>3. PICK q \in Rank : q = [r EXCEPT ![c] = 0]
    BY <1>1, <2>1 DEF Rank
  <2>4. \A d \in Cell : d # c => heap'[d] = heap[d] /\ p[d] = o[d] /\ q[d] = r[d]
    BY <1>1, <1>6, <2>2, <2>3 DEF Owner, Rank
  <2>5. heap'[c] = Raw /\ p[c] = t /\ q[c] = 0 /\ reply'[t] = c
    BY <1>1, <1>6, <2>1, <2>2, <2>3 DEF Owner, Rank, HeapTypes
  <2>6. Still(o, r, p, q)
    BY <1>2, <1>4, <2>1, <2>4, <2>5 DEF Still
  <2>7. ASSUME NEW s \in Thread, s # t PROVE SameListing(o, r, p, q, s)
    BY <2>1, <2>4, <2>5, <2>7 DEF SameListing
  <2>8. Mine(p, t)' = {c} /\ Entries(p, t)' = {}
    <3>1. \A d \in Cell : d # c => ~ (heap[d].kind \in {"raw", "entry"} /\ o[d] = t)
      BY <1>3 DEF Mine, Kind
    <3>2. Mine(p, t)' = {c}
      BY <2>1, <2>4, <2>5, <3>1 DEF Mine, Kind
    <3>. QED BY <2>1, <2>5, <3>2 DEF Entries
  <2>9. Listing(p, q, t)'
    BY <1>3, <2>5, <2>8 DEF Listing, Numbered, Empty
  <2>10. Shape(p, q)'
    BY <1>2, <2>6, <2>7, <2>9, Outside
  <2>. QED BY <2>10
<1>7. ASSUME reply' = [reply EXCEPT ![t] = Nil],
             heap' = [d \in Cell |-> IF d = Nil THEN Raw ELSE heap[d]]
      PROVE  UNCHANGED <<reply, heap>>
  <2>1. \A d \in Cell : heap'[d] = heap[d]
    BY <1>7, CellAssumption
  <2>. QED BY <1>1, <1>3, <1>7, <2>1 DEF HeapTypes
<1>. QED BY <1>5, <1>6, <1>7 DEF Call

\* The rest of a listing is a list.
LEMMA RestIsList ==
  ASSUME NEW o, NEW r, Inv(o, r), NEW t \in Thread, reply[t] # Nil
  PROVE  Chain(reply[t]) = {c \in Mine(o, t) : r[c] <= r[reply[t]]}
<1>. DEFINE S == {c \in Mine(o, t) : r[c] <= r[reply[t]]}
<1>1. Numbered(o, r, t) /\ r \in [Cell -> Nat] /\ HeapTypes
  BY DEF Inv, Shape, Listing, Rank
<1>2. Mine(o, t) \subseteq Cell /\ Entries(o, t) \subseteq Mine(o, t) /\ reply[t] \in S
  BY <1>1 DEF Mine, Kind, Entries, Numbered
<1>3. ASSUME NEW c \in Entries(o, t) PROVE Link(heap, c) = heap[c].next
  BY <1>3 DEF Link, Entries
<1>4. ASSUME NEW c \in Mine(o, t) \ Entries(o, t) PROVE Link(heap, c) = Nil /\ r[c] = 0
  BY <1>1, <1>4 DEF Link, Entries, Mine, Kind, Numbered
<1>5. ASSUME NEW c \in S
      PROVE  Link(heap, c) = Nil \/ (Link(heap, c) \in S /\ r[Link(heap, c)] < r[c])
  BY <1>1, <1>2, <1>3, <1>4 DEF Numbered
<1>6. ASSUME NEW c \in S, NEW d \in S, r[d] < r[c]
      PROVE  Link(heap, c) # Nil /\ r[d] <= r[Link(heap, c)]
  <2>1. c \in Entries(o, t) /\ r[c] \in Nat /\ r[d] \in Nat
    BY <1>1, <1>2, <1>4, <1>6
  <2>2. Link(heap, c) # Nil
    <3>1. SUFFICES ASSUME Link(heap, c) = Nil PROVE FALSE
      OBVIOUS
    <3>2. r[c] = 1 /\ d \in Entries(o, t)
      BY <1>1, <1>3, <2>1, <3>1 DEF Numbered
    <3>. QED BY <1>1, <1>6, <2>1, <3>2 DEF Numbered
  <2>3. r[Link(heap, c)] = r[c] - 1
    BY <1>1, <1>3, <2>1, <2>2 DEF Numbered
  <2>. QED BY <1>6, <2>1, <2>2, <2>3
<1>7. \A c, d \in S : r[c] = r[d] => c = d
  BY <1>1 DEF Numbered
<1>8. IsList(heap, S, r, reply[t])
  <2>1. S \subseteq Cell /\ \A c \in S : r[c] <= r[reply[t]]
    BY <1>2
  <2>. HIDE DEF S
  <2>. QED BY <1>2, <1>5, <1>6, <1>7, <2>1 DEF IsList
<1>. QED BY <1>1, <1>8, ChainIsList

\* NULL leads nowhere.
LEMMA ChainNil == Chain(Nil) = {} /\ Ends(Nil)
<1>1. PICK S : S = {}
  OBVIOUS
<1>2. PICK r : r = [c \in Cell |-> 0]
  OBVIOUS
<1>3. S \in SUBSET Cell /\ r \in [Cell -> Nat] /\ Nil \in S \cup {Nil}
  BY <1>1, <1>2
<1>4. \A c \in S : After(c) = Nil \/ (After(c) \in S /\ r[After(c)] < r[c])
  BY <1>1
<1>5. Ends(Nil) /\ Chain(Nil) \subseteq S
  BY <1>3, <1>4, ChainStays
<1>. QED BY <1>1, <1>5

\* Sending an entry.
LEMMA SendShape ==
  ASSUME NEW o, NEW r, Inv(o, r), NEW t \in Thread, Send(t)
  PROVE  Shape(o, r)'
<1>1. /\ HeapTypes /\ Numbered(o, r, t) /\ Sending(o, r, t) /\ More(t) /\ pc[t] = "send"
      /\ r \in [Cell -> Nat] /\ req[t].op \in {"LIST_USERS", "LIST_CONTENT"}
  BY DEF Inv, Shape, Send, At, Listing, Rank, Controls, Control, Lists, Asks
<1>2. /\ Controls' /\ Others(t) /\ OthersLists(t) /\ mutex # t
      /\ UNCHANGED <<mutex, messages, current, previous, scan, before, tail>>
  BY OutsideControl
<1>3. heap' = heap /\ pc' = pc /\ req' = req /\ ans' = ans
  BY DEF Send
<1>4. Still(o, r, o, r) /\ \A s \in Thread : SameListing(o, r, o, r, s)
  BY <1>2, <1>3 DEF Still, SameListing
<1>5. PICK M, E : M = Mine(o, t) /\ E = Entries(o, t)
  OBVIOUS
<1>6. Mine(o, t)' = M /\ Entries(o, t)' = E /\ E \subseteq M /\ M \subseteq Cell
  BY <1>3, <1>5 DEF Mine, Entries, Kind
<1>7. PICK x : x = reply[t]
  OBVIOUS
<1>8. /\ x \in E /\ heap[x].kind = "entry" /\ After(x) = heap[x].next /\ Shown(x) = heap[x].shows
      /\ x # Nil
  BY <1>1, <1>5, <1>7, CellAssumption DEF Sending, Entries, Mine, Kind, After, Shown
<1>9. /\ \A c \in M \ E : r[c] = 0
      /\ \A c \in E : r[c] >= 1
      /\ heap[x].next = Nil => r[x] = 1
      /\ heap[x].next # Nil => heap[x].next \in M /\ r[heap[x].next] = r[x] - 1
      /\ \A c, d \in M : r[c] = r[d] => c = d
  BY <1>1, <1>5, <1>8 DEF Numbered
<1>10. /\ sent'[t] = sent[t] \cup {heap[x].shows}
       /\ reply'[t] = IF Asks(t, {"LIST_USERS"}) /\ heap[x].next = Nil THEN x ELSE heap[x].next
       /\ left'[t] = IF Asks(t, {"LIST_USERS"}) THEN left[t] - 1 ELSE left[t]
  BY <1>1, <1>7, <1>8 DEF Send, HeapTypes
<1>11. reply'[t] \in M \cup {Nil}
  BY <1>6, <1>8, <1>9, <1>10
<1>12. Numbered(o, r, t)'
  BY <1>1, <1>3, <1>5, <1>6, <1>11 DEF Numbered
<1>13. PICK T : T = {c \in E : r[c] <= r[x]}
  OBVIOUS
<1>14. sent[t] \cup {heap[c].shows : c \in T} = ans[t].out
  BY <1>1, <1>5, <1>7, <1>8, <1>13 DEF Sending, Displayed, ToCome, Ahead
<1>15. x \in T /\ \A c \in T \ {x} : r[c] < r[x] /\ r[c] \in Nat /\ r[x] \in Nat
  BY <1>1, <1>6, <1>8, <1>9, <1>13
<1>16. (heap[x].next = Nil \/ heap[x].next \notin E) => T = {x}
  <2>1. CASE heap[x].next = Nil
    BY <1>6, <1>9, <1>13, <1>15, <2>1
  <2>2. CASE heap[x].next # Nil /\ heap[x].next \notin E
    BY <1>1, <1>6, <1>9, <1>13, <1>15, <2>2
  <2>. QED BY <2>1, <2>2
<1>17. heap[x].next # Nil => {c \in E : r[c] <= r[heap[x].next]} = T \ {x}
  BY <1>1, <1>6, <1>8, <1>9, <1>13, <1>15
<1>18. Sending(o, r, t)'
  <2>1. CASE More(t)'
    <3>1. heap[x].next # Nil /\ heap[x].next \in E /\ reply'[t] = heap[x].next
      <4>1. CASE req[t].op = "LIST_USERS"
        <5>1. left[t] = r[x] /\ left[t] - 1 > 0 /\ left[t] \in Nat
          BY <1>1, <1>3, <1>7, <1>10, <2>1, <4>1 DEF Sending, More, Asks, HeapTypes
        <5>. QED BY <1>9, <1>10, <4>1, <5>1 DEF Asks
      <4>2. CASE req[t].op = "LIST_CONTENT"
        <5>1. reply'[t] # Nil /\ M = E
          BY <1>1, <1>3, <1>5, <2>1, <4>2 DEF Sending, More, Asks
        <5>. QED BY <1>9, <1>10, <4>2, <5>1 DEF Asks
      <4>. QED BY <1>1, <4>1, <4>2
    <3>2. ToCome(o, r, t)' = T \ {x}
      BY <1>6, <1>17, <3>1 DEF ToCome, Ahead
    <3>3. Displayed(T \ {x})' = {heap[c].shows : c \in T \ {x}}
      BY <1>3 DEF Displayed
    <3>4. sent'[t] \cup {heap[c].shows : c \in T \ {x}} = ans[t].out
      BY <1>10, <1>14, <1>15
    <3>5. Displayed(ToCome(o, r, t))' = Displayed(T \ {x})'
      BY <3>2 DEF Displayed
    <3>6. Asks(t, {"LIST_USERS"}) => left'[t] = r[reply'[t]]
      BY <1>1, <1>7, <1>9, <1>10, <3>1 DEF Sending
    <3>7. Asks(t, {"LIST_CONTENT"}) => M = E
      BY <1>1, <1>5 DEF Sending
    <3>8. /\ (reply[t] \in Entries(o, t))'
          /\ (Asks(t, {"LIST_USERS"}) => left[t] = r[reply[t]])'
          /\ (Asks(t, {"LIST_CONTENT"}) => Mine(o, t) = Entries(o, t))'
      BY <1>3, <1>6, <3>1, <3>6, <3>7 DEF Asks
    <3>9. (sent[t] \cup Displayed(ToCome(o, r, t)) = ans[t].out)'
      BY <1>3, <3>3, <3>4, <3>5
    <3>. QED BY <2>1, <3>8, <3>9 DEF Sending
  <2>2. CASE ~More(t)'
    <3>1. heap[x].next = Nil \/ heap[x].next \notin E
      <4>1. CASE req[t].op = "LIST_USERS"
        <5>1. left[t] = r[x] /\ left[t] > 0 /\ ~(left[t] - 1 > 0) /\ left[t] \in Nat
          BY <1>1, <1>3, <1>7, <1>10, <2>2, <4>1 DEF Sending, More, Asks, HeapTypes
        <5>. QED BY <1>9, <5>1
      <4>2. CASE req[t].op = "LIST_CONTENT"
        BY <1>3, <1>10, <2>2, <4>2 DEF More, Asks
      <4>. QED BY <1>1, <4>1, <4>2
    <3>2. sent'[t] = ans[t].out
      BY <1>10, <1>14, <1>16, <3>1
    <3>. QED BY <1>3, <2>2, <3>2 DEF Sending
  <2>. QED BY <2>1, <2>2
<1>19. Listing(o, r, t)'
  BY <1>1, <1>3, <1>12, <1>18 DEF Listing
<1>. QED BY <1>2, <1>4, <1>19, Outside

\* There is nothing more to send.
LEMMA SendEndShape ==
  ASSUME NEW o, NEW r, Inv(o, r), NEW t \in Thread, SendEnd(t)
  PROVE  Shape(o, r)'
<1>1. HeapTypes /\ Numbered(o, r, t) /\ Sending(o, r, t) /\ ~More(t) /\ pc[t] = "send"
  BY DEF Inv, Shape, SendEnd, At, Listing
<1>2. /\ Controls' /\ Others(t) /\ OthersLists(t) /\ mutex # t
      /\ UNCHANGED <<mutex, messages, current, previous, scan, before, tail>>
  BY OutsideControl
<1>3. heap' = heap /\ pc'[t] = "return" /\ UNCHANGED <<req, ans, reply, left, sent>>
  BY <1>1, Moves DEF SendEnd, listing
<1>4. Still(o, r, o, r) /\ \A s \in Thread : SameListing(o, r, o, r, s)
  BY <1>1, <1>2, <1>3 DEF Still, SameListing, Others
<1>5. Numbered(o, r, t)'
  BY <1>1, <1>3 DEF Numbered, Entries, Mine, Kind
<1>6. sent'[t] = ans'[t].out
  BY <1>1, <1>3 DEF Sending
<1>7. Listing(o, r, t)'
  BY <1>3, <1>5, <1>6 DEF Listing
<1>. QED BY <1>2, <1>4, <1>7, Outside

\* Another thread's listing, while it is sent, loses the entries that were sent.
LEMMA ListingCut ==
  ASSUME NEW o, NEW r, Inv(o, r), NEW s \in Thread, pc[s] \in {"send", "return"},
         \A c \in Mine(o, s) : heap'[c] = IF c \in Chain(reply[s]) THEN heap[c] ELSE Lost,
         \A c \in Cell : c \notin Mine(o, s) => c \notin Mine(o, s)',
         pc'[s] = pc[s], req'[s] = req[s], ans'[s] = ans[s],
         reply'[s] = reply[s], left'[s] = left[s], sent'[s] = sent[s]
  PROVE  Listing(o, r, s)'
<1>1. /\ HeapTypes /\ Numbered(o, r, s) /\ r \in [Cell -> Nat]
      /\ pc[s] = "send" => Sending(o, r, s)
      /\ pc[s] = "return" => sent[s] = ans[s].out
  BY DEF Inv, Shape, Listing, Rank
<1>2. PICK M, E, x : M = Mine(o, s) /\ E = Entries(o, s) /\ x = reply[s]
  OBVIOUS
<1>3. M \subseteq Cell /\ E \subseteq M /\ \A c \in M : c # Nil
  BY <1>2, CellAssumption DEF Mine, Entries, Kind
<1>4. PICK C : C = {c \in M : x # Nil /\ r[c] <= r[x]}
  OBVIOUS
<1>5. \A c \in M : c \in Chain(x) <=> c \in C
  <2>1. CASE x = Nil
    BY <1>4, <2>1, ChainNil
  <2>2. CASE x # Nil
    BY <1>2, <1>4, <2>2, RestIsList
  <2>. QED BY <2>1, <2>2
<1>6. /\ \A c \in C : c \in M /\ heap'[c] = heap[c]
      /\ \A c \in M \ C : heap'[c] = Lost
  BY <1>2, <1>4, <1>5
<1>7. Mine(o, s)' = C /\ Entries(o, s)' = C \cap E
  <2>1. \A c \in C : c \in Cell /\ heap'[c].kind \in {"raw", "entry"} /\ o[c] = s
    BY <1>2, <1>3, <1>6 DEF Mine, Kind
  <2>2. \A c \in M \ C : heap'[c].kind = "lost"
    BY <1>6 DEF Lost
  <2>3. Mine(o, s)' = C
    BY <1>2, <2>1, <2>2 DEF Mine, Kind
  <2>4. \A c \in C : c \in E <=> heap'[c].kind = "entry"
    BY <1>2, <1>6 DEF Entries
  <2>. QED BY <2>3, <2>4 DEF Entries
<1>8. /\ x \in M \cup {Nil}
      /\ \A c \in M \ E : r[c] = 0
      /\ \A c \in E : /\ r[c] >= 1
                      /\ heap[c].next = Nil => r[c] = 1 /\ M = E
                      /\ heap[c].next # Nil => heap[c].next \in M /\ r[heap[c].next] = r[c] - 1
      /\ \A c, d \in M : r[c] = r[d] => c = d
  BY <1>1, <1>2 DEF Numbered
<1>9. x \in C \cup {Nil}
  BY <1>1, <1>3, <1>4, <1>8
<1>10. \A c \in C \cap E : heap[c].next # Nil => heap[c].next \in C
  BY <1>1, <1>3, <1>4, <1>8
<1>11. Numbered(o, r, s)'
  <2>1. (reply[s] \in Mine(o, s) \cup {Nil})'
    BY <1>2, <1>7, <1>9
  <2>2. \A c \in C \ (C \cap E) : r[c] = 0
    BY <1>6, <1>8
  <2>3. \A c \in C \cap E : /\ r[c] >= 1
                            /\ heap'[c].next = Nil => r[c] = 1 /\ C = C \cap E
                            /\ heap'[c].next # Nil => heap'[c].next \in C /\ r[heap'[c].next] = r[c] - 1
    BY <1>6, <1>8, <1>10
  <2>4. \A c, d \in C : r[c] = r[d] => c = d
    BY <1>6, <1>8
  <2>. QED BY <1>7, <2>1, <2>2, <2>3, <2>4 DEF Numbered
<1>12. CASE pc[s] = "send"
  <2>1. \A ops : Asks(s, ops)' <=> Asks(s, ops)
    BY DEF Asks
  <2>2. More(s)' <=> More(s)
    BY <2>1 DEF More
  <2>3. CASE ~More(s)
    BY <1>1, <1>11, <1>12, <2>2, <2>3 DEF Listing, Sending
  <2>4. CASE More(s)
    <3>1. /\ x \in E /\ x # Nil
          /\ Asks(s, {"LIST_USERS"}) => left[s] = r[x]
          /\ Asks(s, {"LIST_CONTENT"}) => M = E
          /\ sent[s] \cup Displayed(ToCome(o, r, s)) = ans[s].out
      BY <1>1, <1>2, <1>3, <1>12, <2>4 DEF Sending
    <3>2. PICK T : T = ToCome(o, r, s)
      OBVIOUS
    <3>3. T = C \cap E /\ ToCome(o, r, s)' = T
      BY <1>2, <1>3, <1>4, <1>7, <3>1, <3>2 DEF ToCome, Ahead
    <3>4. Displayed(T)' = Displayed(T)
      BY <1>6, <3>3 DEF Displayed
    <3>5. Displayed(ToCome(o, r, s))' = Displayed(ToCome(o, r, s))
      BY <3>2, <3>3, <3>4 DEF Displayed
    <3>6. x \in C \cap E /\ (M = E => C = C \cap E)
      BY <1>2, <1>4, <1>9, <3>1
    <3>7. Sending(o, r, s)'
      BY <1>2, <1>7, <2>1, <2>2, <2>4, <3>1, <3>5, <3>6 DEF Sending
    <3>. QED BY <1>11, <1>12, <3>7 DEF Listing
  <2>. QED BY <2>3, <2>4
<1>13. CASE pc[s] = "return"
  BY <1>1, <1>11, <1>13 DEF Listing
<1>. QED BY <1>12, <1>13

\* The thread ends: its listing is lost, the others' are not.
LEMMA ReturnShape ==
  ASSUME NEW o, NEW r, Inv(o, r), NEW t \in Thread, Return(t)
  PROVE  Shape(o, r)'
<1>1. HeapTypes /\ pc[t] = "return" /\ r \in [Cell -> Nat]
  BY DEF Inv, Return, At, Rank
<1>2. /\ Controls' /\ Others(t) /\ OthersLists(t) /\ mutex # t
      /\ UNCHANGED <<mutex, messages, current, previous, scan, before, tail>>
  BY OutsideControl
<1>3. /\ pc'[t] = "idle" /\ reply'[t] = Nil /\ left'[t] = 0 /\ sent'[t] = {}
  BY <1>1, Moves DEF Return, HeapTypes
<1>4. PICK K : K = UNION {Chain(reply[s]) : s \in Thread \ {t}}
  OBVIOUS
<1>5. \A c \in Cell : heap'[c] = IF heap[c].kind \in {"raw", "entry"} /\ c \notin K THEN Lost ELSE heap[c]
  BY <1>4 DEF Return
<1>6. Lost.kind = "lost"
  BY DEF Lost
<1>7. Still(o, r, o, r)
  BY <1>1, <1>2, <1>3, <1>5, <1>6 DEF Still, Others
<1>8. ASSUME NEW s \in Thread PROVE Chain(reply[s]) \subseteq Mine(o, s)
  <2>1. CASE reply[s] = Nil
    BY <2>1, ChainNil
  <2>2. CASE reply[s] # Nil
    BY <2>2, RestIsList
  <2>. QED BY <2>1, <2>2
<1>9. ASSUME NEW s \in Thread, NEW c \in Mine(o, s)
      PROVE  c \in Cell /\ heap[c].kind \in {"raw", "entry"} /\ o[c] = s
  BY <1>9 DEF Mine, Kind
<1>10. ASSUME NEW s \in Thread, s # t, NEW c \in Mine(o, s)
       PROVE  heap'[c] = IF c \in Chain(reply[s]) THEN heap[c] ELSE Lost
  <2>1. c \in K <=> c \in Chain(reply[s])
    BY <1>4, <1>8, <1>9, <1>10
  <2>. QED BY <1>5, <1>9, <2>1
<1>11. ASSUME NEW s \in Thread, NEW c \in Cell, c \notin Mine(o, s) PROVE c \notin Mine(o, s)'
  BY <1>5, <1>6, <1>11 DEF Mine, Kind
<1>12. ASSUME NEW s \in Thread, s # t PROVE SameListing(o, r, o, r, s) \/ Listing(o, r, s)'
  <2>1. CASE pc[s] \in {"send", "return"}
    BY <1>2, <1>10, <1>11, <1>12, <2>1, ListingCut DEF Others, OthersLists
  <2>2. CASE pc[s] \notin {"send", "return"}
    <3>1. Mine(o, s) \subseteq Chain(reply[s])
      <4>1. CASE pc[s] = "fill"
        BY <4>1, Filled
      <4>2. CASE pc[s] # "fill"
        <5>1. Mine(o, s) \subseteq {reply[s]} /\ \A c \in Mine(o, s) : c # Nil
          BY <2>2, <4>2, CellAssumption DEF Inv, Shape, Listing, Empty, Mine, Kind
        <5>2. reply[s] # Nil => reply[s] \in Chain(reply[s])
          <6>1. reply[s] # Nil => reply[s] \in Mine(o, s) /\ r[reply[s]] <= r[reply[s]]
            BY <1>1, <1>9 DEF Inv, Shape, Listing, Numbered
          <6>. QED BY <6>1, RestIsList
        <5>. QED BY <5>1, <5>2
      <4>. QED BY <4>1, <4>2
    <3>2. \A c \in Mine(o, s) : heap'[c] = heap[c]
      BY <1>10, <1>12, <3>1
    <3>3. SameListing(o, r, o, r, s)
      BY <1>11, <3>2 DEF SameListing, Mine, Kind
    <3>. QED BY <3>3
  <2>. QED BY <2>1, <2>2
<1>13. Mine(o, t)' = {}
  <2>1. ASSUME NEW c \in Mine(o, t) PROVE heap'[c].kind = "lost"
    <3>1. c \notin K
      BY <1>4, <1>8, <1>9, <2>1
    <3>. QED BY <1>5, <1>6, <1>9, <2>1, <3>1
  <2>2. Mine(o, t)' \subseteq Cell /\ \A c \in Mine(o, t)' : heap'[c].kind # "lost"
    BY DEF Mine, Kind
  <2>. QED BY <1>11, <2>1, <2>2
<1>14. Listing(o, r, t)'
  BY <1>3, <1>13 DEF Listing, Numbered, Empty, Entries
<1>. QED BY <1>2, <1>7, <1>12, <1>14, Outside

-----------------------------------------------------------------------------
(* Steps of an operation that only read.                                   *)

\* What remains to be shown of a step of the thread inside.
LEMMA InsideStep ==
  ASSUME NEW o, NEW r, NEW p, NEW q, NEW t \in Thread, Inv(o, r),
         pc[t] \in Section \cup {"lock"},
         \A s \in Thread : s # t => pc[s] \notin Section,
         Controls', Others(t), OthersLists(t), mutex' \in {t, Nil},
         UsersSound(q)', FilesSound(p, q)', Cursors(p, q, t)', Listing(p, q, t)',
         \A s \in Thread : s # t => SameListing(o, r, p, q, s)
  PROVE  Shape(p, q)'
<1>1. ASSUME NEW s \in Thread, s # t PROVE Cursors(p, q, s)' /\ Listing(p, q, s)'
  <2>1. /\ Listing(o, r, s) /\ pc[s] # "fill" /\ pc'[s] = pc[s] /\ req'[s] = req[s] /\ ans'[s] = ans[s]
        /\ reply'[s] = reply[s] /\ left'[s] = left[s] /\ sent'[s] = sent[s]
    BY <1>1 DEF Inv, Shape, Section, Others, OthersLists
  <2>2. Listing(p, q, s)'
    BY <1>1, <2>1, ListingApart
  <2>3. Control(s)' /\ mutex' # s
    BY <1>1, NilAssumption DEF Controls
  <2>. QED BY <2>2, <2>3, CursorsOutside
<1>. QED BY <1>1 DEF Shape

\* And of one that does not change the heap.
LEMMA QuietStep ==
  ASSUME NEW o, NEW r, NEW t \in Thread, Inv(o, r), UNCHANGED <<heap, messages>>,
         \A s \in Thread : s # t => pc[s] \notin Section,
         pc[t] \in Section \cup {"lock"}, pc[t] # "free", pc'[t] # "free",
         Controls', Others(t), OthersLists(t), mutex' \in {t, Nil},
         Cursors(o, r, t)', Listing(o, r, t)'
  PROVE  Shape(o, r)'
<1>1. Still(o, r, o, r) /\ \A s \in Thread : SameListing(o, r, o, r, s)
  BY DEF Still, SameListing, Others, Section
<1>2. UsersSound(r)' /\ FilesSound(o, r)'
  BY <1>1, StillSound DEF Inv, Shape
<1>. QED BY <1>1, <1>2, InsideStep

\* A refusal.
LEMMA RefuseShape ==
  ASSUME NEW o, NEW r, NEW t \in Thread, Inv(o, r), pc[t] \in Section \ {"free", "fill"},
         NEW code \in -1 .. 4, Refuse(t, code), OthersLists(t)
  PROVE  Shape(o, r)'
<1>1. HeapTypes /\ Controls /\ Listing(o, r, t) /\ \A s \in Thread : s # t => pc[s] \notin Section
  BY Section1 DEF Inv
<1>2. Controls' /\ Others(t) /\ mutex' = Nil /\ pc'[t] = "return" /\ ans'[t] = [code |-> code, out |-> {}]
  BY <1>1, LeftControl DEF Refuse
<1>3. Cursors(o, r, t)'
  <2>1. Control(t)' /\ mutex' # t
    BY <1>2, NilAssumption DEF Controls
  <2>. QED BY <2>1, CursorsOutside
<1>4. Listing(o, r, t)'
  <2>1. UNCHANGED <<heap, reply, left, sent>>
    BY DEF Refuse, Leave, Unlock
  <2>2. SameListing(o, r, o, r, t)
    BY <2>1 DEF SameListing
  <2>3. pc[t] \notin {"fill", "send", "return"}
    BY DEF Section
  <2>. QED BY <1>1, <1>2, <2>1, <2>2, <2>3, ListingEarly
<1>. QED BY <1>1, <1>2, <1>3, <1>4, QuietStep DEF Refuse

\* Taking the mutex, at the head of the list.
LEMMA LockShape ==
  ASSUME NEW o, NEW r, NEW t \in Thread, Inv(o, r), Lock(t)
  PROVE  Shape(o, r)'
<1>1. /\ Controls' /\ AtRest' /\ Others(t) /\ OthersLists(t)
  <2>1. Operation(t) /\ ~ Crash
    BY NilAssumption DEF Operation, Lock, Crash
  <2>. QED BY <2>1, OperationControl
<1>2. /\ HeapTypes /\ Controls /\ AtRest /\ Listing(o, r, t) /\ UsersSound(r) /\ r \in [Cell -> Nat]
  BY DEF Inv, Shape, Rank
<1>3. /\ pc[t] = "lock" /\ pc'[t] = "find" /\ mutex = Nil /\ mutex' = t /\ req' = req
      /\ current' = messages /\ previous' = Nil /\ scan' = Nil /\ before' = Nil /\ tail' = Nil
      /\ UNCHANGED <<heap, messages, reply, left, sent>>
  BY <1>2, Moves DEF Lock, At, AtRest, listing
<1>4. \A s \in Thread : pc[s] \notin Section
  BY <1>2, <1>3, NilAssumption DEF Controls, Control
<1>5. Listed' = Listed /\ \A n \in Listed : Ahead(r, n, messages)
  <2>1. \A s \in Thread : pc[s] # "free" /\ pc'[s] # "free"
    BY <1>1, <1>3, <1>4 DEF Others, Section
  <2>2. Listed' = Listed
    BY <1>3, <2>1 DEF Listed, Doomed, Kind
  <2>. QED BY <1>2, <2>2, AheadHead DEF UsersSound
<1>6. messages \in Listed \cup {Nil}
  BY <1>2 DEF UsersSound, IsList
<1>7. Cursors(o, r, t)'
  BY <1>3, <1>5, <1>6 DEF Cursors, Standing, Walking, Ahead
<1>8. Listing(o, r, t)'
  <2>1. SameListing(o, r, o, r, t)
    BY <1>3 DEF SameListing
  <2>. QED BY <1>2, <1>3, <2>1, ListingEarly
<1>. QED BY <1>1, <1>3, <1>4, <1>7, <1>8, QuietStep

\* A step inside an operation.
LEMMA Stays ==
  ASSUME NEW o, NEW r, NEW t \in Thread, Inv(o, r), Operation(t), pc[t] \in Section,
         UNCHANGED <<mutex, req>>
  PROVE  /\ Controls' /\ Others(t) /\ OthersLists(t) /\ mutex = t /\ mutex' = t
         /\ \A s \in Thread : s # t => pc[s] \notin Section
<1>1. mutex = t /\ t # Nil /\ \A s \in Thread : s # t => pc[s] \notin Section
  BY Section1, NilAssumption
<1>2. ~ Crash
  BY <1>1 DEF Crash
<1>. QED BY <1>1, <1>2, OperationControl

\* The users and files, when the heap is the same and nothing is freed.
LEMMA SameUsers ==
  ASSUME heap' = heap, \A s \in Thread : pc[s] # "free", \A s \in Thread : pc'[s] # "free"
  PROVE  Listed' = Listed /\ \A o, n : Owned(o, n)' = Owned(o, n)
<1>1. Listed' = Listed
  BY DEF Listed, Doomed, Kind
<1>2. \A o, n : Owned(o, n)' = Owned(o, n)
  BY DEF Owned, Kind
<1>. QED BY <1>1, <1>2

\* Walking the users.
LEMMA FindShape ==
  ASSUME NEW o, NEW r, NEW t \in Thread, Inv(o, r), Find(t)
  PROVE  Shape(o, r)'
<1>1. /\ pc[t] = "find" /\ pc[t] \in Section
      /\ UNCHANGED <<alive, heap, messages, mutex, req, ans, scan, before, tail, reply, left, sent>>
      /\ Operation(t)
  BY DEF Find, At, Section, Operation, listing
<1>2. /\ HeapTypes /\ UsersSound(r) /\ Listing(o, r, t) /\ r \in [Cell -> Nat]
      /\ Walking(r, t) /\ scan = Nil /\ before = Nil /\ tail = Nil
      /\ current \in Listed \cup {Nil} /\ previous \in Listed \cup {Nil}
      /\ \A s \in Thread : pc[s] # "free"
  BY <1>1, Walks DEF Inv, Shape, Rank
<1>3. /\ Controls' /\ Others(t) /\ OthersLists(t) /\ mutex = t /\ mutex' = t
      /\ \A s \in Thread : s # t => pc[s] \notin Section
  BY <1>1, Stays
<1>4. \/ current = Nil /\ pc'[t] = "absent" /\ UNCHANGED <<current, previous>>
      \/ /\ current # Nil /\ heap[current].name = req[t].user
         /\ pc'[t] = "found" /\ UNCHANGED <<current, previous>>
      \/ /\ current # Nil /\ heap[current].name # req[t].user
         /\ previous' = current /\ current' = heap[current].next /\ pc'[t] = "find"
  BY <1>1, <1>2, Moves DEF Find
<1>5. pc'[t] \in {"absent", "found", "find"} /\ \A s \in Thread : pc'[s] # "free"
  BY <1>2, <1>3, <1>4 DEF Others
<1>6. Listed' = Listed
  BY <1>1, <1>2, <1>5, SameUsers
<1>7. current' \in Listed \cup {Nil} /\ previous' \in Listed \cup {Nil} /\ Walking(r, t)'
      /\ Standing(t)'
  <2>1. CASE UNCHANGED <<current, previous>>
    BY <1>1, <1>2, <1>4, <1>5, <1>6, <2>1 DEF Walking, Ahead, Standing
  <2>2. CASE current # Nil /\ heap[current].name # req[t].user
             /\ previous' = current /\ current' = heap[current].next /\ pc'[t] = "find"
    <3>1. current \in Listed /\ Link(heap, current) = heap[current].next
      BY <1>2, <2>2, Members, Pointers
    <3>2. /\ Link(heap, current) \in Listed \cup {Nil}
          /\ \A d \in Listed : Ahead(r, d, current) <=> d = current \/ Ahead(r, d, Link(heap, current))
      BY <1>2, <3>1, AheadNext DEF UsersSound
    <3>. QED BY <1>1, <1>2, <1>6, <2>2, <3>1, <3>2 DEF Walking, Ahead, Standing
  <2>. QED BY <1>4, <2>1, <2>2
<1>8. Cursors(o, r, t)'
  BY <1>1, <1>2, <1>5, <1>6, <1>7 DEF Cursors
<1>9. Listing(o, r, t)'
  <2>1. SameListing(o, r, o, r, t)
    BY <1>1 DEF SameListing
  <2>. QED BY <1>1, <1>2, <1>5, <2>1, ListingEarly
<1>. QED BY <1>1, <1>3, <1>5, <1>8, <1>9, QuietStep

\* To the files of a user, to the users for a list, and to those for another's files.
LEMMA EnterShape ==
  ASSUME NEW o, NEW r, NEW t \in Thread, Inv(o, r), Files(t) \/ ListContent(t)
  PROVE  Shape(o, r)'
<1>1. /\ pc[t] = "found" /\ pc[t] \in Section /\ heap[current].addr # Nil
      /\ UNCHANGED <<heap, messages, mutex, req, ans, previous, before, tail, reply, left, sent>>
      /\ Operation(t)
  BY DEF Files, ListContent, Connected, Found, At, Section, Operation, listing
<1>2. /\ HeapTypes /\ UsersSound(r) /\ FilesSound(o, r) /\ Listing(o, r, t) /\ r \in [Cell -> Nat]
      /\ scan = Nil /\ before = Nil /\ tail = Nil
      /\ current \in Listed /\ current \in Kind("node") /\ current # Nil /\ heap[current].name = req[t].user
      /\ previous \in Listed \cup {Nil}
      /\ \A s \in Thread : pc[s] # "free"
  BY <1>1, Walks, Members DEF Inv, Shape, Rank
<1>3. /\ Controls' /\ Others(t) /\ OthersLists(t) /\ mutex = t /\ mutex' = t
      /\ \A s \in Thread : s # t => pc[s] \notin Section
  BY <1>1, Stays
<1>4. \/ Files(t) /\ pc'[t] = "file" /\ scan' = heap[current].list_files /\ current' = current
      \/ ListContent(t) /\ pc'[t] = "target" /\ current' = messages /\ scan' = scan
  BY <1>2, Moves DEF Files, ListContent
<1>5. pc'[t] \in {"file", "target"} /\ \A s \in Thread : pc'[s] # "free"
  BY <1>2, <1>3, <1>4 DEF Others
<1>6. Listed' = Listed /\ \A n : Owned(o, n)' = Owned(o, n)
  BY <1>1, <1>2, <1>5, SameUsers
<1>7. Cursors(o, r, t)'
  <2>1. CASE Files(t) /\ pc'[t] = "file" /\ scan' = heap[current].list_files /\ current' = current
    <3>1. IsList(heap, Owned(o, current), r, heap[current].list_files)
      <4>1. FirstFile(current) = heap[current].list_files
        BY <1>2, NothingDoomed
      <4>. QED BY <1>2, <4>1 DEF FilesSound
    <3>2. /\ \A f \in Owned(o, current) : Ahead(r, f, heap[current].list_files)
          /\ heap[current].list_files \in Owned(o, current) \cup {Nil}
      BY <1>2, <3>1, AheadHead DEF IsList
    <3>3. AtFile(o, r, t)'
      BY <1>1, <1>2, <1>6, <2>1, <3>2 DEF AtFile, Ahead
    <3>. QED BY <1>1, <1>2, <1>6, <2>1, <3>3 DEF Cursors, Standing
  <2>2. CASE ListContent(t) /\ pc'[t] = "target" /\ current' = messages /\ scan' = scan
    <3>1. /\ \A n \in Listed : Ahead(r, n, messages)
          /\ messages \in Listed \cup {Nil}
      BY <1>2, AheadHead DEF UsersSound, IsList
    <3>2. Asker(t)'
      BY <1>1, <1>2, <1>6 DEF Asker
    <3>3. AtTarget(r, t)'
      BY <1>1, <1>2, <1>6, <2>2, <3>1, <3>2 DEF AtTarget, Ahead
    <3>. QED BY <1>1, <1>2, <1>6, <2>2, <3>3 DEF Cursors, Standing
  <2>. QED BY <1>4, <2>1, <2>2
<1>8. Listing(o, r, t)'
  <2>1. SameListing(o, r, o, r, t)
    BY <1>1 DEF SameListing
  <2>. QED BY <1>1, <1>2, <1>5, <2>1, ListingEarly
<1>. QED BY <1>1, <1>3, <1>5, <1>7, <1>8, QuietStep

\* Walking the files.
LEMMA FindFileShape ==
  ASSUME NEW o, NEW r, NEW t \in Thread, Inv(o, r), FindFile(t)
  PROVE  Shape(o, r)'
<1>1. /\ pc[t] = "file" /\ pc[t] \in Section /\ scan # Nil /\ heap[scan].name # req[t].file
      /\ before' = scan /\ scan' = heap[scan].next
      /\ UNCHANGED <<heap, messages, mutex, pc, req, ans, current, previous, tail, reply, left, sent>>
      /\ Operation(t)
  BY DEF FindFile, At, Section, Operation, listing
<1>2. /\ HeapTypes /\ Listing(o, r, t) /\ r \in [Cell -> Nat]
      /\ AtFile(o, r, t) /\ tail = Nil /\ current \in Listed /\ heap[current].name = req[t].user
      /\ IsList(heap, Owned(o, current), r, heap[current].list_files)
      /\ previous \in Listed \cup {Nil}
      /\ \A s \in Thread : pc[s] # "free"
  BY <1>1, AtFiles DEF Inv, Shape, Rank
<1>3. /\ Controls' /\ Others(t) /\ OthersLists(t) /\ mutex = t /\ mutex' = t
      /\ \A s \in Thread : s # t => pc[s] \notin Section
  BY <1>1, Stays
<1>4. Listed' = Listed /\ \A n : Owned(o, n)' = Owned(o, n)
  BY <1>1, <1>2, SameUsers
<1>5. scan \in Owned(o, current) /\ Link(heap, scan) = heap[scan].next
  <2>1. scan \in Owned(o, current)
    BY <1>1, <1>2 DEF AtFile
  <2>. QED BY <1>2, <2>1, Members, Pointers
<1>6. /\ Link(heap, scan) \in Owned(o, current) \cup {Nil}
      /\ \A d \in Owned(o, current) : Ahead(r, d, scan) <=> d = scan \/ Ahead(r, d, Link(heap, scan))
  BY <1>2, <1>5, AheadNext
<1>7. scan # Nil /\ AtFile(o, r, t)'
  <2>1. \A f \in Owned(o, current) : heap[f].name = req[t].file => Ahead(r, f, heap[scan].next)
    BY <1>1, <1>2, <1>5, <1>6 DEF AtFile
  <2>. QED BY <1>1, <1>2, <1>4, <1>5, <1>6, <2>1 DEF AtFile, Ahead
<1>8. Cursors(o, r, t)'
  BY <1>1, <1>2, <1>3, <1>4, <1>7 DEF Cursors, Standing
<1>9. Listing(o, r, t)'
  <2>1. SameListing(o, r, o, r, t)
    BY <1>1 DEF SameListing
  <2>. QED BY <1>1, <1>2, <2>1, ListingEarly
<1>. QED BY <1>1, <1>2, <1>3, <1>8, <1>9, QuietStep

\* The first entry is the one that was allocated, and the walk has passed nothing.
LEMMA FillStarts ==
  ASSUME NEW o, NEW r, NEW t \in Thread, Numbered(o, r, t), Empty(o, t), r \in [Cell -> Nat],
         UNCHANGED <<heap, reply, left, sent>>, pc'[t] = "fill", tail' = reply[t],
         Asks(t, {"LIST_USERS"})' => \A n \in Listed' : Ahead(r, n, scan'),
         ~ Asks(t, {"LIST_USERS"})' => scan' # Nil /\ \A f \in Owned(o, current)' : Ahead(r, f, scan')
  PROVE  Listing(o, r, t)'
<1>1. Mine(o, t)' = Mine(o, t) /\ Entries(o, t)' = Entries(o, t)
  BY DEF Mine, Entries, Kind
<1>2. Numbered(o, r, t)'
  BY <1>1 DEF Numbered
<1>3. Mine(o, t) \subseteq {reply[t]} /\ Entries(o, t) = {} /\ left[t] = 0 /\ sent[t] = {}
  BY DEF Empty
<1>4. /\ reply[t] \in Mine(o, t) \cup {Nil} /\ \A c \in Mine(o, t) : r[c] = 0 /\ Link(heap, c) = Nil
      /\ Mine(o, t) \subseteq Cell
  BY <1>3 DEF Numbered, Mine, Kind, Link, Entries
<1>5. IsList(heap, Mine(o, t), r, reply[t])
  BY <1>3, <1>4, CellAssumption DEF IsList
<1>6. Displayed(Entries(o, t))' = {}
  BY <1>1, <1>3 DEF Displayed
<1>7. IF Asks(t, {"LIST_USERS"})' THEN Copies(Passed(r, Listed))' = {}
                                  ELSE FileCopies(Passed(r, Owned(o, current)))' = {}
  <2>1. CASE Asks(t, {"LIST_USERS"})'
    <3>1. Passed(r, Listed)' = {}
      BY <2>1 DEF Passed, Ahead
    <3>. QED BY <2>1, <3>1 DEF Copies
  <2>2. CASE ~ Asks(t, {"LIST_USERS"})'
    <3>1. Passed(r, Owned(o, current))' = {}
      BY <2>2 DEF Passed, Ahead
    <3>. QED BY <2>2, <3>1 DEF FileCopies
  <2>. QED BY <2>1, <2>2
<1>8. Filling(o, r, t)'
  <2>1. (sent[t] = {})' /\ IsList(heap, Mine(o, t), r, reply[t])'
    BY <1>1, <1>3, <1>5
  <2>2. (left[t] = IF Asks(t, {"LIST_USERS"}) /\ reply[t] # Nil THEN r[reply[t]] ELSE 0)'
    BY <1>3, <1>4
  <2>3. (Mine(o, t) \ Entries(o, t) \subseteq {tail})'
    BY <1>1, <1>3
  <2>4. (tail # Nil => tail \in Mine(o, t) /\ (scan # Nil => tail \notin Entries(o, t)))'
    BY <1>1, <1>3, <1>4
  <2>5. (Asks(t, {"LIST_CONTENT"}) /\ scan = Nil => Mine(o, t) = Entries(o, t))'
    BY DEF Asks
  <2>. QED BY <1>6, <1>7, <2>1, <2>2, <2>3, <2>4, <2>5 DEF Filling
<1>. QED BY <1>2, <1>8 DEF Listing

\* Beginning a list of the users.
LEMMA ListUsersShape ==
  ASSUME NEW o, NEW r, NEW t \in Thread, Inv(o, r), ListUsers(t)
  PROVE  Shape(o, r)'
<1>1. /\ pc[t] = "found" /\ pc[t] \in Section /\ heap[current].addr # Nil /\ Asks(t, {"LIST_USERS"})
      /\ scan' = messages /\ tail' = reply[t]
      /\ UNCHANGED <<heap, messages, mutex, req, ans, current, previous, before, reply, left, sent>>
      /\ Operation(t)
  BY DEF ListUsers, Connected, Found, At, Section, Operation, listing
<1>2. /\ HeapTypes /\ UsersSound(r) /\ Numbered(o, r, t) /\ Empty(o, t) /\ r \in [Cell -> Nat]
      /\ scan = Nil /\ before = Nil /\ tail = Nil
      /\ current \in Listed /\ heap[current].name = req[t].user
      /\ previous \in Listed \cup {Nil}
      /\ \A s \in Thread : pc[s] # "free"
  BY <1>1, Walks, Members DEF Inv, Shape, Rank, Listing
<1>3. /\ Controls' /\ Others(t) /\ OthersLists(t) /\ mutex = t /\ mutex' = t
      /\ \A s \in Thread : s # t => pc[s] \notin Section
  BY <1>1, Stays
<1>4. pc'[t] = "fill" /\ \A s \in Thread : pc'[s] # "free"
  BY <1>2, <1>3, Moves DEF ListUsers, Others
<1>5. Listed' = Listed
  BY <1>1, <1>2, <1>4, SameUsers
<1>6. messages \in Listed \cup {Nil} /\ \A n \in Listed : Ahead(r, n, messages)
  BY <1>2, AheadHead DEF UsersSound, IsList
<1>7. Asks(t, {"LIST_USERS"})'
  BY <1>1 DEF Asks
<1>8. Cursors(o, r, t)'
  <2>1. Asker(t)'
    BY <1>1, <1>2, <1>5 DEF Asker
  <2>2. AtFill(o, t)'
    BY <1>1, <1>5, <1>6, <1>7, <2>1 DEF AtFill
  <2>. QED BY <1>1, <1>2, <1>4, <1>5, <2>2 DEF Cursors, Standing
<1>9. Listing(o, r, t)'
  BY <1>1, <1>2, <1>4, <1>5, <1>6, <1>7, FillStarts
<1>. QED BY <1>1, <1>3, <1>4, <1>8, <1>9, QuietStep

\* A step that gives the mutex back with a listing.
LEMMA SentShape ==
  ASSUME NEW o, NEW r, NEW t \in Thread, Inv(o, r), UNCHANGED <<heap, messages>>,
         pc[t] \in Section \ {"free"},
         Controls', Others(t), OthersLists(t), mutex' = Nil, pc'[t] = "send", Listing(o, r, t)'
  PROVE  Shape(o, r)'
<1>1. Control(t)' /\ mutex' # t
  BY NilAssumption DEF Controls
<1>2. Cursors(o, r, t)'
  BY <1>1, CursorsOutside
<1>3. \A s \in Thread : s # t => pc[s] \notin Section
  BY Section1
<1>. QED BY <1>2, <1>3, QuietStep

\* The other user's node, or none.
LEMMA TargetShape ==
  ASSUME NEW o, NEW r, NEW t \in Thread, Inv(o, r), Target(t), ~ Crash
  PROVE  Shape(o, r)'
<1>1. pc[t] = "target" /\ pc[t] \in Section /\ Operation(t)
  BY DEF Target, At, Section, Operation
<1>2. /\ HeapTypes /\ UsersSound(r) /\ FilesSound(o, r) /\ Numbered(o, r, t) /\ Empty(o, t)
      /\ r \in [Cell -> Nat] /\ Listing(o, r, t)
      /\ AtTarget(r, t) /\ scan = Nil /\ before = Nil /\ tail = Nil
      /\ current \in Listed \cup {Nil} /\ previous \in Listed \cup {Nil}
      /\ \A s \in Thread : pc[s] # "free"
      /\ mutex = t /\ \A s \in Thread : s # t => pc[s] \notin Section
      /\ req[t].op = "LIST_CONTENT"
  BY <1>1, AtOthers, Section1 DEF Inv, Shape, Rank, Listing, Controls, Control, Asks
<1>3. Controls' /\ AtRest' /\ Others(t) /\ OthersLists(t)
  BY <1>1, OperationControl
<1>4. CASE Refuse(t, 3)
  BY <1>1, <1>3, <1>4, RefuseShape
<1>5. ASSUME current # Nil, heap[current].name # req[t].other, current' = heap[current].next,
             UNCHANGED <<alive, heap, messages, mutex, pc, req, ans, previous, scan, before, tail, listing>>
      PROVE  Shape(o, r)'
  <2>1. Listed' = Listed
    BY <1>2, <1>5, SameUsers
  <2>2. current \in Listed /\ Link(heap, current) = heap[current].next
    BY <1>2, <1>5, Members, Pointers
  <2>3. /\ Link(heap, current) \in Listed \cup {Nil}
        /\ \A d \in Listed : Ahead(r, d, current) <=> d = current \/ Ahead(r, d, Link(heap, current))
    BY <1>2, <2>2, AheadNext DEF UsersSound
  <2>4. Asker(t)'
    BY <1>2, <1>5, <2>1 DEF Asker, AtTarget
  <2>5. AtTarget(r, t)'
    BY <1>2, <1>5, <2>1, <2>2, <2>3, <2>4 DEF AtTarget, Ahead
  <2>6. Cursors(o, r, t)'
    BY <1>1, <1>2, <1>5, <2>1, <2>5 DEF Cursors, Standing
  <2>7. Listing(o, r, t)'
    <3>1. SameListing(o, r, o, r, t)
      BY <1>5 DEF SameListing
    <3>. QED BY <1>1, <1>2, <1>5, <3>1, ListingEarly DEF listing
  <2>. QED BY <1>1, <1>2, <1>3, <1>5, <2>6, <2>7, QuietStep
<1>6. ASSUME reply' = [reply EXCEPT ![t] = Nil], Settle(t, 0, {}), Unlock(t, "send"),
             UNCHANGED <<heap, messages>>
      PROVE  Shape(o, r)'
  <2>1. /\ pc'[t] = "send" /\ ans'[t] = [code |-> 0, out |-> {}] /\ reply'[t] = Nil /\ mutex' = Nil
        /\ UNCHANGED <<req, left, sent>>
    <3>1. reply'[t] = Nil
      BY <1>2, <1>6 DEF HeapTypes
    <3>2. pc'[t] = "send"
      BY <1>2, <1>6 DEF Unlock, Goto, HeapTypes
    <3>3. ans'[t] = [code |-> 0, out |-> {}]
      BY <1>2, <1>6 DEF Settle, HeapTypes
    <3>. QED BY <1>6, <3>1, <3>2, <3>3 DEF Unlock
  <2>2. Mine(o, t)' = Mine(o, t) /\ Entries(o, t)' = Entries(o, t)
    BY <1>6 DEF Mine, Entries, Kind
  <2>3. Numbered(o, r, t)'
    BY <1>2, <1>6, <2>1, <2>2 DEF Numbered
  <2>4. ~ More(t)' /\ sent'[t] = {}
    BY <1>2, <2>1 DEF More, Asks, Empty
  <2>5. Listing(o, r, t)'
    BY <2>1, <2>3, <2>4 DEF Listing, Sending
  <2>. QED BY <1>1, <1>3, <1>6, <2>1, <2>5, SentShape
<1>7. ASSUME current # Nil, heap[current].name = req[t].other, heap[current].list_files # Nil,
             scan' = heap[current].list_files, tail' = reply[t], Goto(t, "fill"),
             UNCHANGED <<alive, heap, messages, mutex, req, ans, current, previous, before, listing>>
      PROVE  Shape(o, r)'
  <2>1. pc'[t] = "fill" /\ \A s \in Thread : pc'[s] # "free"
    BY <1>2, <1>3, <1>7, Moves DEF Others
  <2>2. Listed' = Listed /\ Owned(o, current)' = Owned(o, current)
    <3>1. Listed' = Listed /\ Owned(o, current)' = Owned(o, current')
      BY <1>2, <1>7, <2>1, SameUsers
    <3>. QED BY <1>7, <3>1
  <2>3. current \in Listed /\ current \in Kind("node")
    BY <1>2, <1>7, Members
  <2>4. IsList(heap, Owned(o, current), r, heap[current].list_files)
    <3>1. FirstFile(current) = heap[current].list_files
      BY <1>2, NothingDoomed
    <3>. QED BY <1>2, <2>3, <3>1 DEF FilesSound
  <2>5. /\ \A f \in Owned(o, current) : Ahead(r, f, heap[current].list_files)
        /\ heap[current].list_files \in Owned(o, current) \cup {Nil}
    BY <1>2, <2>4, AheadHead DEF IsList
  <2>6. ~ Asks(t, {"LIST_USERS"})'
    BY <1>2, <1>7 DEF Asks
  <2>7. Asker(t)'
    BY <1>2, <1>7, <2>2 DEF Asker, AtTarget
  <2>8. AtFill(o, t)'
    BY <1>7, <2>2, <2>5, <2>6, <2>7 DEF AtFill
  <2>9. Cursors(o, r, t)'
    BY <1>1, <1>2, <1>7, <2>1, <2>2, <2>3, <2>8 DEF Cursors, Standing
  <2>10. Listing(o, r, t)'
    BY <1>2, <1>7, <2>1, <2>2, <2>5, <2>6, FillStarts DEF listing
  <2>. QED BY <1>1, <1>2, <1>3, <1>7, <2>1, <2>9, <2>10, QuietStep
<1>. QED BY <1>4, <1>5, <1>6, <1>7 DEF Target

\* A user who is not connected is left out of the list.
LEMMA SkipShape ==
  ASSUME NEW o, NEW r, NEW t \in Thread, Inv(o, r), Skip(t)
  PROVE  Shape(o, r)'
<1>1. /\ pc[t] = "fill" /\ pc[t] \in Section /\ scan # Nil /\ ~ Wanted(t) /\ scan' = heap[scan].next
      /\ UNCHANGED <<heap, messages, mutex, pc, req, ans, current, previous, before, tail, reply, left, sent>>
      /\ Operation(t)
  BY DEF Skip, At, Section, Operation, listing
<1>2. /\ HeapTypes /\ r \in [Cell -> Nat]
      /\ AtFill(o, t) /\ before = Nil /\ Filling(o, r, t) /\ Numbered(o, r, t)
      /\ current \in Listed /\ previous \in Listed \cup {Nil}
      /\ \A s \in Thread : pc[s] # "free"
  BY <1>1, Fills DEF Inv, Rank
<1>3. /\ Controls' /\ Others(t) /\ OthersLists(t) /\ mutex = t /\ mutex' = t
      /\ \A s \in Thread : s # t => pc[s] \notin Section
  BY <1>1, Stays
<1>4. Listed' = Listed /\ \A n : Owned(o, n)' = Owned(o, n)
  BY <1>1, <1>2, SameUsers
<1>5. Asks(t, {"LIST_USERS"}) /\ heap[scan].addr = Nil
  BY <1>1 DEF Wanted
<1>6. scan \in Listed /\ Link(heap, scan) = heap[scan].next /\ IsList(heap, Listed, r, messages)
  <2>1. scan \in Listed /\ IsList(heap, Listed, r, messages)
    BY <1>1, <1>5, Fills DEF Asks
  <2>. QED BY <1>2, <2>1, Members, Pointers
<1>7. /\ Link(heap, scan) \in Listed \cup {Nil}
      /\ \A d \in Listed : Ahead(r, d, scan) <=> d = scan \/ Ahead(r, d, Link(heap, scan))
  BY <1>2, <1>6, AheadNext
<1>8. \A ops : Asks(t, ops)' <=> Asks(t, ops)
  BY <1>1 DEF Asks
<1>9. Cursors(o, r, t)'
  <2>1. Asker(t)'
    BY <1>1, <1>2, <1>4 DEF Asker, AtFill
  <2>2. AtFill(o, t)'
    BY <1>1, <1>4, <1>5, <1>6, <1>7, <1>8, <2>1 DEF AtFill
  <2>. QED BY <1>1, <1>2, <1>4, <2>2 DEF Cursors, Standing
<1>10. Mine(o, t)' = Mine(o, t) /\ Entries(o, t)' = Entries(o, t)
  BY <1>1 DEF Mine, Entries, Kind
<1>11. Copies(Passed(r, Listed))' = Copies(Passed(r, Listed))
  <2>1. PICK P : P = Passed(r, Listed)
    OBVIOUS
  <2>2. Passed(r, Listed)' \subseteq P \cup {scan} /\ P \subseteq Passed(r, Listed)'
    BY <1>1, <1>4, <1>6, <1>7, <2>1 DEF Passed, Ahead
  <2>3. Copies(Passed(r, Listed))' = Copies(P)
    <3>1. PICK Q : Q = Passed(r, Listed)'
      OBVIOUS
    <3>2. {m \in Q : heap[m].addr # Nil} = {m \in P : heap[m].addr # Nil}
      BY <1>5, <2>2, <3>1
    <3>. QED BY <1>1, <3>1, <3>2 DEF Copies
  <2>. QED BY <2>1, <2>3
<1>12. Filling(o, r, t)'
  <2>1. Displayed(Entries(o, t))' = Displayed(Entries(o, t))
    BY <1>1, <1>10 DEF Displayed
  <2>2. Displayed(Entries(o, t))' = Copies(Passed(r, Listed))'
    BY <1>2, <1>5, <1>11, <2>1 DEF Filling
  <2>3. ~ Asks(t, {"LIST_CONTENT"})
    BY <1>5 DEF Asks
  <2>. QED BY <1>1, <1>2, <1>5, <1>8, <1>10, <2>2, <2>3 DEF Filling
<1>13. Listing(o, r, t)'
  <2>1. Numbered(o, r, t)'
    BY <1>1, <1>2, <1>10 DEF Numbered
  <2>. QED BY <1>1, <1>12, <2>1 DEF Listing
<1>. QED BY <1>1, <1>2, <1>3, <1>9, <1>13, QuietStep

\* The listing is complete.
LEMMA FillEndShape ==
  ASSUME NEW o, NEW r, NEW t \in Thread, Inv(o, r), FillEnd(t), ~ Crash
  PROVE  Shape(o, r)'
<1>1. /\ pc[t] = "fill" /\ pc[t] \in Section /\ scan = Nil /\ UNCHANGED <<heap, messages, reply>>
      /\ Unlock(t, "send") /\ Operation(t)
  BY DEF FillEnd, At, Section, Operation
<1>2. HeapTypes /\ r \in [Cell -> Nat] /\ Filling(o, r, t) /\ Numbered(o, r, t)
      /\ req[t].op \in {"LIST_USERS", "LIST_CONTENT"}
  BY <1>1, Fills DEF Inv, Rank
<1>3. Controls' /\ Others(t) /\ OthersLists(t)
  BY <1>1, OperationControl
<1>4. /\ pc'[t] = "send" /\ ans'[t].out = Displayed(Entries(o, t)) /\ mutex' = Nil
      /\ UNCHANGED <<req, left, sent>>
  <2>1. ans'[t].out = {heap[c].shows : c \in {d \in Chain(reply[t]) : heap[d].kind = "entry"}}
    BY <1>2 DEF FillEnd, Settle, HeapTypes
  <2>2. ans'[t].out = Displayed(Entries(o, t))
    BY <1>1, <2>1, Filled
  <2>. QED BY <1>1, <1>2, <2>2, Moves DEF Unlock
<1>5. PICK M, E, x : M = Mine(o, t) /\ E = Entries(o, t) /\ x = reply[t]
  OBVIOUS
<1>6. Mine(o, t)' = M /\ Entries(o, t)' = E
  BY <1>1, <1>5 DEF Mine, Entries, Kind
<1>7. Numbered(o, r, t)'
  BY <1>1, <1>2, <1>5, <1>6 DEF Numbered
<1>8. /\ sent[t] = {} /\ E \subseteq M /\ M \subseteq Cell
      /\ IF x = Nil THEN M = {} ELSE x \in M /\ \A c \in M : r[c] <= r[x]
      /\ left[t] = IF Asks(t, {"LIST_USERS"}) /\ x # Nil THEN r[x] ELSE 0
      /\ Asks(t, {"LIST_CONTENT"}) => M = E
      /\ \A c \in M \ E : r[c] = 0
      /\ \A c \in E : r[c] >= 1
  BY <1>1, <1>2, <1>5 DEF Filling, Numbered, IsList, Entries
<1>9. sent'[t] = {} /\ left'[t] = left[t] /\ reply'[t] = x
  BY <1>1, <1>4, <1>5, <1>8
<1>10. \A ops : Asks(t, ops)' <=> Asks(t, ops)
  BY <1>4 DEF Asks
<1>11. ans'[t].out = {heap[c].shows : c \in E}
  BY <1>4, <1>5 DEF Displayed
<1>12. Sending(o, r, t)'
  <2>1. CASE More(t)'
    <3>1. x # Nil /\ x \in E
      <4>1. CASE req[t].op = "LIST_USERS"
        <5>1. Asks(t, {"LIST_USERS"}) /\ left[t] > 0
          BY <1>9, <1>10, <2>1, <4>1 DEF More, Asks
        <5>2. x # Nil /\ r[x] > 0
          BY <1>8, <5>1
        <5>. QED BY <1>8, <5>2
      <4>2. CASE req[t].op = "LIST_CONTENT"
        BY <1>8, <1>9, <1>10, <2>1, <4>2 DEF More, Asks
      <4>. QED BY <1>2, <4>1, <4>2
    <3>2. ToCome(o, r, t)' = E
      BY <1>6, <1>8, <1>9, <3>1 DEF ToCome, Ahead
    <3>3. Displayed(ToCome(o, r, t))' = {heap[c].shows : c \in E}
      BY <1>1, <3>2 DEF Displayed
    <3>4. (sent[t] \cup Displayed(ToCome(o, r, t)) = ans[t].out)'
      BY <1>9, <1>11, <3>3
    <3>5. /\ (reply[t] \in Entries(o, t))'
          /\ (Asks(t, {"LIST_USERS"}) => left[t] = r[reply[t]])'
          /\ (Asks(t, {"LIST_CONTENT"}) => Mine(o, t) = Entries(o, t))'
      BY <1>6, <1>8, <1>9, <1>10, <3>1
    <3>. QED BY <2>1, <3>4, <3>5 DEF Sending
  <2>2. CASE ~ More(t)'
    <3>1. E = {}
      <4>1. CASE x = Nil
        BY <1>8, <4>1
      <4>2. CASE x # Nil
        <5>1. Asks(t, {"LIST_USERS"}) /\ ~ (r[x] > 0)
          BY <1>2, <1>8, <1>9, <1>10, <2>2, <4>2 DEF More, Asks
        <5>. QED BY <1>2, <1>8, <4>2, <5>1
      <4>. QED BY <4>1, <4>2
    <3>2. sent'[t] = ans'[t].out
      BY <1>9, <1>11, <3>1
    <3>. QED BY <2>2, <3>2 DEF Sending
  <2>. QED BY <2>1, <2>2
<1>13. Listing(o, r, t)'
  BY <1>4, <1>7, <1>12 DEF Listing
<1>. QED BY <1>1, <1>3, <1>4, <1>13, SentShape

-----------------------------------------------------------------------------
(* Steps of an operation that change the list.                             *)

\* Listings are not touched by a change of nodes and files.
LEMMA SameEntries ==
  ASSUME NEW o, NEW r, NEW p, NEW q,
         \A c \in Cell : heap[c].kind \in {"raw", "entry"} \/ heap'[c].kind \in {"raw", "entry"} =>
                           heap'[c] = heap[c] /\ p[c] = o[c] /\ q[c] = r[c]
  PROVE  \A s : SameListing(o, r, p, q, s)
BY DEF SameListing

\* What remains to be shown of a step that changes the list and leaves.
LEMMA LeavingStep ==
  ASSUME NEW o, NEW r, NEW p, NEW q, NEW t \in Thread, Inv(o, r), pc[t] \in Section \ {"fill"},
         Operation(t), ~ Crash, mutex' = Nil, UNCHANGED <<reply, left, sent>>,
         pc'[t] = "return", ans'[t].out = {},
         UsersSound(q)', FilesSound(p, q)',
         \A s : SameListing(o, r, p, q, s)
  PROVE  Shape(p, q)'
<1>1. /\ Listing(o, r, t) /\ \A s \in Thread : s # t => pc[s] \notin Section
      /\ pc[t] \notin {"fill", "send", "return"}
  BY Section1 DEF Section
<1>2. Controls' /\ Others(t) /\ OthersLists(t)
  BY OperationControl
<1>3. Cursors(p, q, t)'
  <2>1. Control(t)' /\ mutex' # t
    BY <1>2, NilAssumption DEF Controls
  <2>. QED BY <2>1, CursorsOutside
<1>4. Listing(p, q, t)'
  BY <1>1, ListingEarly
<1>. QED BY <1>1, <1>2, <1>3, <1>4, InsideStep

\* Leaving is not crashing.
LEMMA LeaveFacts ==
  ASSUME NEW o, NEW r, NEW t \in Thread, Inv(o, r), alive, NEW code, Leave(t, code)
  PROVE  /\ ~ Crash /\ mutex' = Nil /\ pc'[t] = "return" /\ ans'[t] = [code |-> code, out |-> {}]
         /\ UNCHANGED <<left, sent>>
         /\ \A s \in Thread : s # t => pc'[s] = pc[s]
<1>1. HeapTypes
  BY DEF Inv
<1>2. ~ Crash
  BY DEF Leave, Unlock, Crash
<1>3. pc'[t] = "return" /\ \A s \in Thread : s # t => pc'[s] = pc[s]
  BY <1>1 DEF Leave, Unlock, Goto, HeapTypes
<1>4. ans'[t] = [code |-> code, out |-> {}]
  BY <1>1 DEF Leave, Settle, HeapTypes
<1>. QED BY <1>2, <1>3, <1>4 DEF Leave, Unlock

\* A step on the files of x only.
FilesOnly(o, r, p, q, x) ==
  /\ messages' = messages
  /\ \A c \in Cell : heap[c].kind = "node" \/ heap'[c].kind = "node" =>
       /\ heap'[c].kind = heap[c].kind /\ heap'[c].name = heap[c].name /\ heap'[c].next = heap[c].next
       /\ q[c] = r[c]
       /\ c # x => heap'[c] = heap[c]
  /\ \A c \in Cell : (heap[c].kind = "file" /\ o[c] # x) \/ (heap'[c].kind = "file" /\ p[c] # x) =>
       heap'[c] = heap[c] /\ p[c] = o[c] /\ q[c] = r[c]

\* The list and the files of the others are sound as they were.
LEMMA FilesStep ==
  ASSUME NEW o, NEW r, NEW p, NEW q, NEW x \in Kind("node"), UsersSound(r), FilesSound(o, r),
         \A s \in Thread : pc[s] # "free", \A s \in Thread : pc'[s] # "free",
         FilesOnly(o, r, p, q, x),
         IsList(heap, Owned(p, x), q, heap[x].list_files)', Distinct(Owned(p, x))'
  PROVE  UsersSound(q)' /\ FilesSound(p, q)'
<1>1. messages' = messages /\ Kind("node")' = Kind("node")
  BY DEF FilesOnly, Kind
<1>2. \A n \in Kind("node") : heap'[n].name = heap[n].name /\ heap'[n].next = heap[n].next /\ q[n] = r[n]
  BY DEF FilesOnly, Kind
<1>3. ASSUME NEW n \in Kind("node"), n # x
      PROVE  /\ heap'[n] = heap[n]
             /\ Owned(p, n)' = Owned(o, n)
             /\ \A f \in Owned(o, n) : heap'[f] = heap[f] /\ q[f] = r[f]
  <2>1. heap'[n] = heap[n]
    BY <1>3 DEF FilesOnly, Kind
  <2>2. \A f \in Owned(o, n) : heap'[f] = heap[f] /\ q[f] = r[f]
    BY <1>3 DEF FilesOnly, Owned, Kind
  <2>3. Owned(p, n)' = Owned(o, n)
    BY <1>3 DEF FilesOnly, Owned, Kind
  <2>. QED BY <2>1, <2>2, <2>3
<1>4. \A f \in Kind("file")' : p[f] \in Kind("node")
  BY DEF FilesOnly, FilesSound, Kind
<1>5. Listed = Kind("node") /\ \A n : FirstFile(n) = heap[n].list_files
  BY NothingDoomed
<1>6. Listed' = Kind("node") /\ \A n : FirstFile(n)' = heap'[n].list_files
  BY <1>1 DEF Listed, Doomed, FirstFile
<1>7. \A n \in Kind("node") : heap[n].kind = "node" /\ heap'[n].kind = "node"
  BY <1>1 DEF Kind
<1>8. UsersSound(q)'
  <2>1. \A n \in Listed : Link(heap', n) = Link(heap, n) /\ q[n] = r[n]
    BY <1>5, <1>7, <1>2 DEF Link
  <2>2. IsList(heap', Listed, q, messages)
    BY <2>1, ListFrame DEF UsersSound
  <2>3. Distinct(Listed)'
    BY <1>1, <1>5, <1>6, <1>2 DEF UsersSound, Distinct
  <2>. QED BY <1>1, <1>5, <1>6, <2>2, <2>3 DEF UsersSound
<1>9. ASSUME NEW n \in Kind("node")
      PROVE  IsList(heap, Owned(p, n), q, FirstFile(n))' /\ Distinct(Owned(p, n))'
  <2>1. CASE n = x
    BY <1>6, <2>1
  <2>2. CASE n # x
    <3>1. /\ IsList(heap, Owned(o, n), r, heap[n].list_files) /\ Distinct(Owned(o, n))
          /\ \A f \in Owned(o, n) : heap'[f] = heap[f] /\ q[f] = r[f]
          /\ Owned(p, n)' = Owned(o, n)
          /\ heap'[n] = heap[n]
      BY <1>5, <1>3, <2>2 DEF FilesSound
    <3>2. \A f \in Owned(o, n) : Link(heap', f) = Link(heap, f) /\ q[f] = r[f]
      BY <3>1 DEF Link
    <3>3. IsList(heap', Owned(o, n), q, heap[n].list_files)
      BY <3>1, <3>2, ListFrame
    <3>4. Distinct(Owned(p, n))'
      BY <3>1 DEF Distinct
    <3>. QED BY <1>6, <3>1, <3>3, <3>4
  <2>. QED BY <2>1, <2>2
<1>. QED BY <1>1, <1>8, <1>9, <1>4 DEF FilesSound

\* The user's address is written.
SetsAddr(a) == heap' = [heap EXCEPT ![current].addr = a] /\ UNCHANGED <<messages, reply>>

\* A user connects or disconnects.
LEMMA AddrShape ==
  ASSUME NEW o, NEW r, NEW t \in Thread, Inv(o, r), Operation(t), At(t, "found"), NEW a,
         SetsAddr(a), Leave(t, 0)
  PROVE  /\ Shape(o, r)'
         /\ \E x : /\ x = current /\ FilesOnly(o, r, o, r, x) /\ Owned(o, x)' = Owned(o, x)
                   /\ heap'[x].addr = a /\ \A f \in Owned(o, x) : heap'[f] = heap[f]
<1>1. /\ pc[t] = "found" /\ pc[t] \in Section \ {"fill"} /\ alive
  BY DEF At, Section
<1>2. /\ HeapTypes /\ UsersSound(r) /\ FilesSound(o, r)
      /\ current \in Kind("node") /\ heap[current] \in Node /\ current \in Cell
      /\ \A s \in Thread : pc[s] # "free"
  BY <1>1, Walks, Members DEF Inv, Shape
<1>3. /\ ~ Crash /\ mutex' = Nil /\ pc'[t] = "return" /\ ans'[t] = [code |-> 0, out |-> {}]
      /\ UNCHANGED <<left, sent>> /\ \A s \in Thread : s # t => pc'[s] = pc[s]
  BY <1>1, LeaveFacts
<1>4. /\ heap'[current] = [heap[current] EXCEPT !.addr = a]
      /\ \A c \in Cell : c # current => heap'[c] = heap[c]
      /\ UNCHANGED <<messages, reply>>
  BY <1>2 DEF HeapTypes, SetsAddr
<1>5. /\ heap'[current].kind = heap[current].kind /\ heap'[current].name = heap[current].name
      /\ heap'[current].addr = a
      /\ heap'[current].next = heap[current].next /\ heap'[current].list_files = heap[current].list_files
  BY <1>2, <1>4 DEF Node
<1>6. \A c \in Cell : heap'[c].kind = heap[c].kind
  BY <1>4, <1>5
<1>7. \A k : Kind(k)' = Kind(k)
  BY <1>6 DEF Kind
<1>8. \A n : Owned(o, n)' = Owned(o, n)
  BY <1>7 DEF Owned
<1>9. \A f \in Kind("file") : heap'[f] = heap[f]
  BY <1>2, <1>4 DEF Kind
<1>10. PICK x : x = current
  OBVIOUS
<1>11. IsList(heap, Owned(o, x), r, heap[x].list_files)' /\ Distinct(Owned(o, x))'
  <2>1. IsList(heap, Owned(o, x), r, heap[x].list_files) /\ Distinct(Owned(o, x))
    BY <1>2, <1>10, NothingDoomed DEF FilesSound
  <2>2. \A f \in Owned(o, x) : heap'[f] = heap[f] /\ Link(heap', f) = Link(heap, f)
    BY <1>9 DEF Owned, Link
  <2>3. IsList(heap', Owned(o, x), r, heap[x].list_files)
    BY <2>1, <2>2, ListFrame
  <2>4. Distinct(Owned(o, x))'
    BY <1>8, <2>1, <2>2 DEF Distinct
  <2>. QED BY <1>5, <1>8, <1>10, <2>3, <2>4
<1>12. FilesOnly(o, r, o, r, x)
  BY <1>2, <1>4, <1>5, <1>6, <1>10 DEF FilesOnly, Kind
<1>13. UsersSound(r)' /\ FilesSound(o, r)'
  <2>1. \A s \in Thread : pc'[s] # "free"
    BY <1>2, <1>3
  <2>. QED BY <1>2, <1>10, <1>11, <1>12, <2>1, FilesStep
<1>14. \A s : SameListing(o, r, o, r, s)
  <2>1. \A c \in Cell : heap[c].kind \in {"raw", "entry"} => heap'[c] = heap[c]
    BY <1>2, <1>4 DEF Kind
  <2>. QED BY <1>6, <2>1, SameEntries
<1>15. Shape(o, r)'
  BY <1>1, <1>3, <1>4, <1>13, <1>14, LeavingStep
<1>16. \A f \in Owned(o, x) : heap'[f] = heap[f]
  BY <1>9 DEF Owned
<1>. QED BY <1>5, <1>8, <1>10, <1>12, <1>15, <1>16

\* A new user, in front of the others.
AddsUser(t, c) ==
  /\ heap' = [heap EXCEPT ![c] = [kind |-> "node", name |-> req[t].user, addr |-> Nil,
                                  list_files |-> Nil, next |-> messages]]
  /\ messages' = c /\ UNCHANGED reply

\* The list is sound with it.
LEMMA RegisterUserShape ==
  ASSUME NEW o, NEW r, NEW t \in Thread, Inv(o, r), Operation(t), At(t, "absent"), Leave(t, 0),
         NEW c \in FreeCells, AddsUser(t, c)
  PROVE  \E q \in Rank : Shape(o, q)'
<1>1. /\ pc[t] = "absent" /\ pc[t] \in Section \ {"fill"} /\ alive
  BY DEF At, Section
<1>2. /\ HeapTypes /\ UsersSound(r) /\ FilesSound(o, r) /\ r \in [Cell -> Nat]
      /\ Walking(r, t) /\ current = Nil
      /\ \A s \in Thread : pc[s] # "free"
  BY <1>1, Walks DEF Inv, Shape, Rank
<1>3. /\ ~ Crash /\ mutex' = Nil /\ pc'[t] = "return" /\ ans'[t] = [code |-> 0, out |-> {}]
      /\ UNCHANGED <<left, sent>> /\ \A s \in Thread : s # t => pc'[s] = pc[s]
  BY <1>1, LeaveFacts
<1>4. \A s \in Thread : pc'[s] # "free"
  BY <1>2, <1>3
<1>5. c \in Cell /\ heap[c].kind = "free" /\ c # Nil
  BY CellAssumption DEF FreeCells, Free
<1>6. PICK h : h = messages
  OBVIOUS
<1>7. PICK q \in Rank : q = [r EXCEPT ![c] = IF h = Nil THEN 0 ELSE r[h] + 1]
  <2>1. h = Nil \/ h \in Cell
    BY <1>2, <1>6 DEF HeapTypes, Ref
  <2>2. (IF h = Nil THEN 0 ELSE r[h] + 1) \in Nat
    BY <1>2, <2>1
  <2>. QED BY <1>2, <2>2 DEF Rank
<1>8. /\ \A d \in Cell : d # c => heap'[d] = heap[d] /\ q[d] = r[d]
      /\ q[c] = IF h = Nil THEN 0 ELSE r[h] + 1
  BY <1>2, <1>5, <1>7 DEF HeapTypes, AddsUser
<1>9. /\ heap'[c].kind = "node" /\ heap'[c].name = req[t].user /\ heap'[c].list_files = Nil
      /\ heap'[c].next = h /\ messages' = c /\ UNCHANGED reply
  BY <1>2, <1>5, <1>6 DEF HeapTypes, AddsUser
<1>10. /\ Listed = Kind("node") /\ \A n : FirstFile(n) = heap[n].list_files
       /\ Listed' = Kind("node")' /\ \A n : FirstFile(n)' = heap'[n].list_files
  <2>1. Listed' = Kind("node")' /\ \A n : FirstFile(n)' = heap'[n].list_files
    BY <1>4 DEF Listed, Doomed, FirstFile
  <2>. QED BY <1>2, <2>1, NothingDoomed
<1>11. /\ Kind("node")' = Kind("node") \cup {c} /\ c \notin Kind("node")
       /\ Kind("file")' = Kind("file") /\ c \notin Kind("file")
  BY <1>5, <1>8, <1>9 DEF Kind
<1>12. UsersSound(q)'
  <2>1. IsList(heap', Kind("node") \cup {c}, q, c)
    <3>1. IsList(heap, Kind("node"), r, h)
      BY <1>2, <1>6, <1>10 DEF UsersSound
    <3>2. \A d \in Kind("node") : Link(heap', d) = Link(heap, d) /\ q[d] = r[d]
      BY <1>8, <1>11 DEF Link, Kind
    <3>3. Link(heap', c) = h
      BY <1>9 DEF Link
    <3>4. h # Nil => q[c] > r[h]
      <4>1. h # Nil => h \in Cell
        BY <1>2, <1>6 DEF HeapTypes, Ref
      <4>. QED BY <1>2, <1>8, <4>1
    <3>5. q \in [Cell -> Nat] /\ c \in Cell \ Kind("node")
      BY <1>5, <1>11 DEF Rank
    <3>. QED BY <1>2, <3>1, <3>2, <3>3, <3>4, <3>5, ListPush
  <2>2. \A n \in Kind("node") : heap[n].name # req[t].user /\ heap'[n] = heap[n]
    BY <1>2, <1>8, <1>10, <1>11 DEF Walking, Ahead, Kind
  <2>3. Distinct(Kind("node") \cup {c})'
    <3>1. Distinct(Kind("node"))
      BY <1>2, <1>10 DEF UsersSound
    <3>. QED BY <1>9, <1>11, <2>2, <3>1 DEF Distinct
  <2>4. Distinct(Listed)'
    BY <1>10, <1>11, <2>2, <2>3, <1>9, <1>2 DEF Distinct, UsersSound
  <2>. QED BY <1>9, <1>10, <1>11, <2>1, <2>4 DEF UsersSound
<1>13. FilesSound(o, q)'
  <2>1. \A n : Owned(o, n)' = Owned(o, n)
    BY <1>8, <1>11 DEF Owned
  <2>2. Owned(o, c) = {}
    BY <1>2, <1>11 DEF FilesSound, Owned
  <2>3. ASSUME NEW n \in Kind("node")
        PROVE  IsList(heap, Owned(o, n), q, FirstFile(n))' /\ Distinct(Owned(o, n))'
    <3>1. /\ IsList(heap, Owned(o, n), r, heap[n].list_files) /\ Distinct(Owned(o, n))
          /\ heap'[n] = heap[n]
      BY <1>2, <1>8, <1>10, <1>11 DEF FilesSound, Kind
    <3>2. \A f \in Owned(o, n) : heap'[f] = heap[f] /\ Link(heap', f) = Link(heap, f) /\ q[f] = r[f]
      BY <1>8, <1>11 DEF Link, Owned, Kind
    <3>3. IsList(heap', Owned(o, n), q, heap[n].list_files)
      BY <3>1, <3>2, ListFrame
    <3>4. Distinct(Owned(o, n))'
      BY <2>1, <3>1, <3>2 DEF Distinct
    <3>. QED BY <1>10, <2>1, <3>1, <3>3, <3>4
  <2>4. IsList(heap, Owned(o, c), q, FirstFile(c))' /\ Distinct(Owned(o, c))'
    BY <1>9, <1>10, <2>1, <2>2 DEF IsList, Distinct
  <2>5. \A f \in Kind("file")' : o[f] \in Kind("node")'
    BY <1>2, <1>11 DEF FilesSound
  <2>. QED BY <1>11, <2>3, <2>4, <2>5 DEF FilesSound
<1>14. \A s : SameListing(o, r, o, q, s)
  <2>1. \A d \in Cell : heap[d].kind \in {"raw", "entry"} \/ heap'[d].kind \in {"raw", "entry"} =>
                          heap'[d] = heap[d] /\ q[d] = r[d]
    BY <1>5, <1>8, <1>9
  <2>. QED BY <2>1, SameEntries
<1>15. Shape(o, q)'
  BY <1>1, <1>3, <1>9, <1>12, <1>13, <1>14, LeavingStep
<1>. QED BY <1>15

\* A new file, in front of the user's others.
AddsFile(t, c) ==
  heap' = [heap EXCEPT ![c] = [kind |-> "file", name |-> req[t].file, desc |-> req[t].desc,
                               next |-> heap[current].list_files],
                       ![current].list_files = c]

\* The user's files are sound with it.
LEMMA RegisterFileShape ==
  ASSUME NEW o, NEW r, NEW t \in Thread, Inv(o, r), Operation(t), At(t, "file"), scan = Nil,
         Leave(t, 0), UNCHANGED <<messages, reply>>, NEW c \in FreeCells, AddsFile(t, c)
  PROVE  \E p \in Owner : \E q \in Rank : \E x :
           /\ Shape(p, q)'
           /\ x = current /\ FilesOnly(o, r, p, q, x) /\ heap'[x].addr = heap[x].addr
           /\ Owned(p, x)' = Owned(o, x) \cup {c} /\ \A f \in Owned(o, x) : heap'[f] = heap[f]
           /\ heap'[c].name = req[t].file /\ heap'[c].desc = req[t].desc
           /\ \A f \in Owned(o, x) : heap[f].name # req[t].file
<1>1. /\ pc[t] = "file" /\ pc[t] \in Section \ {"fill"} /\ alive
  BY DEF At, Section
<1>2. /\ HeapTypes /\ UsersSound(r) /\ FilesSound(o, r) /\ r \in [Cell -> Nat] /\ o \in Owner
      /\ \A s \in Thread : pc[s] # "free"
  BY <1>1, AtFiles DEF Inv, Shape, Rank
<1>3. /\ ~ Crash /\ mutex' = Nil /\ pc'[t] = "return" /\ ans'[t] = [code |-> 0, out |-> {}]
      /\ UNCHANGED <<left, sent>> /\ \A s \in Thread : s # t => pc'[s] = pc[s]
  BY <1>1, LeaveFacts
<1>4. PICK x, h : x = current /\ h = heap[current].list_files
  OBVIOUS
<1>5. /\ x \in Kind("node") /\ x \in Cell /\ heap[x].kind = "node" /\ heap[x] \in Node
      /\ IsList(heap, Owned(o, x), r, h) /\ Distinct(Owned(o, x))
      /\ h = Nil \/ h \in Cell
      /\ \A f \in Owned(o, x) : heap[f].name # req[t].file
  <2>1. /\ current \in Listed /\ heap[current] \in Node /\ current \in Cell /\ heap[current].kind = "node"
        /\ IsList(heap, Owned(o, current), r, heap[current].list_files) /\ Distinct(Owned(o, current))
        /\ AtFile(o, r, t)
    BY <1>1, AtFiles
  <2>2. \A f \in Owned(o, current) : heap[f].name # req[t].file
    BY <2>1 DEF AtFile, Ahead
  <2>3. h = Nil \/ h \in Cell
    BY <1>4, <2>1 DEF IsList
  <2>. QED BY <1>4, <2>1, <2>2, <2>3, Members
<1>6. c \in Cell /\ heap[c].kind = "free" /\ c # Nil /\ c # x
  BY <1>5, CellAssumption DEF FreeCells, Free
<1>7. PICK p \in Owner : p = [o EXCEPT ![c] = x]
  BY <1>2, <1>5, <1>6 DEF Owner
<1>8. PICK q \in Rank : q = [r EXCEPT ![c] = IF h = Nil THEN 0 ELSE r[h] + 1]
  <2>1. (IF h = Nil THEN 0 ELSE r[h] + 1) \in Nat
    BY <1>2, <1>5
  <2>. QED BY <1>2, <2>1 DEF Rank
<1>9. /\ \A d \in Cell : d # c => p[d] = o[d] /\ q[d] = r[d]
      /\ p[c] = x /\ q[c] = IF h = Nil THEN 0 ELSE r[h] + 1
  BY <1>2, <1>6, <1>7, <1>8 DEF Owner
<1>10. /\ \A d \in Cell : d # c /\ d # x => heap'[d] = heap[d]
       /\ heap'[c] = [kind |-> "file", name |-> req[t].file, desc |-> req[t].desc, next |-> h]
       /\ heap'[x] = [heap[x] EXCEPT !.list_files = c]
  BY <1>2, <1>4, <1>5, <1>6 DEF HeapTypes, AddsFile
<1>11. /\ heap'[c].kind = "file" /\ heap'[c].name = req[t].file /\ heap'[c].next = h
       /\ heap'[c].desc = req[t].desc
       /\ heap'[x].kind = "node" /\ heap'[x].name = heap[x].name /\ heap'[x].next = heap[x].next
       /\ heap'[x].list_files = c /\ heap'[x].addr = heap[x].addr
  BY <1>5, <1>10 DEF Node
<1>12. FilesOnly(o, r, p, q, x)
  BY <1>5, <1>6, <1>9, <1>10, <1>11 DEF FilesOnly
<1>13. /\ Owned(p, x)' = Owned(o, x) \cup {c} /\ c \notin Owned(o, x)
       /\ \A f \in Owned(o, x) : heap'[f] = heap[f] /\ q[f] = r[f]
  <2>1. \A f \in Owned(o, x) : f \in Cell /\ heap[f].kind = "file" /\ o[f] = x /\ f # c /\ f # x
    BY <1>5, <1>6 DEF Owned, Kind
  <2>2. \A f \in Owned(o, x) : heap'[f] = heap[f] /\ q[f] = r[f] /\ p[f] = x
    BY <1>9, <1>10, <2>1
  <2>3. \A d \in Cell : d # c /\ heap'[d].kind = "file" /\ p[d] = x => d \in Owned(o, x)
    BY <1>9, <1>10, <1>11 DEF Owned, Kind
  <2>4. Owned(p, x)' = {d \in Cell : heap'[d].kind = "file" /\ p[d] = x}
    BY DEF Owned, Kind
  <2>. QED BY <1>6, <1>9, <1>11, <2>1, <2>2, <2>3, <2>4
<1>14. IsList(heap, Owned(p, x), q, heap[x].list_files)'
  <2>1. \A f \in Owned(o, x) : Link(heap', f) = Link(heap, f) /\ q[f] = r[f]
    BY <1>13 DEF Link
  <2>2. Link(heap', c) = h /\ (h # Nil => q[c] > r[h])
    BY <1>2, <1>5, <1>9, <1>11 DEF Link
  <2>3. q \in [Cell -> Nat] /\ c \in Cell \ Owned(o, x)
    BY <1>6, <1>13 DEF Rank
  <2>4. IsList(heap', Owned(o, x) \cup {c}, q, c)
    BY <1>2, <1>5, <2>1, <2>2, <2>3, ListPush
  <2>. QED BY <1>11, <1>13, <2>4
<1>15. Distinct(Owned(p, x))'
  BY <1>5, <1>11, <1>13 DEF Distinct
<1>16. UsersSound(q)' /\ FilesSound(p, q)'
  <2>1. \A s \in Thread : pc'[s] # "free"
    BY <1>2, <1>3
  <2>. QED BY <1>2, <1>5, <1>12, <1>14, <1>15, <2>1, FilesStep
<1>17. \A s : SameListing(o, r, p, q, s)
  <2>1. \A d \in Cell : heap[d].kind \in {"raw", "entry"} \/ heap'[d].kind \in {"raw", "entry"} =>
                          heap'[d] = heap[d] /\ p[d] = o[d] /\ q[d] = r[d]
    BY <1>5, <1>6, <1>9, <1>10, <1>11
  <2>. QED BY <2>1, SameEntries
<1>18. Shape(p, q)'
  BY <1>1, <1>3, <1>16, <1>17, LeavingStep
<1>. QED BY <1>4, <1>5, <1>11, <1>12, <1>13, <1>18

\* A file is taken out.
DropsFile ==
  heap' = IF before = Nil
            THEN [heap EXCEPT ![current].list_files = heap[scan].next, ![scan] = Free]
            ELSE [heap EXCEPT ![before].next = heap[scan].next, ![scan] = Free]

\* And without it.
LEMMA UnregisterFileShape ==
  ASSUME NEW o, NEW r, NEW t \in Thread, Inv(o, r), Operation(t), At(t, "file"), scan # Nil,
         Leave(t, 0), UNCHANGED <<messages, reply>>, DropsFile
  PROVE  /\ Shape(o, r)'
         /\ \E x, f : /\ x = current /\ FilesOnly(o, r, o, r, x) /\ heap'[x].addr = heap[x].addr
                      /\ f = scan /\ f \in Owned(o, x) /\ Owned(o, x)' = Owned(o, x) \ {f}
                      /\ \A d \in Owned(o, x) \ {f} :
                           heap'[d].name = heap[d].name /\ heap'[d].desc = heap[d].desc
<1>1. /\ pc[t] = "file" /\ pc[t] \in Section \ {"fill"} /\ alive
  BY DEF At, Section
<1>2. /\ HeapTypes /\ UsersSound(r) /\ FilesSound(o, r) /\ r \in [Cell -> Nat]
      /\ \A s \in Thread : pc[s] # "free"
  BY <1>1, AtFiles DEF Inv, Shape, Rank
<1>3. /\ ~ Crash /\ mutex' = Nil /\ pc'[t] = "return" /\ ans'[t] = [code |-> 0, out |-> {}]
      /\ UNCHANGED <<left, sent>> /\ \A s \in Thread : s # t => pc'[s] = pc[s]
  BY <1>1, LeaveFacts
<1>4. PICK x, h, f, b, S : /\ x = current /\ h = heap[current].list_files /\ f = scan /\ b = before
                           /\ S = Owned(o, current)
  OBVIOUS
<1>5. /\ x \in Kind("node") /\ x \in Cell /\ heap[x].kind = "node" /\ heap[x] \in Node
      /\ IsList(heap, S, r, h) /\ Distinct(S) /\ S = Owned(o, x)
      /\ f \in S /\ IF b = Nil THEN f = h ELSE b \in S /\ heap[b].next = f
      /\ heap[x].list_files = h
  <2>1. /\ current \in Listed /\ heap[current] \in Node /\ current \in Cell /\ heap[current].kind = "node"
        /\ IsList(heap, Owned(o, current), r, heap[current].list_files) /\ Distinct(Owned(o, current))
        /\ AtFile(o, r, t)
    BY <1>1, AtFiles
  <2>2. f \in S /\ IF b = Nil THEN f = h ELSE b \in S /\ heap[b].next = f
    BY <1>4, <2>1 DEF AtFile
  <2>. QED BY <1>4, <2>1, <2>2, Members
<1>6. \A d \in S : /\ d \in Cell /\ heap[d].kind = "file" /\ heap[d] \in FileNode /\ Link(heap, d) = heap[d].next
                   /\ d # x /\ o[d] = x
  BY <1>2, <1>5, Members, Pointers
<1>7. b # Nil => b # f
  BY <1>2, <1>5, <1>6, CellAssumption, ListPredecessor
<1>8. /\ heap'[f] = Free
      /\ \A d \in Cell : d # f /\ d # x /\ d # b => heap'[d] = heap[d]
      /\ b = Nil => heap'[x] = [heap[x] EXCEPT !.list_files = heap[f].next]
      /\ b # Nil => heap'[x] = heap[x] /\ heap'[b] = [heap[b] EXCEPT !.next = heap[f].next]
  <2>1. CASE b = Nil
    BY <1>2, <1>4, <1>5, <1>6, <2>1, CellAssumption DEF HeapTypes, DropsFile
  <2>2. CASE b # Nil
    BY <1>2, <1>4, <1>5, <1>6, <1>7, <2>2 DEF HeapTypes, DropsFile
  <2>. QED BY <2>1, <2>2
<1>9. /\ heap'[f].kind = "free"
      /\ heap'[x].kind = "node" /\ heap'[x].name = heap[x].name /\ heap'[x].next = heap[x].next
      /\ heap'[x].list_files = (IF b = Nil THEN heap[f].next ELSE h) /\ heap'[x].addr = heap[x].addr
      /\ b # Nil => /\ heap'[b].kind = "file" /\ heap'[b].name = heap[b].name
                    /\ heap'[b].next = heap[f].next /\ heap'[b].desc = heap[b].desc
  <2>1. heap'[f].kind = "free"
    BY <1>8 DEF Free
  <2>2. /\ heap'[x].kind = "node" /\ heap'[x].name = heap[x].name /\ heap'[x].next = heap[x].next
        /\ heap'[x].list_files = (IF b = Nil THEN heap[f].next ELSE h) /\ heap'[x].addr = heap[x].addr
    BY <1>5, <1>8 DEF Node
  <2>3. b # Nil => /\ heap'[b].kind = "file" /\ heap'[b].name = heap[b].name
                   /\ heap'[b].next = heap[f].next /\ heap'[b].desc = heap[b].desc
    BY <1>5, <1>6, <1>8 DEF FileNode
  <2>. QED BY <2>1, <2>2, <2>3
<1>10. /\ \A d \in Cell : d # f => heap'[d].kind = heap[d].kind /\ heap'[d].name = heap[d].name
       /\ \A d \in Cell : d \notin S /\ d # x => heap'[d] = heap[d]
  <2>1. \A d \in Cell : d # Nil
    BY CellAssumption
  <2>2. \A d \in Cell : d = f \/ d = x \/ (b # Nil /\ d = b) \/ heap'[d] = heap[d]
    BY <1>8, <2>1
  <2>3. heap'[x].kind = heap[x].kind /\ heap'[x].name = heap[x].name
    BY <1>5, <1>9
  <2>4. b # Nil => b \in S /\ heap'[b].kind = heap[b].kind /\ heap'[b].name = heap[b].name
    BY <1>5, <1>6, <1>9
  <2>. QED BY <1>5, <2>2, <2>3, <2>4
<1>11. FilesOnly(o, r, o, r, x)
  <2>1. \A d \in Cell : heap[d].kind = "node" \/ heap'[d].kind = "node" =>
          /\ heap'[d].kind = heap[d].kind /\ heap'[d].name = heap[d].name /\ heap'[d].next = heap[d].next
          /\ d # x => heap'[d] = heap[d]
    BY <1>5, <1>6, <1>9, <1>10
  <2>2. \A d \in Cell : (heap[d].kind = "file" \/ heap'[d].kind = "file") /\ o[d] # x => heap'[d] = heap[d]
    BY <1>5, <1>6, <1>9, <1>10
  <2>. QED BY <2>1, <2>2 DEF FilesOnly
<1>12. Owned(o, x)' = S \ {f} /\ \A d \in S \ {f} : heap'[d].name = heap[d].name
                                                  /\ heap'[d].desc = heap[d].desc
  <2>1. \A d \in S \ {f} : heap'[d].kind = "file" /\ heap'[d].name = heap[d].name
    BY <1>6, <1>10
  <2>2. \A d \in Cell : d \notin S => ~ (heap'[d].kind = "file" /\ o[d] = x)
    <3>1. \A d \in Cell : d \in S <=> heap[d].kind = "file" /\ o[d] = x
      BY <1>5 DEF Owned, Kind
    <3>. QED BY <1>5, <1>9, <1>10, <3>1
  <2>3. Owned(o, x)' = {d \in Cell : heap'[d].kind = "file" /\ o[d] = x}
    BY DEF Owned, Kind
  <2>4. ASSUME NEW d \in S \ {f} PROVE heap'[d].desc = heap[d].desc
    <3>1. d \in Cell /\ d # x /\ d # Nil /\ d # f
      BY <1>6, CellAssumption
    <3>2. d # b => heap'[d] = heap[d]
      BY <1>8, <3>1
    <3>3. d = b => heap'[d].desc = heap[d].desc
      BY <1>9, <3>1
    <3>. QED BY <3>2, <3>3
  <2>. QED BY <1>6, <1>9, <2>1, <2>2, <2>3, <2>4
<1>13. IsList(heap, Owned(o, x), r, heap[x].list_files)'
  <2>1. CASE b = Nil
    <3>1. \A d \in S \ {f} : Link(heap', d) = Link(heap, d)
      BY <1>6, <1>8, <2>1, CellAssumption DEF Link
    <3>2. IsList(heap', S \ {f}, r, Link(heap, f))
      BY <1>2, <1>5, <2>1, <3>1, ListDropHead
    <3>. QED BY <1>5, <1>6, <1>9, <1>12, <2>1, <3>2
  <2>2. CASE b # Nil
    <3>1. \A d \in S \ {f, b} : Link(heap', d) = Link(heap, d)
      BY <1>6, <1>8, <2>2 DEF Link
    <3>2. Link(heap, b) = f /\ Link(heap', b) = Link(heap, f)
      BY <1>5, <1>6, <1>9, <2>2 DEF Link
    <3>3. IsList(heap', S \ {f}, r, h)
      BY <1>2, <1>5, <2>2, <3>1, <3>2, ListDrop
    <3>. QED BY <1>9, <1>12, <2>2, <3>3
  <2>. QED BY <2>1, <2>2
<1>14. Distinct(Owned(o, x))'
  BY <1>5, <1>12 DEF Distinct
<1>15. UsersSound(r)' /\ FilesSound(o, r)'
  <2>1. \A s \in Thread : pc'[s] # "free"
    BY <1>2, <1>3
  <2>. QED BY <1>2, <1>5, <1>11, <1>13, <1>14, <2>1, FilesStep
<1>16. \A s : SameListing(o, r, o, r, s)
  <2>1. \A d \in Cell : heap[d].kind \in {"raw", "entry"} \/ heap'[d].kind \in {"raw", "entry"} =>
                          heap'[d] = heap[d]
    BY <1>5, <1>6, <1>9, <1>10
  <2>. QED BY <2>1, SameEntries
<1>17. Shape(o, r)'
  BY <1>1, <1>3, <1>15, <1>16, LeavingStep
<1>. QED BY <1>4, <1>5, <1>9, <1>11, <1>12, <1>17

\* A user is taken out of the list.
LEMMA UnlinkShape ==
  ASSUME NEW o, NEW r, NEW t \in Thread, Inv(o, r), Unlink(t)
  PROVE  Shape(o, r)'
<1>1. /\ pc[t] = "found" /\ pc[t] \in Section /\ Goto(t, "free") /\ Operation(t)
      /\ scan' = heap[current].list_files
      /\ UNCHANGED <<mutex, req, current, previous, before, tail, reply, left, sent>>
  BY DEF Unlink, Found, At, Section, Operation, listing
<1>2. /\ HeapTypes /\ UsersSound(r) /\ FilesSound(o, r) /\ Listing(o, r, t) /\ r \in [Cell -> Nat]
      /\ Walking(r, t) /\ before = Nil /\ tail = Nil
      /\ previous \in Listed \cup {Nil}
      /\ current \in Listed
      /\ \A s \in Thread : pc[s] # "free"
  BY <1>1, Walks DEF Inv, Shape, Rank
<1>3. /\ Controls' /\ Others(t) /\ OthersLists(t) /\ mutex = t /\ mutex' = t
      /\ \A s \in Thread : s # t => pc[s] \notin Section
  BY <1>1, Stays
<1>4. pc'[t] = "free"
  BY <1>1, <1>2 DEF Goto, HeapTypes
<1>5. PICK x, b, h, S : x = current /\ b = previous /\ h = messages /\ S = Listed
  OBVIOUS
<1>6. /\ S = Kind("node") /\ \A n : FirstFile(n) = heap[n].list_files
      /\ x \in S /\ b \in S \cup {Nil} /\ IF b = Nil THEN x = h ELSE heap[b].next = x
      /\ IsList(heap, S, r, h) /\ Distinct(S)
  BY <1>2, <1>5, NothingDoomed DEF Walking, UsersSound
<1>7. \A n \in S : n \in Cell /\ n # Nil /\ heap[n].kind = "node" /\ heap[n] \in Node /\ Link(heap, n) = heap[n].next
  BY <1>2, <1>5, Members, Pointers
<1>8. b # Nil => b # x
  BY <1>2, <1>6, <1>7, ListPredecessor
<1>9. /\ b = Nil => heap' = heap /\ messages' = heap[x].next
      /\ b # Nil => /\ messages' = h
                    /\ heap'[b] = [heap[b] EXCEPT !.next = heap[x].next]
                    /\ \A c \in Cell : c # b => heap'[c] = heap[c]
  <2>1. CASE b = Nil
    BY <1>5, <2>1 DEF Unlink
  <2>2. CASE b # Nil
    BY <1>2, <1>5, <1>6, <1>7, <2>2 DEF Unlink, HeapTypes
  <2>. QED BY <2>1, <2>2
<1>10. b # Nil => /\ heap'[b].kind = "node" /\ heap'[b].name = heap[b].name
                  /\ heap'[b].list_files = heap[b].list_files /\ heap'[b].next = heap[x].next
  BY <1>6, <1>7, <1>9 DEF Node
<1>11. \A c \in Cell : /\ heap'[c].kind = heap[c].kind
                       /\ c \notin S => heap'[c] = heap[c]
                       /\ c \in S => heap'[c].name = heap[c].name /\ heap'[c].list_files = heap[c].list_files
  BY <1>6, <1>7, <1>9, <1>10
<1>12. /\ Kind("node")' = S /\ Kind("file")' = Kind("file") /\ \A n : Owned(o, n)' = Owned(o, n)
  <2>1. \A k : Kind(k)' = Kind(k)
    BY <1>11 DEF Kind
  <2>. QED BY <1>6, <2>1 DEF Owned
<1>13. Doomed' = {x} /\ Listed' = S \ {x}
  <2>1. Doomed' = {x}
    BY <1>1, <1>4, <1>5, <1>6, <1>7 DEF Doomed
  <2>. QED BY <1>12, <2>1 DEF Listed
<1>14. IsList(heap', S \ {x}, r, messages')
  <2>1. CASE b = Nil
    <3>1. \A d \in S \ {x} : Link(heap', d) = Link(heap, d)
      BY <1>9, <2>1
    <3>2. IsList(heap', S \ {x}, r, Link(heap, x))
      BY <1>2, <1>6, <2>1, <3>1, ListDropHead
    <3>. QED BY <1>6, <1>7, <1>9, <2>1, <3>2
  <2>2. CASE b # Nil
    <3>1. \A d \in S \ {x, b} : Link(heap', d) = Link(heap, d)
      BY <1>7, <1>9, <2>2 DEF Link
    <3>2. Link(heap, b) = x /\ Link(heap', b) = Link(heap, x) /\ b \in S
      BY <1>6, <1>7, <1>10, <2>2 DEF Link
    <3>3. IsList(heap', S \ {x}, r, h)
      BY <1>2, <1>6, <3>1, <3>2, ListDrop
    <3>. QED BY <1>9, <2>2, <3>3
  <2>. QED BY <2>1, <2>2
<1>15. UsersSound(r)'
  <2>1. Distinct(S \ {x})'
    BY <1>6, <1>7, <1>11 DEF Distinct
  <2>2. Distinct(Listed)'
    BY <1>13, <2>1 DEF Distinct
  <2>. QED BY <1>13, <1>14, <2>2 DEF UsersSound
<1>16. FilesSound(o, r)'
  <2>1. ASSUME NEW n \in S PROVE FirstFile(n)' = heap[n].list_files
    <3>1. CASE n = x
      BY <1>1, <1>5, <1>13, <3>1 DEF FirstFile
    <3>2. CASE n # x
      BY <1>7, <1>11, <1>13, <3>2 DEF FirstFile
    <3>. QED BY <3>1, <3>2
  <2>2. \A f \in Kind("file") : heap'[f] = heap[f] /\ Link(heap', f) = Link(heap, f)
    BY <1>7, <1>11 DEF Kind, Link
  <2>3. ASSUME NEW n \in S
        PROVE  IsList(heap, Owned(o, n), r, FirstFile(n))' /\ Distinct(Owned(o, n))'
    <3>1. IsList(heap, Owned(o, n), r, heap[n].list_files) /\ Distinct(Owned(o, n))
      BY <1>2, <1>6 DEF FilesSound
    <3>2. \A f \in Owned(o, n) : heap'[f] = heap[f] /\ Link(heap', f) = Link(heap, f)
      BY <2>2 DEF Owned
    <3>3. IsList(heap', Owned(o, n), r, heap[n].list_files)
      BY <3>1, <3>2, ListFrame
    <3>4. Distinct(Owned(o, n))'
      BY <1>12, <3>1, <3>2 DEF Distinct
    <3>. QED BY <1>12, <2>1, <3>3, <3>4
  <2>4. \A f \in Kind("file")' : o[f] \in Kind("node")'
    BY <1>2, <1>6, <1>12 DEF FilesSound
  <2>. QED BY <1>12, <2>3, <2>4 DEF FilesSound
<1>17. Cursors(o, r, t)'
  <2>1. previous' \in Listed' \cup {Nil}
    BY <1>1, <1>5, <1>6, <1>8, <1>13
  <2>2. current' \in Kind("node")'
    BY <1>1, <1>5, <1>6, <1>12
  <2>. QED BY <1>1, <1>2, <1>4, <2>1, <2>2 DEF Cursors, Standing
<1>18. \A s : SameListing(o, r, o, r, s)
  <2>1. \A c \in Cell : heap[c].kind \in {"raw", "entry"} \/ heap'[c].kind \in {"raw", "entry"} => heap'[c] = heap[c]
    BY <1>7, <1>11
  <2>. QED BY <2>1, SameEntries
<1>19. Listing(o, r, t)'
  BY <1>1, <1>2, <1>4, <1>18, ListingEarly
<1>. QED BY <1>1, <1>3, <1>15, <1>16, <1>17, <1>18, <1>19, InsideStep

\* A file of the user that was taken out is freed.
LEMMA FreeFileShape ==
  ASSUME NEW o, NEW r, NEW t \in Thread, Inv(o, r), FreeFile(t)
  PROVE  Shape(o, r)'
<1>1. /\ pc[t] = "free" /\ pc[t] \in Section /\ Operation(t) /\ scan # Nil /\ scan' = heap[scan].next
      /\ UNCHANGED <<messages, mutex, pc, req, ans, current, previous, before, tail, reply, left, sent>>
  BY DEF FreeFile, At, Section, Operation, listing
<1>2. /\ HeapTypes /\ UsersSound(r) /\ FilesSound(o, r) /\ Listing(o, r, t) /\ r \in [Cell -> Nat]
      /\ current \in Kind("node") /\ Doomed = {current} /\ FirstFile(current) = scan
      /\ IsList(heap, Owned(o, current), r, scan)
      /\ scan \in Owned(o, current)
      /\ before = Nil /\ tail = Nil /\ previous \in Listed \cup {Nil}
  BY <1>1, Frees DEF Inv, Shape, Rank
<1>3. /\ Controls' /\ Others(t) /\ OthersLists(t) /\ mutex = t /\ mutex' = t
      /\ \A s \in Thread : s # t => pc[s] \notin Section
  BY <1>1, Stays
<1>4. PICK x, f, S : x = current /\ f = scan /\ S = Owned(o, x)
  OBVIOUS
<1>5. \A d \in S : d \in Cell /\ d # Nil /\ heap[d].kind = "file" /\ Link(heap, d) = heap[d].next /\ o[d] = x
  BY <1>2, <1>4, Members, Pointers
<1>6. f \in S /\ \A n \in Kind("node") : n # f /\ n \in Cell
  BY <1>2, <1>4, <1>5 DEF Kind
<1>7. heap'[f].kind = "free" /\ \A c \in Cell : c # f => heap'[c] = heap[c]
  BY <1>2, <1>4, <1>5, <1>6 DEF FreeFile, HeapTypes, Free
<1>8. /\ Kind("node")' = Kind("node") /\ Kind("file")' = Kind("file") \ {f}
      /\ Doomed' = {x} /\ Listed' = Listed
  <2>1. Kind("node")' = Kind("node") /\ Kind("file")' = Kind("file") \ {f}
    BY <1>5, <1>6, <1>7 DEF Kind
  <2>2. Doomed' = Doomed
    BY <1>1 DEF Doomed
  <2>. QED BY <1>2, <1>4, <2>1, <2>2 DEF Listed
<1>9. /\ Owned(o, x)' = S \ {f}
      /\ \A n : n # x => Owned(o, n)' = Owned(o, n)
  BY <1>4, <1>5, <1>6, <1>8 DEF Owned
<1>10. UsersSound(r)'
  <2>1. \A n \in Listed : heap'[n] = heap[n] /\ Link(heap', n) = Link(heap, n)
    BY <1>6, <1>7 DEF Listed, Link
  <2>2. IsList(heap', Listed, r, messages)
    BY <1>2, <2>1, ListFrame DEF UsersSound
  <2>3. Distinct(Listed)'
    BY <1>2, <1>8, <2>1 DEF UsersSound, Distinct
  <2>. QED BY <1>1, <1>8, <2>2, <2>3 DEF UsersSound
<1>11. FilesSound(o, r)'
  <2>1. IsList(heap, Owned(o, x), r, FirstFile(x))' /\ Distinct(Owned(o, x))'
    <3>1. \A d \in S \ {f} : heap'[d] = heap[d] /\ Link(heap', d) = Link(heap, d)
      BY <1>5, <1>7 DEF Link
    <3>2. IsList(heap', S \ {f}, r, Link(heap, f))
      BY <1>2, <1>4, <1>6, <3>1, ListDropHead
    <3>3. FirstFile(x)' = Link(heap, f)
      BY <1>1, <1>4, <1>5, <1>6, <1>8 DEF FirstFile
    <3>4. Distinct(S)
      BY <1>2, <1>4 DEF FilesSound
    <3>5. Distinct(Owned(o, x))'
      BY <1>9, <3>1, <3>4 DEF Distinct
    <3>. QED BY <1>9, <3>2, <3>3, <3>5
  <2>2. ASSUME NEW n \in Kind("node"), n # x
        PROVE  IsList(heap, Owned(o, n), r, FirstFile(n))' /\ Distinct(Owned(o, n))'
    <3>1. FirstFile(n) = heap[n].list_files /\ FirstFile(n)' = heap[n].list_files
      BY <1>2, <1>4, <1>6, <1>7, <1>8, <2>2 DEF FirstFile
    <3>2. IsList(heap, Owned(o, n), r, heap[n].list_files) /\ Distinct(Owned(o, n))
      BY <1>2, <3>1 DEF FilesSound
    <3>3. \A d \in Owned(o, n) : heap'[d] = heap[d] /\ Link(heap', d) = Link(heap, d)
      <4>1. \A d \in Owned(o, n) : d \in Cell /\ d # f
        BY <1>5, <1>6, <2>2 DEF Owned, Kind
      <4>. QED BY <1>7, <4>1 DEF Link
    <3>4. IsList(heap', Owned(o, n), r, heap[n].list_files)
      BY <3>2, <3>3, ListFrame
    <3>5. Distinct(Owned(o, n))'
      BY <1>9, <2>2, <3>2, <3>3 DEF Distinct
    <3>. QED BY <1>9, <2>2, <3>1, <3>4, <3>5
  <2>3. \A d \in Kind("file")' : o[d] \in Kind("node")'
    BY <1>2, <1>8 DEF FilesSound
  <2>. QED BY <1>8, <2>1, <2>2, <2>3 DEF FilesSound
<1>12. Cursors(o, r, t)'
  BY <1>1, <1>2, <1>8 DEF Cursors, Standing
<1>13. \A s : SameListing(o, r, o, r, s)
  <2>1. \A c \in Cell : heap[c].kind \in {"raw", "entry"} \/ heap'[c].kind \in {"raw", "entry"} => heap'[c] = heap[c]
    BY <1>5, <1>6, <1>7
  <2>. QED BY <2>1, SameEntries
<1>14. Listing(o, r, t)'
  BY <1>1, <1>2, <1>13, ListingEarly
<1>. QED BY <1>1, <1>3, <1>10, <1>11, <1>12, <1>13, <1>14, InsideStep

\* The user is freed.
LEMMA FreeNodeShape ==
  ASSUME NEW o, NEW r, NEW t \in Thread, Inv(o, r), FreeNode(t)
  PROVE  Shape(o, r)'
<1>1. /\ pc[t] = "free" /\ alive /\ pc[t] \in Section \ {"fill"} /\ Operation(t) /\ scan = Nil
      /\ Unlock(t, "return") /\ UNCHANGED <<messages, ans, reply, left, sent, alive>>
  BY DEF FreeNode, At, Section, Operation, Unlock
<1>2. /\ HeapTypes /\ UsersSound(r) /\ FilesSound(o, r) /\ r \in [Cell -> Nat] /\ Control(t)
      /\ current \in Kind("node") /\ current \in Cell /\ Doomed = {current} /\ Owned(o, current) = {}
      /\ heap[current].kind = "node"
  BY <1>1, Frees DEF Inv, Shape, Rank, Controls
<1>3. /\ ~ Crash /\ mutex' = Nil /\ pc'[t] = "return" /\ ans'[t].out = {}
      /\ \A s \in Thread : s # t => pc'[s] = pc[s]
  <2>1. ~ Crash
    BY <1>1 DEF Crash
  <2>2. pc'[t] = "return" /\ \A s \in Thread : s # t => pc'[s] = pc[s]
    BY <1>1, <1>2 DEF Unlock, Goto, HeapTypes
  <2>. QED BY <1>1, <1>2, <2>1, <2>2 DEF Unlock, Control
<1>4. \A s \in Thread : pc'[s] # "free"
  <2>1. \A s \in Thread : s # t => pc[s] \notin Section
    BY <1>1, Section1
  <2>. QED BY <1>3, <2>1 DEF Section
<1>5. PICK x : x = current
  OBVIOUS
<1>6. heap'[x].kind = "free" /\ \A c \in Cell : c # x => heap'[c] = heap[c]
  BY <1>2, <1>5 DEF FreeNode, HeapTypes, Free
<1>7. /\ Kind("node")' = Kind("node") \ {x} /\ Kind("file")' = Kind("file") /\ x \notin Kind("file")
      /\ Listed' = Kind("node") \ {x} /\ Listed = Kind("node") \ {x}
      /\ \A n : FirstFile(n)' = heap'[n].list_files
  <2>1. Kind("node")' = Kind("node") \ {x} /\ Kind("file")' = Kind("file") /\ x \notin Kind("file")
    BY <1>2, <1>5, <1>6 DEF Kind
  <2>2. Doomed' = {}
    BY <1>4 DEF Doomed
  <2>. QED BY <1>2, <1>5, <2>1, <2>2 DEF Listed, FirstFile
<1>8. \A n : Owned(o, n)' = Owned(o, n)
  BY <1>7 DEF Owned
<1>9. UsersSound(r)'
  <2>1. \A n \in Listed : heap'[n] = heap[n] /\ Link(heap', n) = Link(heap, n)
    BY <1>6, <1>7 DEF Link, Kind
  <2>2. IsList(heap', Listed, r, messages)
    BY <1>2, <2>1, ListFrame DEF UsersSound
  <2>3. Distinct(Listed)'
    BY <1>2, <1>7, <2>1 DEF UsersSound, Distinct
  <2>. QED BY <1>1, <1>7, <2>2, <2>3 DEF UsersSound
<1>10. FilesSound(o, r)'
  <2>1. ASSUME NEW n \in Kind("node"), n # x
        PROVE  IsList(heap, Owned(o, n), r, FirstFile(n))' /\ Distinct(Owned(o, n))'
    <3>1. FirstFile(n) = heap[n].list_files /\ FirstFile(n)' = heap[n].list_files
      BY <1>2, <1>5, <1>6, <1>7, <2>1 DEF FirstFile, Kind
    <3>2. IsList(heap, Owned(o, n), r, heap[n].list_files) /\ Distinct(Owned(o, n))
      BY <1>2, <3>1 DEF FilesSound
    <3>3. \A d \in Owned(o, n) : heap'[d] = heap[d] /\ Link(heap', d) = Link(heap, d)
      BY <1>6, <1>7 DEF Link, Owned, Kind
    <3>4. IsList(heap', Owned(o, n), r, heap[n].list_files)
      BY <3>2, <3>3, ListFrame
    <3>5. Distinct(Owned(o, n))'
      BY <1>8, <3>2, <3>3 DEF Distinct
    <3>. QED BY <1>8, <3>1, <3>4, <3>5
  <2>2. \A d \in Kind("file")' : o[d] \in Kind("node")'
    <3>1. \A d \in Kind("file") : o[d] # x
      BY <1>2, <1>5 DEF Owned
    <3>. QED BY <1>2, <1>7, <3>1 DEF FilesSound
  <2>. QED BY <1>7, <2>1, <2>2 DEF FilesSound
<1>11. \A s : SameListing(o, r, o, r, s)
  <2>1. \A c \in Cell : heap[c].kind \in {"raw", "entry"} \/ heap'[c].kind \in {"raw", "entry"} => heap'[c] = heap[c]
    BY <1>2, <1>5, <1>6
  <2>. QED BY <2>1, SameEntries
<1>. QED BY <1>1, <1>3, <1>9, <1>10, <1>11, LeavingStep

\* What Fill writes: the entry at tail, and c as malloc returned it.
FillsIn(t, c) ==
  heap' = [d \in Cell |-> CASE d = tail -> [kind |-> "entry", shows |-> Copied(t), next |-> c]
                            [] d = c    -> Raw
                            [] OTHER    -> heap[d]]

\* Fill, cell by cell.
LEMMA FillCells ==
  ASSUME NEW o, NEW r, NEW t \in Thread, Inv(o, r), Fill(t)
  PROVE  \E c, e :
           /\ c \in FreeCells \cup {Nil}
           /\ tail \in Mine(o, t) \ Entries(o, t) /\ tail \in Cell /\ tail # c
           /\ scan # Nil /\ Wanted(t) /\ e = Copied(t)
           /\ heap[scan].next = Nil => c = Nil
           /\ \A d \in Cell \ {tail, c} : heap'[d] = heap[d]
           /\ heap'[tail].kind = "entry" /\ heap'[tail].shows = e /\ heap'[tail].next = c
           /\ c # Nil => heap'[c] = Raw
           /\ scan' = heap[scan].next
           /\ tail' = IF heap[scan].next = Nil THEN tail ELSE c
<1>1. PICK c \in IF heap[scan].next = Nil THEN {Nil} ELSE FreeCells \cup {Nil} :
        FillsIn(t, c) /\ tail' = IF heap[scan].next = Nil THEN tail ELSE c
  BY DEF Fill, FillsIn
<1>2. scan # Nil /\ tail # Nil /\ Wanted(t) /\ pc[t] = "fill" /\ scan' = heap[scan].next
  BY DEF Fill, At
<1>3. tail \in Mine(o, t) \ Entries(o, t)
  BY <1>2, Fills DEF Filling
<1>4. tail \in Cell /\ heap[tail].kind = "raw"
  BY <1>3 DEF Mine, Kind, Entries
<1>5. c \in FreeCells \cup {Nil} /\ (heap[scan].next = Nil => c = Nil) /\ Nil \notin Cell
  BY <1>1, CellAssumption
<1>6. tail # c /\ (c # Nil => c \in Cell)
  <2>1. \A d \in FreeCells : heap[d].kind = "free"
    BY DEF FreeCells, Free
  <2>. QED BY <1>4, <1>5, <2>1, CellAssumption DEF FreeCells
<1>7. PICK e : e = Copied(t)
  OBVIOUS
<1>8. \A d \in Cell : heap'[d] = IF d = tail THEN [kind |-> "entry", shows |-> e, next |-> c]
                                 ELSE IF d = c THEN Raw ELSE heap[d]
  <2>1. FillsIn(t, c)
    BY <1>1
  <2>2. ASSUME NEW d \in Cell
        PROVE  heap'[d] = CASE d = tail -> [kind |-> "entry", shows |-> Copied(t), next |-> c]
                            [] d = c    -> Raw
                            [] OTHER    -> heap[d]
    BY <2>1 DEF FillsIn
  <2>. QED BY <1>6, <1>7, <2>2
<1>. QED BY <1>1, <1>2, <1>3, <1>4, <1>5, <1>6, <1>7, <1>8

\* An entry more, and the next one allocated.
LEMMA FillShape ==
  ASSUME NEW o, NEW r, NEW t \in Thread, Inv(o, r), Fill(t)
  PROVE  \E p \in Owner, q \in Rank : Shape(p, q)'
<1>1. /\ pc[t] = "fill" /\ pc[t] \in Section /\ Operation(t) /\ t # Nil
      /\ UNCHANGED <<messages, mutex, pc, req, ans, current, previous, before, reply, sent>>
      /\ left' = [left EXCEPT ![t] = IF Asks(t, {"LIST_USERS"}) THEN @ + 1 ELSE @]
  BY NilAssumption DEF Fill, At, Section, Operation
<1>2. PICK c, e :
        /\ c \in FreeCells \cup {Nil}
        /\ tail \in Mine(o, t) \ Entries(o, t) /\ tail \in Cell /\ tail # c
        /\ scan # Nil /\ Wanted(t) /\ e = Copied(t)
        /\ heap[scan].next = Nil => c = Nil
        /\ \A d \in Cell \ {tail, c} : heap'[d] = heap[d]
        /\ heap'[tail].kind = "entry" /\ heap'[tail].shows = e /\ heap'[tail].next = c
        /\ c # Nil => heap'[c] = Raw
        /\ scan' = heap[scan].next
        /\ tail' = IF heap[scan].next = Nil THEN tail ELSE c
  BY FillCells
<1>3. PICK M, E, x, y, h, n : /\ M = Mine(o, t) /\ E = Entries(o, t) /\ x = scan /\ y = tail
                              /\ h = reply[t] /\ n = heap[scan].next
  OBVIOUS
<1>4. PICK p : p = [d \in Cell |-> IF d = c THEN t ELSE o[d]]
  OBVIOUS
<1>5. PICK q : q = [d \in Cell |-> IF d \in M THEN r[d] + 1 ELSE IF d = c THEN 0 ELSE r[d]]
  OBVIOUS
<1>6. /\ HeapTypes /\ o \in [Cell -> Cell \cup Thread] /\ r \in [Cell -> Nat]
      /\ AtFill(o, t) /\ before = Nil /\ Filling(o, r, t) /\ Numbered(o, r, t)
      /\ UsersSound(r) /\ FilesSound(o, r)
      /\ current \in Listed /\ current \in Cell /\ previous \in Listed \cup {Nil}
      /\ \A s \in Thread : pc[s] # "free"
      /\ req[t].op \in {"LIST_USERS", "LIST_CONTENT"}
      /\ req[t].op = "LIST_USERS" =>
           scan \in Listed \cup {Nil} /\ IsList(heap, Listed, r, messages)
      /\ req[t].op = "LIST_CONTENT" =>
           /\ scan \in Owned(o, current) \cup {Nil}
           /\ IsList(heap, Owned(o, current), r, heap[current].list_files)
  BY <1>1, Fills DEF Inv, Owner, Rank, Shape
<1>7. p \in Owner /\ q \in Rank
  BY <1>4, <1>5, <1>6 DEF Owner, Rank
<1>8. /\ Controls' /\ Others(t) /\ OthersLists(t) /\ mutex = t /\ mutex' = t
      /\ \A s \in Thread : s # t => pc[s] \notin Section
  BY <1>1, Stays
<1>9. /\ M \subseteq Cell /\ E \subseteq M /\ y \in M \ E /\ M \ E = {y}
      /\ \A d \in M : heap[d].kind \in {"raw", "entry"} /\ o[d] = t
      /\ \A d \in E : heap[d].kind = "entry"
      /\ \A d \in Cell : heap[d].kind \in {"raw", "entry"} /\ o[d] = t => d \in M
      /\ heap[y].kind = "raw" /\ r[y] = 0 /\ Link(heap, y) = Nil
  <2>1. M \ E = {y} /\ r[y] = 0
    BY <1>2, <1>3, <1>6 DEF Filling, Numbered
  <2>. QED BY <1>3, <2>1 DEF Mine, Entries, Kind, Link
<1>10. c # Nil => c \in Cell /\ c \notin M /\ heap[c].kind = "free" /\ heap'[c].kind = "raw"
  BY <1>2, <1>9 DEF FreeCells, Free, Raw
<1>11. ASSUME NEW d \in Cell, d # c
       PROVE  /\ p[d] = o[d] /\ (d \notin M => q[d] = r[d] /\ heap'[d] = heap[d])
              /\ (d \in M => q[d] = r[d] + 1)
  BY <1>2, <1>3, <1>4, <1>5, <1>9, <1>11
<1>12. /\ c # Nil => heap'[c] = Raw /\ Raw.kind = "raw" /\ p[c] = t /\ q[c] = 0
       /\ heap'[y].kind = "entry" /\ heap'[y].shows = e /\ heap'[y].next = c /\ y # c
  BY <1>2, <1>3, <1>4, <1>5, <1>9, <1>10 DEF Raw
<1>13. ASSUME NEW d \in Cell,
              heap'[d].kind \in {"node", "file"} \/ heap[d].kind \in {"node", "file"}
       PROVE  heap'[d] = heap[d] /\ q[d] = r[d] /\ p[d] = o[d] /\ d \notin M
  <2>1. d # c
    BY <1>10, <1>13, CellAssumption
  <2>2. d # y
    BY <1>9, <1>13, <1>12
  <2>3. d \notin M
    <3>1. d \in M => heap'[d] = heap[d]
      BY <1>2, <1>3, <2>1, <2>2
    <3>. QED BY <1>9, <1>13, <3>1
  <2>. QED BY <1>11, <2>1, <2>3
<1>14. Still(o, r, p, q)
  BY <1>1, <1>6, <1>13 DEF Still
<1>15. UsersSound(q)' /\ FilesSound(p, q)'
  BY <1>6, <1>14, StillSound
<1>16. /\ Kind("node")' = Kind("node") /\ Listed' = Listed
       /\ \A m : Owned(p, m)' = Owned(o, m)
       /\ \A d \in Kind("node") \cup Kind("file") : heap'[d] = heap[d] /\ q[d] = r[d]
  BY <1>14, StillSame
<1>17. ASSUME NEW s \in Thread, s # t PROVE SameListing(o, r, p, q, s)
  <2>1. ASSUME NEW d \in Cell, d # c, d # y
        PROVE  /\ heap'[d] = heap[d] /\ p[d] = o[d]
               /\ heap[d].kind \in {"raw", "entry"} /\ o[d] = s => q[d] = r[d]
    <3>1. heap'[d] = heap[d]
      BY <1>2, <1>3, <2>1
    <3>. QED BY <1>9, <1>17, <1>11, <2>1, <3>1
  <2>2. p[y] = t /\ o[y] = t
    BY <1>9, <1>11, <1>12
  <2>3. c \in Cell => p[c] = t /\ heap[c].kind = "free"
    BY <1>10, <1>12, CellAssumption
  <2>. QED BY <1>17, <2>1, <2>2, <2>3 DEF SameListing
<1>18. PICK K : K = {c} \ {Nil}
  OBVIOUS
<1>19. Mine(p, t)' = M \cup K /\ Entries(p, t)' = M
  <2>1. ASSUME NEW d \in Cell
        PROVE  /\ heap'[d].kind \in {"raw", "entry"} /\ p[d] = t <=> d \in M \cup K
               /\ heap'[d].kind = "entry" /\ p[d] = t <=> d \in M
    <3>1. CASE d = y
      BY <1>9, <1>11, <1>12, <3>1
    <3>2. CASE d = c
      BY <1>10, <1>18, <1>12, <3>2, CellAssumption
    <3>3. CASE d # y /\ d # c
      <4>1. heap'[d] = heap[d] /\ p[d] = o[d]
        BY <1>2, <1>3, <1>4, <3>3
      <4>. QED BY <1>9, <1>18, <3>3, <4>1
    <3>. QED BY <3>1, <3>2, <3>3
  <2>2. M \cup K \subseteq Cell
    BY <1>9, <1>10, <1>18
  <2>3. Mine(p, t)' = M \cup K
    BY <2>1, <2>2 DEF Mine, Kind
  <2>4. Entries(p, t)' = M
    BY <1>9, <2>1, <2>2, <2>3, Zenon DEF Entries
  <2>. QED BY <2>3, <2>4
<1>20. /\ \A d \in M : q[d] = r[d] + 1 /\ r[d] \in Nat
       /\ \A d \in K : q[d] = 0
       /\ \A d \in M \ {y} : heap'[d] = heap[d] /\ heap[d].kind = "entry"
       /\ h \in M /\ reply'[t] = h
  <2>1. h \in M
    BY <1>3, <1>6, <1>9 DEF Filling, IsList
  <2>2. ASSUME NEW d \in M PROVE q[d] = r[d] + 1 /\ r[d] \in Nat
    BY <1>6, <1>9, <1>10, <1>11, CellAssumption
  <2>3. \A d \in K : q[d] = 0
    BY <1>18, <1>12
  <2>4. ASSUME NEW d \in M \ {y} PROVE heap'[d] = heap[d] /\ heap[d].kind = "entry"
    BY <1>2, <1>3, <1>9, <1>10, CellAssumption
  <2>. QED BY <1>1, <1>3, <2>1, <2>2, <2>3, <2>4
<1>21. Numbered(p, q, t)'
  <2>1. (reply[t] \in Mine(p, t) \cup {Nil})'
    BY <1>19, <1>20
  <2>2. (\A d \in Mine(p, t) \ Entries(p, t) : q[d] = 0)'
    BY <1>19, <1>20
  <2>3. ASSUME NEW d \in M
        PROVE  /\ q[d] >= 1
               /\ heap'[d].next = Nil => q[d] = 1 /\ M \cup K = M
               /\ heap'[d].next # Nil => heap'[d].next \in M \cup K /\ q[heap'[d].next] = q[d] - 1
    <3>1. CASE d = y
      BY <1>2, <1>3, <1>9, <1>18, <1>20, <3>1
    <3>2. CASE d # y
      <4>1. heap'[d] = heap[d] /\ d \in E
        BY <1>9, <1>20, <3>2
      <4>2. heap[d].next # Nil /\ heap[d].next \in M /\ r[heap[d].next] = r[d] - 1
        BY <1>3, <1>6, <1>9, <4>1 DEF Numbered
      <4>. QED BY <1>20, <4>1, <4>2
    <3>. QED BY <3>1, <3>2
  <2>4. \A d, f \in M \cup K : q[d] = q[f] => d = f
    <3>1. \A d, f \in M : r[d] = r[f] => d = f
      BY <1>3, <1>6 DEF Numbered
    <3>2. \A d \in M : q[d] # 0
      BY <1>20
    <3>3. \A d, f \in K : d = f
      BY <1>18
    <3>. QED BY <1>20, <3>1, <3>2, <3>3
  <2>. QED BY <1>19, <2>1, <2>2, <2>3, <2>4 DEF Numbered
<1>22. IsList(heap', M \cup K, q, h)
  <2>1. IsList(heap, M, r, h)
    BY <1>3, <1>6 DEF Filling
  <2>2. /\ \A d \in M \ {y} : Link(heap', d) = Link(heap, d)
        /\ Link(heap', y) = c /\ (c # Nil => Link(heap', c) = Nil)
    BY <1>2, <1>3, <1>10, <1>20 DEF Link
  <2>3. CASE c = Nil
    <3>1. \A d \in M : Link(heap', d) = Link(heap, d)
      BY <1>9, <2>2, <2>3
    <3>2. M \cup K = M
      BY <1>18, <2>3
    <3>3. \A d, f \in M : (q[d] <= q[f] <=> r[d] <= r[f]) /\ (q[d] < q[f] <=> r[d] < r[f])
                          /\ (q[d] = q[f] <=> r[d] = r[f])
      BY <1>20
    <3>. QED BY <1>20, <2>1, <3>1, <3>2, <3>3 DEF IsList
  <2>4. CASE c # Nil
    <3>1. c \in Cell \ M /\ K = {c} /\ q[c] = 0
      BY <1>10, <1>18, <1>20, <2>4
    <3>2. q \in [Cell -> Nat] /\ y \in M
      BY <1>7, <1>9 DEF Rank
    <3>. QED BY <1>6, <1>9, <1>20, <2>1, <2>2, <2>4, <3>1, <3>2, ListAppend
  <2>. QED BY <2>3, <2>4
<1>23. \A ops : Asks(t, ops)' <=> Asks(t, ops)
  BY <1>1 DEF Asks
<1>24. ASSUME NEW S,
              IsList(heap, S, r, messages) \/ IsList(heap, S, r, heap[current].list_files), x \in S,
              S \subseteq Kind("node") \cup Kind("file")
       PROVE  /\ n \in S \cup {Nil}
              /\ Passed(q, S)' = Passed(r, S) \cup {x}
  <2>1. /\ S \subseteq Cell /\ x \in Cell /\ Link(heap, x) = n
        /\ \A d \in S : q[d] = r[d]
    BY <1>3, <1>16, <1>24 DEF Kind, Link
  <2>2. /\ Link(heap, x) \in S \cup {Nil}
        /\ \A d \in S : Ahead(r, d, x) <=> d = x \/ Ahead(r, d, Link(heap, x))
        /\ ~Ahead(r, x, Link(heap, x))
    <3>1. PICK z : IsList(heap, S, r, z)
      BY <1>24
    <3>2. r \in [Cell -> Nat] /\ x \in S
      BY <1>6, <1>24
    <3>. QED BY <3>1, <3>2, AheadNext
  <2>3. scan' = n /\ scan = x
    BY <1>2, <1>3
  <2>4. \A d \in S : Ahead(q, d, n) <=> Ahead(r, d, n)
    BY <2>1, <2>2 DEF Ahead
  <2>5. Passed(q, S)' = {d \in S : ~ Ahead(q, d, n)} /\ Passed(r, S) = {d \in S : ~ Ahead(r, d, x)}
    BY <2>3 DEF Passed
  <2>. QED BY <1>24, <2>1, <2>2, <2>4, <2>5
<1>25. Displayed(Entries(p, t))' = Displayed(E) \cup {e}
  <2>1. Displayed(Entries(p, t))' = {heap'[d].shows : d \in M}
    BY <1>19 DEF Displayed
  <2>2. heap'[y].shows = e /\ (\A d \in E : heap'[d] = heap[d]) /\ M = E \cup {y}
    BY <1>2, <1>3, <1>9, <1>20
  <2>. QED BY <2>1, <2>2 DEF Displayed
<1>26. CASE req[t].op = "LIST_USERS"
  <2>1. x \in Listed /\ IsList(heap, Listed, r, messages) /\ Listed \subseteq Kind("node")
    BY <1>2, <1>3, <1>6, <1>26 DEF Listed
  <2>2. n \in Listed \cup {Nil} /\ Asks(t, {"LIST_USERS"}) /\ ~ Asks(t, {"LIST_CONTENT"})
    BY <1>24, <1>26, <2>1 DEF Asks
  <2>3. PICK L, P : L = Listed /\ P = Passed(r, Listed)
    OBVIOUS
  <2>4. Passed(q, Listed)' = P \cup {x}
    <3>1. Passed(q, L)' = P \cup {x}
      BY <1>24, <2>1, <2>3
    <3>2. Passed(q, Listed)' = Passed(q, L)'
      BY <1>16, <2>3 DEF Passed
    <3>. QED BY <3>1, <3>2
  <2>5. Copies(Passed(q, Listed))' = Copies(P) \cup {e}
    <3>1. \A d \in P \cup {x} : heap'[d] = heap[d]
      BY <1>16, <2>1, <2>3 DEF Passed
    <3>2. e = [name |-> heap[x].name, addr |-> heap[x].addr] /\ heap[x].addr # Nil
      BY <1>2, <1>3, <2>2 DEF Copied, Wanted
    <3>. QED BY <2>4, <3>1, <3>2 DEF Copies
  <2>6. Displayed(E) = Copies(P)
    BY <1>3, <1>6, <2>2, <2>3 DEF Filling
  <2>7. Filling(p, q, t)'
    <3>1. (sent[t] = {})' /\ IsList(heap, Mine(p, t), q, reply[t])'
      BY <1>1, <1>6, <1>19, <1>20, <1>22 DEF Filling
    <3>2. left'[t] = q[h] /\ h # Nil
      <4>1. h # Nil /\ left[t] = r[h]
        BY <1>3, <1>6, <1>9, <1>20, <2>2, CellAssumption DEF Filling
      <4>. QED BY <1>1, <1>6, <1>20, <2>2, <4>1 DEF HeapTypes
    <3>3. (Mine(p, t) \ Entries(p, t) \subseteq {tail})'
      BY <1>2, <1>3, <1>18, <1>19
    <3>4. (tail # Nil => tail \in Mine(p, t) /\ (scan # Nil => tail \notin Entries(p, t)))'
      BY <1>2, <1>3, <1>9, <1>10, <1>18, <1>19
    <3>5. Displayed(Entries(p, t))' = Copies(Passed(q, Listed))'
      BY <1>25, <2>5, <2>6
    <3>. QED BY <1>20, <1>23, <2>2, <3>1, <3>2, <3>3, <3>4, <3>5 DEF Filling
  <2>8. Cursors(p, q, t)'
    <3>1. Asker(t)'
      BY <1>1, <1>6, <1>16 DEF Asker, AtFill, Listed
    <3>2. AtFill(p, t)'
      BY <1>2, <1>3, <1>16, <1>23, <2>2, <3>1 DEF AtFill
    <3>. QED BY <1>1, <1>6, <1>16, <3>2 DEF Cursors, Standing
  <2>9. Listing(p, q, t)'
    BY <1>1, <1>21, <2>7 DEF Listing
  <2>. QED BY <1>1, <1>7, <1>8, <1>15, <1>17, <2>8, <2>9, InsideStep
<1>27. CASE req[t].op = "LIST_CONTENT"
  <2>1. PICK L, P, u : u = current /\ L = Owned(o, u) /\ P = Passed(r, L)
    OBVIOUS
  <2>2. x \in L /\ IsList(heap, L, r, heap[current].list_files) /\ L \subseteq Kind("file")
    BY <1>2, <1>3, <1>6, <1>27, <2>1 DEF Owned
  <2>3. n \in L \cup {Nil} /\ ~ Asks(t, {"LIST_USERS"}) /\ Asks(t, {"LIST_CONTENT"})
    BY <1>24, <1>27, <2>2 DEF Asks
  <2>4. current' = u /\ Owned(p, current)' = L
    <3>1. current' = u
      BY <1>1, <2>1
    <3>. QED BY <1>16, <2>1, <3>1
  <2>5. Passed(q, Owned(p, current))' = P \cup {x}
    <3>1. Passed(q, L)' = P \cup {x}
      BY <1>24, <2>1, <2>2
    <3>2. Passed(q, Owned(p, current))' = Passed(q, L)'
      BY <2>4 DEF Passed
    <3>. QED BY <3>1, <3>2
  <2>6. FileCopies(Passed(q, Owned(p, current)))' = FileCopies(P) \cup {e}
    <3>1. \A d \in P \cup {x} : heap'[d] = heap[d]
      BY <1>16, <2>1, <2>2 DEF Passed
    <3>2. e = [name |-> heap[x].name, desc |-> heap[x].desc]
      BY <1>2, <1>3, <2>3 DEF Copied
    <3>. QED BY <2>5, <3>1, <3>2 DEF FileCopies
  <2>7. Displayed(E) = FileCopies(P)
    BY <1>3, <1>6, <2>1, <2>3 DEF Filling
  <2>8. Filling(p, q, t)'
    <3>1. (sent[t] = {})' /\ IsList(heap, Mine(p, t), q, reply[t])'
      BY <1>1, <1>6, <1>19, <1>20, <1>22 DEF Filling
    <3>2. left'[t] = 0
      <4>1. left[t] = 0
        BY <1>6, <2>3 DEF Filling
      <4>. QED BY <1>1, <1>6, <2>3, <4>1 DEF HeapTypes
    <3>3. (Mine(p, t) \ Entries(p, t) \subseteq {tail})'
      BY <1>2, <1>3, <1>18, <1>19
    <3>4. (tail # Nil => tail \in Mine(p, t) /\ (scan # Nil => tail \notin Entries(p, t)))'
      BY <1>2, <1>3, <1>9, <1>10, <1>18, <1>19
    <3>5. (Asks(t, {"LIST_CONTENT"}) /\ scan = Nil => Mine(p, t) = Entries(p, t))'
      BY <1>2, <1>18, <1>19
    <3>6. Displayed(Entries(p, t))' = FileCopies(Passed(q, Owned(p, current)))'
      BY <1>25, <2>6, <2>7
    <3>. QED BY <1>23, <2>3, <3>1, <3>2, <3>3, <3>4, <3>5, <3>6 DEF Filling
  <2>9. Cursors(p, q, t)'
    <3>1. Asker(t)'
      BY <1>1, <1>6, <1>16 DEF Asker, AtFill, Listed
    <3>2. heap'[u].name = req'[t].other
      BY <1>1, <1>6, <1>16, <2>1, <2>3 DEF AtFill, Listed
    <3>3. AtFill(p, t)'
      BY <1>2, <1>3, <1>23, <2>3, <2>4, <3>1, <3>2 DEF AtFill
    <3>. QED BY <1>1, <1>6, <1>16, <3>3 DEF Cursors, Standing
  <2>10. Listing(p, q, t)'
    BY <1>1, <1>21, <2>8 DEF Listing
  <2>. QED BY <1>1, <1>7, <1>8, <1>15, <1>17, <2>9, <2>10, InsideStep
<1>. QED BY <1>6, <1>26, <1>27

-----------------------------------------------------------------------------
(* The invariant is inductive.                                             *)

\* A refusal, wherever it comes from.
LEMMA RefuseStep ==
  ASSUME NEW o, NEW r, NEW t \in Thread, Inv(o, r), Operation(t), alive,
         pc[t] \in Section \ {"free", "fill"}, NEW code \in -1 .. 4, Refuse(t, code)
  PROVE  Shape(o, r)'
<1>1. ~ Crash
  BY LeaveFacts DEF Refuse
<1>2. OthersLists(t)
  BY <1>1, OperationControl
<1>. QED BY <1>2, RefuseShape

\* An operation that the process survives leaves a list, and a listing of each
\* thread.
LEMMA OperationShape ==
  ASSUME NEW o, NEW r, NEW t \in Thread, Inv(o, r), Operation(t), ~ Crash
  PROVE  \E p \in Owner, q \in Rank : Shape(p, q)'
<1>1. SUFFICES ASSUME ~ Shape(o, r)'
               PROVE  \E p \in Owner, q \in Rank : Shape(p, q)'
  BY DEF Inv
<1>2. \A x \in {"find", "found", "absent", "file", "target"} : x \in Section \ {"free", "fill"}
  BY DEF Section
<1>3. ASSUME NEW x \in {"find", "found", "absent", "file", "target"}, At(t, x),
             NEW code \in -1 .. 4, Refuse(t, code)
      PROVE  FALSE
  BY <1>1, <1>2, <1>3, RefuseStep DEF At
<1>4. CASE Lock(t) \/ Find(t) \/ Files(t) \/ ListContent(t) \/ FindFile(t) \/ ListUsers(t)
  BY <1>1, <1>4, LockShape, FindShape, EnterShape, FindFileShape, ListUsersShape
<1>5. CASE Target(t) \/ Skip(t) \/ FillEnd(t)
  BY <1>1, <1>5, TargetShape, SkipShape, FillEndShape
<1>6. CASE Unlink(t) \/ FreeFile(t) \/ FreeNode(t)
  BY <1>1, <1>6, UnlinkShape, FreeFileShape, FreeNodeShape
<1>7. CASE Absent(t)
  BY <1>3, <1>7 DEF Absent
<1>8. CASE Offline(t)
  BY <1>3, <1>8 DEF Offline, Found
<1>9. CASE RegisterUser(t)
  <2>1. CASE Found(t, {"REGISTER"}) /\ Refuse(t, 1)
    BY <1>3, <2>1 DEF Found
  <2>2. CASE At(t, "absent") /\ Refuse(t, -1)
    BY <1>3, <2>2
  <2>3. ASSUME At(t, "absent"), NEW c \in FreeCells, AddsUser(t, c), Leave(t, 0)
        PROVE  \E p \in Owner, q \in Rank : Shape(p, q)'
    <3>1. \E q \in Rank : Shape(o, q)'
      BY <2>3, RegisterUserShape
    <3>. QED BY <3>1 DEF Inv
  <2>. QED BY <1>9, <2>1, <2>2, <2>3 DEF RegisterUser, AddsUser
<1>10. CASE ConnectUser(t)
  <2>1. At(t, "found")
    BY <1>10 DEF ConnectUser, Found
  <2>2. CASE Refuse(t, 2) \/ Refuse(t, 3)
    BY <1>3, <2>1, <2>2
  <2>3. CASE SetsAddr(req[t].addr) /\ Leave(t, 0)
    <3>1. Shape(o, r)'
      BY <2>1, <2>3, AddrShape
    <3>. QED BY <1>1, <3>1
  <2>. QED BY <1>10, <2>2, <2>3 DEF ConnectUser, SetsAddr
<1>11. CASE DisconnectUser(t)
  <2>1. At(t, "found") /\ SetsAddr(Nil) /\ Leave(t, 0)
    BY <1>11 DEF DisconnectUser, Connected, Found, SetsAddr
  <2>. QED BY <1>1, <2>1, AddrShape
<1>12. CASE RegisterFile(t)
  <2>1. At(t, "file")
    BY <1>12 DEF RegisterFile
  <2>2. CASE Refuse(t, 3) \/ Refuse(t, 4)
    BY <1>3, <2>1, <2>2
  <2>3. ASSUME scan = Nil, NEW c \in FreeCells, AddsFile(t, c), Leave(t, 0),
               UNCHANGED <<messages, reply>>
        PROVE  \E p \in Owner, q \in Rank : Shape(p, q)'
    <3>1. \E p \in Owner : \E q \in Rank : Shape(p, q)'
      BY <2>1, <2>3, RegisterFileShape
    <3>. QED BY <3>1
  <2>. QED BY <1>12, <2>2, <2>3 DEF RegisterFile, AddsFile
<1>13. CASE UnregisterFile(t)
  <2>1. At(t, "file")
    BY <1>13 DEF UnregisterFile
  <2>2. CASE Refuse(t, 3)
    BY <1>3, <2>1, <2>2
  <2>3. CASE scan # Nil /\ DropsFile /\ Leave(t, 0) /\ UNCHANGED <<messages, reply>>
    BY <1>1, <2>1, <2>3, UnregisterFileShape
  <2>. QED BY <1>13, <2>2, <2>3 DEF UnregisterFile, DropsFile
<1>14. CASE Fill(t)
  BY <1>14, FillShape
<1>15. ~ FillNothing(t)
  BY DEF FillNothing
<1>. QED
  BY <1>4, <1>5, <1>6, <1>7, <1>8, <1>9, <1>10, <1>11, <1>12, <1>13, <1>14, <1>15 DEF Operation

\* Nothing allocated, nobody inside.
Blank ==
  /\ alive \in BOOLEAN
  /\ heap = [c \in Cell |-> Free]
  /\ messages = Nil /\ mutex = Nil
  /\ pc = [t \in Thread |-> "idle"]
  /\ req = [t \in Thread |-> Nil] /\ ans = [t \in Thread |-> Nil]
  /\ current = Nil /\ previous = Nil /\ scan = Nil /\ before = Nil /\ tail = Nil
  /\ reply = [t \in Thread |-> Nil]
  /\ left = [t \in Thread |-> 0]
  /\ sent = [t \in Thread |-> {}]

\* So it is at first, and after a crash.
LEMMA BlankInv == Blank => HeapInv
<1>. SUFFICES ASSUME Blank PROVE HeapInv
  OBVIOUS
<1>1. HeapTypes
  BY DEF Blank, HeapTypes, Content, Ref, PcSet
<1>2. Controls /\ AtRest
  BY NilAssumption DEF Blank, Controls, Control, AtRest, Section
<1>3. PICK o, r : o = [c \in Cell |-> c] /\ r = [c \in Cell |-> 0]
  OBVIOUS
<1>4. o \in Owner /\ r \in Rank
  BY <1>3 DEF Owner, Rank
<1>5. \A k \in {"node", "file", "raw", "entry"} : Kind(k) = {}
  BY DEF Blank, Kind, Free
<1>6. Listed = {} /\ \A n : Owned(o, n) = {} /\ Mine(o, n) = {} /\ Entries(o, n) = {}
  BY <1>5 DEF Listed, Owned, Mine, Entries
<1>7. UsersSound(r)
  BY <1>6 DEF UsersSound, IsList, Distinct, Blank
<1>8. FilesSound(o, r)
  BY <1>5 DEF FilesSound
<1>9. ASSUME NEW t \in Thread PROVE Cursors(o, r, t) /\ Listing(o, r, t)
  <2>1. Cursors(o, r, t)
    BY NilAssumption DEF Cursors, Blank
  <2>2. Numbered(o, r, t) /\ Empty(o, t)
    BY <1>6 DEF Numbered, Empty, Blank
  <2>. QED BY <2>1, <2>2 DEF Listing, Blank
<1>10. Shape(o, r)
  BY <1>7, <1>8, <1>9 DEF Shape
<1>. QED BY <1>1, <1>2, <1>4, <1>10 DEF HeapInv

\* A step that changes nothing.
LEMMA StutterShape ==
  ASSUME NEW o, NEW r, Inv(o, r), UNCHANGED vars
  PROVE  HeapTypes' /\ Controls' /\ AtRest' /\ Shape(o, r)'
<1>1. /\ UNCHANGED <<alive, heap, messages, mutex, pc, req, ans>>
      /\ UNCHANGED <<current, previous, scan, before, tail>> /\ UNCHANGED <<reply, left, sent>>
  BY DEF vars, locals, listing
<1>2. HeapTypes'
  BY <1>1 DEF Inv, HeapTypes
<1>3. Controls' /\ AtRest'
  BY <1>1 DEF Inv, Controls, Control, Asks, Lists, AtRest
<1>4. Still(o, r, o, r) /\ \A s \in Thread : SameListing(o, r, o, r, s)
  BY <1>1 DEF Still, SameListing
<1>5. UsersSound(r)' /\ FilesSound(o, r)'
  BY <1>4, StillSound DEF Inv, Shape
<1>6. ASSUME NEW s \in Thread PROVE Cursors(o, r, s)' /\ Listing(o, r, s)'
  <2>1. Cursors(o, r, s)'
    BY <1>1, <1>4, StillCursors DEF Inv, Shape, Controls, locals
  <2>2. Listing(o, r, s)'
    BY <1>1, <1>4, ListingBeside
  <2>. QED BY <2>1, <2>2
<1>. QED BY <1>2, <1>3, <1>5, <1>6 DEF Shape

\* Every step keeps the invariant.
LEMMA HeapInductive ==
  ASSUME HeapInv, [Next]_vars
  PROVE  HeapInv'
<1>1. PICK o, r : Inv(o, r)
  BY DEF HeapInv, Inv
<1>2. SUFFICES ASSUME ~ Crash
               PROVE  HeapInv'
  <2>1. Crash => Blank'
    BY DEF Crash, Blank
  <2>2. Blank' => HeapInv'
    BY BlankInv, PTL
  <2>. QED BY <2>1, <2>2
<1>3. ASSUME NEW t \in Thread, Operation(t) PROVE HeapInv'
  <2>1. PICK p \in Owner, q \in Rank : Shape(p, q)'
    BY <1>1, <1>2, <1>3, OperationShape
  <2>2. HeapTypes' /\ Controls' /\ AtRest'
    BY <1>1, <1>2, <1>3, OperationTypes, OperationControl
  <2>. QED BY <2>1, <2>2 DEF HeapInv
<1>4. ASSUME NEW t \in Thread,
             (\E q \in Calls[t] : Call(t, q)) \/ Send(t) \/ SendEnd(t) \/ Return(t)
      PROVE  HeapInv'
  <2>1. HeapTypes' /\ Controls' /\ AtRest'
    BY <1>1, <1>4, OutsideTypes, OutsideControl
  <2>2. \E p \in Owner, q \in Rank : Shape(p, q)'
    <3>1. CASE \E m \in Calls[t] : Call(t, m)
      BY <1>1, <3>1, CallShape
    <3>2. CASE Send(t) \/ SendEnd(t) \/ Return(t)
      <4>1. Shape(o, r)'
        BY <1>1, <3>2, SendShape, SendEndShape, ReturnShape
      <4>. QED BY <1>1, <4>1 DEF Inv
    <3>. QED BY <1>4, <3>1, <3>2
  <2>3. PICK p \in Owner, q \in Rank : Shape(p, q)'
    BY <2>2
  <2>. QED BY <2>1, <2>3 DEF HeapInv
<1>5. ASSUME UNCHANGED vars PROVE HeapInv'
  <2>1. HeapTypes' /\ Controls' /\ AtRest' /\ Shape(o, r)' /\ o \in Owner /\ r \in Rank
    BY <1>1, <1>5, StutterShape DEF Inv
  <2>. QED BY <2>1 DEF HeapInv
<1>. QED BY <1>3, <1>4, <1>5 DEF Next

\* The memory holds one list of users, a list of files for each, and the listings, cell
\* by cell, at every step of list.c and of the threads that send (list.c, servidor.c).
THEOREM HeapStays == Spec => []HeapInv
<1>1. Init => HeapInv
  <2>1. Init => Blank
    BY DEF Init, Blank
  <2>. QED BY <2>1, BlankInv
<1>2. HeapInv /\ [Next]_vars => HeapInv'
  BY HeapInductive
<1>. QED BY <1>1, <1>2, PTL DEF Spec

-----------------------------------------------------------------------------
(* What the runs check, for any number of cells, threads, names and calls. *)

\* From messages one comes to the users, and from each of them to its files.
LEMMA Reached ==
  ASSUME NEW o, NEW r, Inv(o, r)
  PROVE  /\ Chain(messages) = Listed /\ Ends(messages)
         /\ \A n \in Listed : Chain(heap[n].list_files) = Owned(o, n) /\ Ends(heap[n].list_files)
<1>1. UsersSound(r) /\ FilesSound(o, r) /\ r \in [Cell -> Nat]
  BY DEF Inv, Shape, Rank
<1>2. Chain(messages) = Listed /\ Ends(messages)
  BY <1>1, ChainIsList DEF UsersSound
<1>3. ASSUME NEW n \in Listed
      PROVE  Chain(heap[n].list_files) = Owned(o, n) /\ Ends(heap[n].list_files)
  <2>1. n \in Kind("node") /\ FirstFile(n) = heap[n].list_files
    BY DEF Listed, FirstFile
  <2>2. IsList(heap, Owned(o, n), r, heap[n].list_files)
    BY <1>1, <2>1 DEF FilesSound
  <2>. QED BY <1>1, <2>2, ChainIsList
<1>. QED BY <1>2, <1>3

\* The pointers of the thread inside point to what it takes them for.
LEMMA PointersHold ==
  ASSUME NEW o, NEW r, Inv(o, r)
  PROVE  /\ current \in Listed \cup {Nil} \/ \E t \in Thread : pc[t] = "free"
         /\ previous \in Listed \cup {Nil}
         /\ Points(scan, {"node", "file"}) /\ Points(before, {"file"})
         /\ scan # Nil => Points(tail, {"raw"})
<1>1. mutex \in Thread \cup {Nil} /\ Controls /\ AtRest
  BY DEF Inv, HeapTypes
<1>2. CASE mutex = Nil
  BY <1>1, <1>2 DEF AtRest, Points
<1>3. ASSUME NEW t \in Thread, mutex = t
      PROVE  /\ current \in Listed \cup {Nil} \/ \E s \in Thread : pc[s] = "free"
             /\ previous \in Listed \cup {Nil}
             /\ Points(scan, {"node", "file"}) /\ Points(before, {"file"})
             /\ scan # Nil => Points(tail, {"raw"})
  <2>1. pc[t] \in Section
    BY <1>1, <1>3 DEF Controls, Control
  <2>2. CASE pc[t] \in {"find", "found", "absent"}
    BY <2>2, Walks DEF Points
  <2>3. CASE pc[t] = "free"
    BY <2>3, Frees, Members DEF Points
  <2>4. CASE pc[t] = "file"
    <3>1. scan = Nil \/ heap[scan].kind = "file"
      BY <2>4, AtFiles, Members DEF AtFile
    <3>2. before = Nil \/ heap[before].kind = "file"
      BY <2>4, AtFiles, Members DEF AtFile
    <3>. QED BY <2>4, <3>1, <3>2, AtFiles DEF Points
  <2>5. CASE pc[t] = "target"
    BY <2>5, AtOthers DEF Points
  <2>6. CASE pc[t] = "fill"
    <3>1. /\ current \in Listed /\ previous \in Listed \cup {Nil} /\ before = Nil
          /\ Filling(o, r, t)
          /\ scan \in Listed \cup Owned(o, current) \cup {Nil}
      BY <2>6, Fills
    <3>2. Points(scan, {"node", "file"})
      BY <3>1, Members DEF Points
    <3>3. scan # Nil /\ tail # Nil => tail \in Mine(o, t) \ Entries(o, t)
      BY <3>1 DEF Filling
    <3>4. scan # Nil => Points(tail, {"raw"})
      BY <3>3 DEF Points, Mine, Entries, Kind
    <3>. QED BY <3>1, <3>2, <3>4 DEF Points
  <2>. QED BY <2>1, <2>2, <2>3, <2>4, <2>5, <2>6 DEF Section
<1>. QED BY <1>1, <1>2, <1>3

\* The list is never broken, whatever is taken out of it and freed, and the pointers of
\* the thread inside list.c are to what it takes them for (list.c:107-123, 296-304).
THEOREM ListIsSound == Spec => []ListSound
<1>1. HeapInv => ListSound
  <2>. SUFFICES ASSUME HeapInv PROVE ListSound
    OBVIOUS
  <2>1. PICK o, r : Inv(o, r)
    BY DEF HeapInv, Inv
  <2>2. /\ Chain(messages) = Listed /\ Ends(messages)
        /\ \A n \in Listed : Chain(heap[n].list_files) = Owned(o, n) /\ Ends(heap[n].list_files)
    BY <2>1, Reached
  <2>3. \A n \in Listed : heap[n].kind = "node"
    BY <2>1, Members
  <2>4. \A n \in Listed : \A f \in Owned(o, n) : heap[f].kind = "file"
    BY <2>1, Members
  <2>5. \A m, n \in Listed : m # n => Owned(o, m) \cap Owned(o, n) = {}
    BY DEF Owned
  <2>6. {current, previous} \ {Nil} \subseteq
          IF \E t \in Thread : pc[t] = "free" THEN Listed \cup {current} ELSE Listed
    BY <2>1, PointersHold
  <2>7. /\ Points(scan, {"node", "file"}) /\ Points(before, {"file"})
        /\ scan # Nil => Points(tail, {"raw"})
    BY <2>1, PointersHold
  <2>. QED BY <2>2, <2>3, <2>4, <2>5, <2>6, <2>7 DEF ListSound
<1>. QED BY <1>1, HeapStays, PTL

\* No node and no file is lost when no operation is under way (list.c:115-123, 296-304).
THEOREM NothingIsLost == Spec => []NothingLost
<1>1. HeapInv => NothingLost
  <2>. SUFFICES ASSUME HeapInv, mutex = Nil
                PROVE  {c \in Cell : heap[c].kind \in {"node", "file"}} =
                         Chain(messages) \cup UNION {Chain(heap[n].list_files) : n \in Chain(messages)}
    BY DEF NothingLost
  <2>1. PICK o, r : Inv(o, r)
    BY DEF HeapInv, Inv
  <2>2. /\ Chain(messages) = Listed
        /\ \A n \in Listed : Chain(heap[n].list_files) = Owned(o, n)
    BY <2>1, Reached
  <2>3. Listed = Kind("node")
    <3>1. \A t \in Thread : pc[t] # "free"
      BY <2>1, NilAssumption DEF Inv, Controls, Control, Section
    <3>. QED BY <3>1, NothingDoomed
  <2>4. \A f \in Kind("file") : o[f] \in Kind("node")
    BY <2>1 DEF Inv, Shape, FilesSound
  <2>5. UNION {Chain(heap[n].list_files) : n \in Chain(messages)} = Kind("file")
    <3>1. \A n \in Chain(messages) : Chain(heap[n].list_files) = Owned(o, n)
      BY <2>2
    <3>2. UNION {Owned(o, n) : n \in Kind("node")} = Kind("file")
      BY <2>4 DEF Owned
    <3>3. {Chain(heap[n].list_files) : n \in Chain(messages)} = {Owned(o, n) : n \in Kind("node")}
      BY <2>2, <2>3, <3>1
    <3>. QED BY <3>2, <3>3
  <2>6. {c \in Cell : heap[c].kind \in {"node", "file"}} = Kind("node") \cup Kind("file")
    BY DEF Kind
  <2>. QED BY <2>2, <2>3, <2>5, <2>6
<1>. QED BY <1>1, HeapStays, PTL

\* What is sent of a listing after the mutex was given back is what the registry answered
\* (list.c:348-353, servidor.c:390-419, 491-507).
THEOREM ListingsArrive == Spec => []SentAsListed
<1>1. HeapInv => SentAsListed
  BY DEF HeapInv, SentAsListed, Shape, Listing
<1>. QED BY <1>1, HeapStays, PTL

-----------------------------------------------------------------------------
(* The registry that the cells stand for.                                  *)

\* f maps the names of the files S in the heap h to their descriptions; v is what
\* the registry has of the user n, whose files are S; f maps the names of the users
\* N to that, where F gives each its files.
IsFiles(f, h, S) ==
  /\ f = [x \in DOMAIN f |-> f[x]] /\ DOMAIN f = {h[c].name : c \in S}
  /\ \A c \in S : f[h[c].name] = h[c].desc
IsUser(v, h, S, n) == v = [addr |-> h[n].addr, files |-> v.files] /\ IsFiles(v.files, h, S)
IsUsers(f, h, N, F) ==
  /\ f = [x \in DOMAIN f |-> f[x]] /\ DOMAIN f = {h[n].name : n \in N}
  /\ \A n \in N : IsUser(f[h[n].name], h, F[n], n)
Differ(h, S) == \A c, d \in S : h[c].name = h[d].name => c = d

\* There is one such map of the files ...
LEMMA OneFiles ==
  ASSUME NEW f, NEW g, NEW h, NEW S, IsFiles(f, h, S), IsFiles(g, h, S)
  PROVE  f = g
<1>1. ASSUME NEW x \in DOMAIN f PROVE f[x] = g[x]
  <2>1. PICK c \in S : x = h[c].name
    BY DEF IsFiles
  <2>. QED BY <2>1 DEF IsFiles
<1>2. DOMAIN f = DOMAIN g /\ f = [x \in DOMAIN f |-> f[x]] /\ g = [x \in DOMAIN g |-> g[x]]
  BY DEF IsFiles
<1>. QED BY <1>1, <1>2

\* ... and of the users.
LEMMA OneUsers ==
  ASSUME NEW f, NEW g, NEW h, NEW N, NEW F, IsUsers(f, h, N, F), IsUsers(g, h, N, F)
  PROVE  f = g
<1>1. ASSUME NEW x \in DOMAIN f PROVE f[x] = g[x]
  <2>1. PICK n \in N : x = h[n].name
    BY DEF IsUsers
  <2>2. IsUser(f[x], h, F[n], n) /\ IsUser(g[x], h, F[n], n)
    BY <2>1 DEF IsUsers
  <2>3. f[x].files = g[x].files
    BY <2>2, OneFiles DEF IsUser
  <2>. QED BY <2>2, <2>3 DEF IsUser
<1>2. DOMAIN f = DOMAIN g /\ f = [x \in DOMAIN f |-> f[x]] /\ g = [x \in DOMAIN g |-> g[x]]
  BY DEF IsUsers
<1>. QED BY <1>1, <1>2

\* Files that are called and described as before.
LEMMA FilesSame ==
  ASSUME NEW f, NEW h, NEW g, NEW S, IsFiles(f, h, S),
         \A c \in S : g[c].name = h[c].name /\ g[c].desc = h[c].desc
  PROVE  IsFiles(f, g, S)
<1>1. {g[c].name : c \in S} = {h[c].name : c \in S}
  OBVIOUS
<1>. QED BY <1>1 DEF IsFiles

\* A file more.
LEMMA FilesAdd ==
  ASSUME NEW f, NEW h, NEW g, NEW S, IsFiles(f, h, S), NEW c,
         \A d \in S : g[d].name = h[d].name /\ g[d].desc = h[d].desc /\ h[d].name # g[c].name
  PROVE  IsFiles(Abstract!With(f, g[c].name, g[c].desc), g, S \cup {c})
<1>. DEFINE w == Abstract!With(f, g[c].name, g[c].desc)
<1>1. w = [x \in DOMAIN w |-> w[x]] /\ DOMAIN w = DOMAIN f \cup {g[c].name}
  BY DEF Abstract!With
<1>2. {g[d].name : d \in S \cup {c}} = {h[d].name : d \in S} \cup {g[c].name}
  OBVIOUS
<1>3. w[g[c].name] = g[c].desc /\ \A x \in DOMAIN f : x # g[c].name => w[x] = f[x]
  BY DEF Abstract!With
<1>. HIDE DEF w
<1>4. ASSUME NEW d \in S PROVE w[g[d].name] = g[d].desc
  BY <1>3, <1>4 DEF IsFiles
<1>5. IsFiles(w, g, S \cup {c})
  BY <1>1, <1>2, <1>3, <1>4 DEF IsFiles
<1>. QED BY <1>5 DEF w

\* A file less.
LEMMA FilesDrop ==
  ASSUME NEW f, NEW h, NEW g, NEW S, IsFiles(f, h, S), Differ(h, S), NEW c \in S,
         \A d \in S \ {c} : g[d].name = h[d].name /\ g[d].desc = h[d].desc
  PROVE  IsFiles(Abstract!Without(f, h[c].name), g, S \ {c})
<1>. DEFINE w == Abstract!Without(f, h[c].name)
<1>1. w = [x \in DOMAIN w |-> w[x]] /\ DOMAIN w = DOMAIN f \ {h[c].name}
      /\ \A x \in DOMAIN w : w[x] = f[x]
  BY DEF Abstract!Without
<1>2. {g[d].name : d \in S \ {c}} = {h[d].name : d \in S} \ {h[c].name}
  BY DEF Differ
<1>. HIDE DEF w
<1>3. IsFiles(w, g, S \ {c})
  BY <1>1, <1>2 DEF IsFiles
<1>. QED BY <1>3 DEF w

\* Users of whom nothing has changed.
LEMMA UsersSame ==
  ASSUME NEW f, NEW h, NEW g, NEW N, NEW F, NEW E, IsUsers(f, h, N, F),
         \A n \in N : g[n].name = h[n].name,
         \A n \in N : \A v : IsUser(v, h, F[n], n) => IsUser(v, g, E[n], n)
  PROVE  IsUsers(f, g, N, E)
<1>1. {g[n].name : n \in N} = {h[n].name : n \in N}
  OBVIOUS
<1>. QED BY <1>1 DEF IsUsers

\* A user more.
LEMMA UsersAdd ==
  ASSUME NEW f, NEW h, NEW g, NEW N, NEW F, NEW E, IsUsers(f, h, N, F), NEW c, NEW v,
         IsUser(v, g, E[c], c),
         \A n \in N : g[n].name = h[n].name /\ h[n].name # g[c].name,
         \A n \in N : \A y : IsUser(y, h, F[n], n) => IsUser(y, g, E[n], n)
  PROVE  IsUsers(Abstract!With(f, g[c].name, v), g, N \cup {c}, E)
<1>. DEFINE w == Abstract!With(f, g[c].name, v)
<1>1. w = [x \in DOMAIN w |-> w[x]] /\ DOMAIN w = DOMAIN f \cup {g[c].name}
  BY DEF Abstract!With
<1>2. {g[n].name : n \in N \cup {c}} = {h[n].name : n \in N} \cup {g[c].name}
  OBVIOUS
<1>3. w[g[c].name] = v /\ \A x \in DOMAIN f : x # g[c].name => w[x] = f[x]
  BY DEF Abstract!With
<1>. HIDE DEF w
<1>4. ASSUME NEW n \in N PROVE IsUser(w[g[n].name], g, E[n], n)
  <2>1. IsUser(f[h[n].name], h, F[n], n) /\ h[n].name \in DOMAIN f
    BY <1>4 DEF IsUsers
  <2>. QED BY <1>3, <1>4, <2>1
<1>5. IsUsers(w, g, N \cup {c}, E)
  BY <1>1, <1>2, <1>3, <1>4 DEF IsUsers
<1>. QED BY <1>5 DEF w

\* A user less.
LEMMA UsersDrop ==
  ASSUME NEW f, NEW h, NEW g, NEW N, NEW F, NEW E, IsUsers(f, h, N, F), Differ(h, N), NEW c \in N,
         \A n \in N \ {c} : g[n].name = h[n].name,
         \A n \in N \ {c} : \A y : IsUser(y, h, F[n], n) => IsUser(y, g, E[n], n)
  PROVE  IsUsers(Abstract!Without(f, h[c].name), g, N \ {c}, E)
<1>. DEFINE w == Abstract!Without(f, h[c].name)
<1>1. w = [x \in DOMAIN w |-> w[x]] /\ DOMAIN w = DOMAIN f \ {h[c].name}
      /\ \A x \in DOMAIN w : w[x] = f[x]
  BY DEF Abstract!Without
<1>2. {g[n].name : n \in N \ {c}} = {h[n].name : n \in N} \ {h[c].name}
  BY DEF Differ
<1>. HIDE DEF w
<1>3. ASSUME NEW n \in N \ {c} PROVE IsUser(w[g[n].name], g, E[n], n)
  <2>1. IsUser(f[h[n].name], h, F[n], n) /\ h[n].name \in DOMAIN w
    BY <1>1, <1>2, <1>3 DEF IsUsers
  <2>. QED BY <1>1, <1>3, <2>1
<1>4. IsUsers(w, g, N \ {c}, E)
  BY <1>1, <1>2, <1>3 DEF IsUsers
<1>. QED BY <1>4 DEF w

\* A user changed.
LEMMA UsersWrite ==
  ASSUME NEW f, NEW h, NEW g, NEW N, NEW F, NEW E, IsUsers(f, h, N, F), Differ(h, N), NEW c \in N,
         NEW v, IsUser(v, g, E[c], c),
         \A n \in N : g[n].name = h[n].name,
         \A n \in N \ {c} : \A y : IsUser(y, h, F[n], n) => IsUser(y, g, E[n], n)
  PROVE  IsUsers([f EXCEPT ![h[c].name] = v], g, N, E)
<1>. DEFINE w == [f EXCEPT ![h[c].name] = v]
<1>0. f = [x \in DOMAIN f |-> f[x]] /\ h[c].name \in DOMAIN f
  BY DEF IsUsers
<1>1. w = [x \in DOMAIN w |-> w[x]] /\ DOMAIN w = DOMAIN f
  BY <1>0
<1>2. {g[n].name : n \in N} = {h[n].name : n \in N}
  OBVIOUS
<1>3. w[h[c].name] = v /\ \A x \in DOMAIN f : x # h[c].name => w[x] = f[x]
  BY <1>0
<1>. HIDE DEF w
<1>4. ASSUME NEW n \in N, n # c PROVE IsUser(w[g[n].name], g, E[n], n)
  <2>1. IsUser(f[h[n].name], h, F[n], n) /\ h[n].name \in DOMAIN f /\ h[n].name # h[c].name
    BY <1>4 DEF IsUsers, Differ
  <2>. QED BY <1>3, <1>4, <2>1
<1>5. IsUsers(w, g, N, E)
  BY <1>1, <1>2, <1>3, <1>4, <1>0 DEF IsUsers
<1>. QED BY <1>5 DEF w

-----------------------------------------------------------------------------
(* What Db reads.                                                          *)

\* The users N of the heap h are a list from m, and the files F gives each a list
\* from its node.
Laid(h, m, N, F, r) ==
  /\ r \in [Cell -> Nat] /\ IsList(h, N, r, m) /\ Differ(h, N)
  /\ \A n \in N : /\ h[n].kind = "node"
                  /\ IsList(h, F[n], r, h[n].list_files) /\ Differ(h, F[n])
                  /\ \A f \in F[n] : h[f].kind = "file"
Belongings(o) == [n \in Cell |-> Owned(o, n)]

\* As the invariant says they are.
LEMMA InvLaid ==
  ASSUME NEW o, NEW r, Inv(o, r)
  PROVE  Laid(heap, messages, Listed, Belongings(o), r)
<1>1. UsersSound(r) /\ FilesSound(o, r) /\ r \in [Cell -> Nat]
  BY DEF Inv, Shape, Rank
<1>2. IsList(heap, Listed, r, messages) /\ Differ(heap, Listed)
  BY <1>1 DEF UsersSound, Distinct, Differ
<1>3. ASSUME NEW n \in Listed
      PROVE  /\ heap[n].kind = "node"
             /\ IsList(heap, Belongings(o)[n], r, heap[n].list_files)
             /\ Differ(heap, Belongings(o)[n])
             /\ \A f \in Belongings(o)[n] : heap[f].kind = "file"
  <2>1. n \in Kind("node") /\ FirstFile(n) = heap[n].list_files /\ n \in Cell /\ heap[n].kind = "node"
    BY DEF Listed, FirstFile, Kind
  <2>2. Belongings(o)[n] = Owned(o, n)
    BY <2>1 DEF Belongings
  <2>3. IsList(heap, Owned(o, n), r, heap[n].list_files) /\ Distinct(Owned(o, n))
    BY <1>1, <2>1 DEF FilesSound
  <2>. QED BY <2>1, <2>2, <2>3 DEF Distinct, Differ, Owned, Kind
<1>. QED BY <1>1, <1>2, <1>3 DEF Laid

\* What is read of one user's files.
FilesOf(S) == [f \in {heap[c].name : c \in S} |-> heap[CHOOSE c \in S : heap[c].name = f].desc]

LEMMA FilesRead ==
  ASSUME NEW S, Differ(heap, S)
  PROVE  IsFiles(FilesOf(S), heap, S)
<1>1. ASSUME NEW c \in S PROVE FilesOf(S)[heap[c].name] = heap[c].desc
  <2>. DEFINE d == CHOOSE e \in S : heap[e].name = heap[c].name
  <2>1. d \in S /\ heap[d].name = heap[c].name
    OBVIOUS
  <2>2. d = c
    <3>. HIDE DEF d
    <3>. QED BY <2>1 DEF Differ
  <2>3. FilesOf(S)[heap[c].name] = heap[d].desc
    BY DEF FilesOf
  <2>. QED BY <2>2, <2>3
<1>2. FilesOf(S) = [x \in DOMAIN FilesOf(S) |-> FilesOf(S)[x]] /\ DOMAIN FilesOf(S) = {heap[c].name : c \in S}
  BY DEF FilesOf
<1>. QED BY <1>1, <1>2 DEF IsFiles

\* Db reads the registry off such a heap, whichever it is.
LEMMA DbReads == \A N, F, r : Laid(heap, messages, N, F, r) => IsUsers(Db, heap, N, F)
<1>. SUFFICES ASSUME NEW N, NEW F, NEW r, Laid(heap, messages, N, F, r)
              PROVE  IsUsers(Db, heap, N, F)
  OBVIOUS
<1>1. Chain(messages) = N /\ N \subseteq Cell
  BY ChainIsList DEF Laid, IsList
<1>2. \A n \in N : Chain(heap[n].list_files) = F[n] /\ F[n] \subseteq Cell
  <2>1. \A n \in N : IsList(heap, F[n], r, heap[n].list_files) /\ r \in [Cell -> Nat]
    BY DEF Laid
  <2>2. \A n \in N : F[n] \subseteq Cell
    BY <2>1 DEF IsList
  <2>. QED BY <2>1, <2>2, ChainIsList
<1>. DEFINE nodes == {c \in Chain(messages) : heap[c].kind = "node"}
            files(n) == {f \in Chain(heap[n].list_files) : heap[f].kind = "file"}
            view(n) == [addr |-> heap[n].addr, files |-> FilesOf(files(n))]
            pick(u) == CHOOSE c \in nodes : heap[c].name = u
<1>3. Db = [u \in {heap[c].name : c \in nodes} |-> view(pick(u))]
  BY DEF Db, FilesOf
<1>4. nodes = N /\ \A n \in N : files(n) = F[n]
  BY <1>1, <1>2 DEF Laid
<1>5. ASSUME NEW n \in N PROVE IsUser(view(n), heap, F[n], n)
  <2>1. IsFiles(FilesOf(F[n]), heap, F[n])
    BY FilesRead DEF Laid
  <2>2. view(n) = [addr |-> heap[n].addr, files |-> FilesOf(F[n])]
    BY <1>4
  <2>. HIDE DEF view
  <2>. QED BY <2>1, <2>2 DEF IsUser
<1>6. ASSUME NEW n \in N PROVE pick(heap[n].name) = n
  <2>1. pick(heap[n].name) \in N /\ heap[pick(heap[n].name)].name = heap[n].name
    BY <1>4
  <2>. HIDE DEF pick
  <2>. QED BY <2>1 DEF Laid, Differ
<1>. HIDE DEF view, pick
<1>7. DOMAIN Db = {heap[n].name : n \in N} /\ \A n \in N : Db[heap[n].name] = view(n)
  <2>1. DOMAIN Db = {heap[n].name : n \in N}
    BY <1>3, <1>4
  <2>2. ASSUME NEW n \in N PROVE Db[heap[n].name] = view(n)
    <3>1. heap[n].name \in {heap[c].name : c \in nodes}
      BY <1>4
    <3>2. Db[heap[n].name] = view(pick(heap[n].name))
      BY <1>3, <3>1
    <3>. QED BY <1>6, <3>2
  <2>. QED BY <2>1, <2>2
<1>8. Db = [x \in DOMAIN Db |-> Db[x]]
  BY <1>3
<1>. QED BY <1>5, <1>7, <1>8 DEF IsUsers

\* Also after a step.
LEMMA DbReadsNext == \A N, F, r : Laid(heap', messages', N, F, r) => IsUsers(Db', heap', N, F)
<1>1. (\A N, F, r : Laid(heap, messages, N, F, r) => IsUsers(Db, heap, N, F))'
  BY DbReads, PTL
<1>. QED BY <1>1

\* And it is the only one: what describes the users after a step is Db'.
LEMMA DbBecomes ==
  ASSUME NEW r, NEW N, NEW F, Laid(heap', messages', N, F, r),
         NEW f, IsUsers(f, heap', N, F)
  PROVE  Db' = f
BY DbReadsNext, OneUsers

\* Nothing happens to the registry when nothing happens to its users and files.
LEMMA DbStays ==
  ASSUME NEW o, NEW r, Inv(o, r), messages' = messages,
         \A c \in Listed : heap'[c] = heap[c],
         \A n \in Listed : \A c \in Owned(o, n) : heap'[c] = heap[c]
  PROVE  Db' = Db
<1>. DEFINE F == Belongings(o)
<1>1. PICK N : N = Listed
  OBVIOUS
<1>2. Laid(heap, messages, N, F, r) /\ IsUsers(Db, heap, N, F)
  BY <1>1, InvLaid, DbReads
<1>3. \A n \in N : heap'[n] = heap[n] /\ \A c \in F[n] : heap'[c] = heap[c]
  BY <1>1 DEF Belongings, Listed, Kind
<1>. HIDE DEF F
<1>4. IsList(heap', N, r, messages')
  <2>1. \A c \in N : Link(heap', c) = Link(heap, c)
    BY <1>3 DEF Link
  <2>. QED BY <1>2, <2>1, ListFrame DEF Laid
<1>5. ASSUME NEW n \in N PROVE IsList(heap', F[n], r, heap'[n].list_files)
  <2>1. \A c \in F[n] : Link(heap', c) = Link(heap, c)
    BY <1>3 DEF Link
  <2>. QED BY <1>2, <1>3, <2>1, ListFrame DEF Laid
<1>6. Laid(heap', messages', N, F, r)
  BY <1>2, <1>3, <1>4, <1>5 DEF Laid, Differ
<1>7. IsUsers(Db, heap', N, F)
  <2>1. ASSUME NEW n \in N, NEW v, IsUser(v, heap, F[n], n) PROVE IsUser(v, heap', F[n], n)
    <3>1. IsFiles(v.files, heap', F[n])
      BY <1>3, <2>1, FilesSame DEF IsUser
    <3>. QED BY <1>3, <2>1, <3>1 DEF IsUser
  <2>. QED BY <1>2, <1>3, <2>1, UsersSame
<1>. QED BY <1>6, <1>7, DbBecomes


\* The users and files after a step.
LEMMA InvLaidNext == \A o, r : Inv(o, r)' => Laid(heap', messages', Listed', Belongings(o)', r)
<1>1. \A o, r : Inv(o, r) => Laid(heap, messages, Listed, Belongings(o), r)
  BY InvLaid
<1>2. (\A o, r : Inv(o, r) => Laid(heap, messages, Listed, Belongings(o), r))'
  BY <1>1, PTL
<1>. QED BY <1>2

\* An empty heap shows an empty registry.
LEMMA BlankDb == Blank => Db = << >>
<1>. SUFFICES ASSUME Blank PROVE Db = << >>
  OBVIOUS
<1>1. PICK o, r : Inv(o, r)
  BY BlankInv DEF HeapInv, Inv
<1>2. PICK N, F : N = Listed /\ F = Belongings(o)
  OBVIOUS
<1>3. N = {}
  BY <1>2 DEF Blank, Listed, Kind, Free
<1>4. IsUsers(Db, heap, N, F)
  BY <1>1, <1>2, InvLaid, DbReads
<1>5. IsUsers(<< >>, heap, N, F)
  BY <1>3 DEF IsUsers
<1>. QED BY <1>4, <1>5, OneUsers

LEMMA BlankDbNext == Blank' => Db' = << >>
<1>1. (Blank => Db = << >>)'
  BY BlankDb, PTL
<1>. QED BY <1>1

-----------------------------------------------------------------------------
(* What each operation does to the registry.                               *)

\* db shows the cells before a step and after it.
Follows == db = Db /\ db' = Db'

\* The registry as db has it.
LEMMA DbShows ==
  ASSUME NEW o, NEW r, Inv(o, r), db = Db
  PROVE  /\ IsUsers(db, heap, Listed, Belongings(o)) /\ Differ(heap, Listed)
         /\ DOMAIN db = {heap[n].name : n \in Listed}
         /\ \A n \in Listed : /\ n \in Cell /\ Belongings(o)[n] = Owned(o, n)
                              /\ IsUser(db[heap[n].name], heap, Owned(o, n), n)
                              /\ Differ(heap, Owned(o, n))
<1>1. PICK N, F : N = Listed /\ F = Belongings(o)
  OBVIOUS
<1>2. Laid(heap, messages, N, F, r)
  BY <1>1, InvLaid
<1>3. IsUsers(db, heap, N, F)
  BY <1>2, DbReads
<1>4. \A n \in N : n \in Cell /\ F[n] = Owned(o, n)
  BY <1>1 DEF Belongings, Listed, Kind
<1>. QED BY <1>1, <1>2, <1>3, <1>4 DEF Laid, IsUsers

\* A user in the list is in the registry.
LEMMA ListedKnown ==
  ASSUME NEW o, NEW r, Inv(o, r), db = Db, NEW n \in Listed
  PROVE  /\ Abstract!Known(heap[n].name)
         /\ Abstract!Online(heap[n].name) <=> heap[n].addr # Nil
         /\ IsUser(db[heap[n].name], heap, Owned(o, n), n)
<1>1. heap[n].name \in DOMAIN db /\ IsUser(db[heap[n].name], heap, Owned(o, n), n)
  BY DbShows
<1>2. db[heap[n].name].addr = heap[n].addr
  BY <1>1 DEF IsUser
<1>. QED BY <1>1, <1>2 DEF Abstract!Known, Abstract!Online

\* And no other one is.
LEMMA OthersUnknown ==
  ASSUME NEW o, NEW r, Inv(o, r), db = Db, NEW u, \A n \in Listed : heap[n].name # u
  PROVE  ~ Abstract!Known(u)
BY DbShows DEF Abstract!Known

\* Who calls is in the registry, and connected.
LEMMA AskerOnline ==
  ASSUME NEW o, NEW r, Inv(o, r), db = Db, NEW t, Asker(t)
  PROVE  Abstract!Online(req[t].user)
BY ListedKnown DEF Asker

\* The user that was found.
LEMMA FoundKnown ==
  ASSUME NEW o, NEW r, Inv(o, r), db = Db, NEW t \in Thread, pc[t] \in {"found", "file"}
  PROVE  /\ current \in Listed /\ heap[current].name = req[t].user
         /\ Abstract!Known(req[t].user)
         /\ Abstract!Online(req[t].user) <=> heap[current].addr # Nil
         /\ IsUser(db[req[t].user], heap, Owned(o, current), current)
<1>1. current \in Listed /\ heap[current].name = req[t].user
  BY Walks, AtFiles
<1>2. PICK n : n = current
  OBVIOUS
<1>. QED BY <1>1, <1>2, ListedKnown

\* The user that was not.
LEMMA AbsentUnknown ==
  ASSUME NEW o, NEW r, Inv(o, r), db = Db, NEW t \in Thread, pc[t] = "absent"
  PROVE  ~ Abstract!Known(req[t].user) /\ \A n \in Listed : heap[n].name # req[t].user
<1>1. \A n \in Listed : heap[n].name # req[t].user
  BY Walks DEF Walking, Ahead
<1>2. PICK u : u = req[t].user
  OBVIOUS
<1>. QED BY <1>1, <1>2, OthersUnknown

\* The call is under way, and not answered.
LEMMA Pending ==
  ASSUME NEW o, NEW r, Inv(o, r), NEW t \in Thread, pc[t] \in Section \ {"free"}
  PROVE  req[t] \in Request /\ req[t] # Nil /\ ans[t] = Nil
<1>1. Control(t) /\ req[t] \in Request
  BY Section1
<1>. QED BY <1>1, RequestAssumption DEF Control, Section

\* What does not touch the list leaves the registry as it is.
LEMMA DbKept ==
  ASSUME NEW o, NEW r, Inv(o, r), Follows, UNCHANGED <<heap, messages>>
  PROVE  db' = db
BY DbStays DEF Follows

\* A refusal in list.c is one in the registry.
LEMMA RefuseRefused ==
  ASSUME NEW o, NEW r, Inv(o, r), Follows, NEW t, NEW code, Refuse(t, code)
  PROVE  Abstract!Refused(t, code) /\ UNCHANGED req
<1>1. db' = db
  BY DbKept DEF Refuse
<1>. QED BY <1>1 DEF Refuse, Leave, Settle, Unlock, Abstract!Refused, Abstract!Answered

\* Leaving with 0 answers 0.
LEMMA LeaveAnswers ==
  ASSUME NEW t, Leave(t, 0)
  PROVE  Abstract!Answered(t, 0, {}) /\ UNCHANGED req
BY DEF Leave, Settle, Unlock, Abstract!Answered

\* The invariant after a step, with its o and r named.
LEMMA AfterStep ==
  ASSUME NEW o, NEW r, Inv(o, r), NEW t \in Thread, Operation(t), ~ Crash,
         NEW p \in Owner, NEW q \in Rank, Shape(p, q)'
  PROVE  Inv(p, q)'
<1>1. HeapTypes' /\ Controls' /\ AtRest'
  BY OperationTypes, OperationControl
<1>. QED BY <1>1 DEF Inv

\* What describes the users in the list after a step is the registry.
LEMMA DbAfter ==
  ASSUME NEW p, NEW q, Inv(p, q)', Follows, NEW f, IsUsers(f, heap', Listed', Belongings(p)')
  PROVE  db' = f
<1>1. PICK N, F : N = Listed' /\ F = Belongings(p)'
  OBVIOUS
<1>2. Laid(heap', messages', N, F, q)
  BY <1>1, InvLaidNext
<1>. QED BY <1>1, <1>2, DbBecomes DEF Follows

\* Walks that end without the user, but for REGISTER.
LEMMA AbsentDoes ==
  ASSUME NEW o, NEW r, Inv(o, r), Follows, NEW t \in Thread, Absent(t)
  PROVE  Abstract!Do(t)
<1>1. pc[t] = "absent" /\ pc[t] \in Section \ {"free"} /\ req[t].op # "REGISTER" /\ Refuse(t, 1)
  BY DEF Absent, At, Asks, Section
<1>2. req[t] \in Request /\ req[t] # Nil /\ ans[t] = Nil
  BY <1>1, Pending
<1>3. ~ Abstract!Known(req[t].user)
  BY <1>1, AbsentUnknown DEF Follows
<1>4. Abstract!Refused(t, 1) /\ UNCHANGED req
  BY <1>1, RefuseRefused
<1>5. req[t].op \in {"UNREGISTER", "CONNECT", "DISCONNECT", "PUBLISH", "DELETE", "LIST_USERS", "LIST_CONTENT"}
  BY <1>1, <1>2, RequestFields
<1>. QED BY <1>2, <1>3, <1>4, <1>5
         DEF Abstract!Do, Abstract!Unregister, Abstract!Connect, Abstract!Disconnect, Abstract!Publish,
             Abstract!Delete, Abstract!ListUsers, Abstract!ListContent, Abstract!OnlineOnly

\* Users who are not connected.
LEMMA OfflineDoes ==
  ASSUME NEW o, NEW r, Inv(o, r), Follows, NEW t \in Thread, Offline(t)
  PROVE  Abstract!Do(t)
<1>1. /\ pc[t] = "found" /\ pc[t] \in Section \ {"free"} /\ Refuse(t, 2) /\ heap[current].addr = Nil
      /\ req[t].op \in {"DISCONNECT", "PUBLISH", "DELETE", "LIST_USERS", "LIST_CONTENT"}
  BY DEF Offline, Found, At, Asks, Section
<1>2. req[t] # Nil /\ ans[t] = Nil
  BY <1>1, Pending
<1>3. Abstract!Known(req[t].user) /\ ~ Abstract!Online(req[t].user)
  BY <1>1, FoundKnown DEF Follows
<1>4. Abstract!Refused(t, 2) /\ UNCHANGED req
  BY <1>1, RefuseRefused
<1>. QED BY <1>1, <1>2, <1>3, <1>4
         DEF Abstract!Do, Abstract!Disconnect, Abstract!Publish, Abstract!Delete, Abstract!ListUsers,
             Abstract!ListContent, Abstract!OnlineOnly

\* A step on one user, x, and on its files.
LEMMA UserChanges ==
  ASSUME NEW o, NEW r, Inv(o, r), NEW p, NEW q, Inv(p, q)', Follows,
         \A s \in Thread : pc[s] # "free", \A s \in Thread : pc'[s] # "free",
         NEW x \in Listed, FilesOnly(o, r, p, q, x), NEW v, IsUser(v, heap', Owned(p, x)', x)
  PROVE  db' = [db EXCEPT ![heap[x].name] = v]
<1>1. PICK N, F, E : N = Listed /\ F = Belongings(o) /\ E = Belongings(p)'
  OBVIOUS
<1>2. N = Kind("node") /\ Listed' = N
  <2>1. Kind("node")' = Kind("node")
    BY DEF FilesOnly, Kind
  <2>2. Doomed' = {}
    BY DEF Doomed
  <2>. QED BY <1>1, <2>1, <2>2, NothingDoomed DEF Listed
<1>3. \A n \in N : n \in Cell /\ F[n] = Owned(o, n) /\ E[n] = Owned(p, n)'
  BY <1>1, <1>2 DEF Belongings, Kind
<1>4. \A n \in N : heap'[n].name = heap[n].name
  BY <1>2 DEF FilesOnly, Kind
<1>5. ASSUME NEW n \in N \ {x}, NEW y, IsUser(y, heap, F[n], n) PROVE IsUser(y, heap', E[n], n)
  <2>1. heap'[n] = heap[n]
    BY <1>2 DEF FilesOnly, Kind
  <2>2. Owned(p, n)' = Owned(o, n)
    BY DEF FilesOnly, Owned, Kind
  <2>3. \A c \in Owned(o, n) : heap'[c] = heap[c]
    BY DEF FilesOnly, Owned, Kind
  <2>4. E[n] = F[n] /\ \A c \in F[n] : heap'[c] = heap[c]
    BY <1>3, <2>2, <2>3
  <2>5. IsFiles(y.files, heap', E[n])
    BY <1>5, <2>4, FilesSame DEF IsUser
  <2>. QED BY <1>5, <2>1, <2>5 DEF IsUser
<1>6. IsUsers(db, heap, N, F) /\ Differ(heap, N) /\ x \in N /\ IsUser(v, heap', E[x], x)
  BY <1>1, <1>3, DbShows DEF Follows
<1>7. IsUsers([db EXCEPT ![heap[x].name] = v], heap', N, E)
  BY <1>4, <1>5, <1>6, UsersWrite
<1>. QED BY <1>1, <1>2, <1>7, DbAfter

\* A user connects or disconnects.
LEMMA AddrDoes ==
  ASSUME NEW o, NEW r, Inv(o, r), Follows, NEW t \in Thread, Operation(t), At(t, "found"), NEW a,
         SetsAddr(a), Leave(t, 0)
  PROVE  db' = [db EXCEPT ![req[t].user].addr = a]
<1>1. pc[t] = "found" /\ alive /\ db = Db
  BY DEF At, Follows
<1>2. ~ Crash /\ pc'[t] = "return" /\ \A s \in Thread : s # t => pc'[s] = pc[s]
  BY <1>1, LeaveFacts
<1>3. (\A s \in Thread : pc[s] # "free") /\ (\A s \in Thread : pc'[s] # "free")
  BY <1>1, <1>2, Walks
<1>4. Shape(o, r)'
  BY AddrShape
<1>5. PICK x : /\ x = current /\ FilesOnly(o, r, o, r, x) /\ Owned(o, x)' = Owned(o, x)
               /\ heap'[x].addr = a /\ \A f \in Owned(o, x) : heap'[f] = heap[f]
  BY AddrShape
<1>6. Inv(o, r)'
  BY <1>2, <1>4, AfterStep DEF Inv
<1>7. PICK u : u = req[t].user
  OBVIOUS
<1>8. /\ x \in Listed /\ heap[x].name = u /\ u \in DOMAIN db
      /\ IsUser(db[u], heap, Owned(o, x), x)
  BY <1>1, <1>5, <1>7, FoundKnown DEF Abstract!Known
<1>9. PICK v : v = [db[u] EXCEPT !.addr = a]
  OBVIOUS
<1>10. v = [addr |-> a, files |-> db[u].files]
  BY <1>8, <1>9 DEF IsUser
<1>11. IsFiles(v.files, heap', Owned(o, x))
  <2>1. PICK S : S = Owned(o, x)
    OBVIOUS
  <2>2. IsFiles(v.files, heap, S)
    BY <1>8, <1>10, <2>1 DEF IsUser
  <2>. QED BY <1>5, <2>1, <2>2, FilesSame
<1>12. IsUser(v, heap', Owned(o, x)', x)
  BY <1>5, <1>10, <1>11 DEF IsUser
<1>13. db' = [db EXCEPT ![heap[x].name] = v]
  BY <1>3, <1>5, <1>6, <1>8, <1>12, UserChanges
<1>. QED BY <1>7, <1>8, <1>9, <1>13

\* CONNECT gives the user an address, or refuses as the registry does.
LEMMA ConnectDoes ==
  ASSUME NEW o, NEW r, Inv(o, r), Follows, NEW t \in Thread, ConnectUser(t)
  PROVE  Abstract!Do(t)
<1>1. pc[t] = "found" /\ At(t, "found") /\ pc[t] \in Section \ {"free"} /\ req[t].op = "CONNECT" /\ Operation(t)
  BY DEF ConnectUser, Found, At, Asks, Section, Operation
<1>2. req[t] # Nil /\ ans[t] = Nil
  BY <1>1, Pending
<1>3. Abstract!Known(req[t].user) /\ (Abstract!Online(req[t].user) <=> heap[current].addr # Nil)
  BY <1>1, FoundKnown DEF Follows
<1>4. CASE heap[current].addr # Nil /\ Refuse(t, 2)
  <2>1. Abstract!Refused(t, 2) /\ UNCHANGED req
    BY <1>4, RefuseRefused
  <2>. QED BY <1>1, <1>2, <1>3, <1>4, <2>1 DEF Abstract!Do, Abstract!Connect
<1>5. CASE heap[current].addr = Nil /\ Refuse(t, 3)
  <2>1. Abstract!Refused(t, 3) /\ UNCHANGED req
    BY <1>5, RefuseRefused
  <2>. QED BY <1>1, <1>2, <1>3, <1>5, <2>1 DEF Abstract!Do, Abstract!Connect
<1>6. CASE heap[current].addr = Nil /\ SetsAddr(req[t].addr) /\ Leave(t, 0)
  <2>1. db' = [db EXCEPT ![req[t].user].addr = req[t].addr]
    BY <1>1, <1>6, AddrDoes
  <2>2. Abstract!Answered(t, 0, {}) /\ UNCHANGED req
    BY <1>6, LeaveAnswers
  <2>. QED BY <1>1, <1>2, <1>3, <1>6, <2>1, <2>2 DEF Abstract!Do, Abstract!Connect
<1>. QED BY <1>4, <1>5, <1>6 DEF ConnectUser, SetsAddr

\* DISCONNECT takes the address away.
LEMMA DisconnectDoes ==
  ASSUME NEW o, NEW r, Inv(o, r), Follows, NEW t \in Thread, DisconnectUser(t)
  PROVE  Abstract!Do(t)
<1>1. /\ pc[t] = "found" /\ At(t, "found") /\ pc[t] \in Section \ {"free"} /\ req[t].op = "DISCONNECT"
      /\ Operation(t) /\ heap[current].addr # Nil /\ Leave(t, 0) /\ SetsAddr(Nil)
  BY DEF DisconnectUser, SetsAddr, Connected, Found, At, Asks, Section, Operation
<1>2. req[t] # Nil /\ ans[t] = Nil
  BY <1>1, Pending
<1>3. Abstract!Online(req[t].user)
  BY <1>1, FoundKnown DEF Follows
<1>4. db' = [db EXCEPT ![req[t].user].addr = Nil]
  BY <1>1, AddrDoes
<1>5. Abstract!Answered(t, 0, {}) /\ UNCHANGED req
  BY <1>1, LeaveAnswers
<1>. QED BY <1>1, <1>2, <1>3, <1>4, <1>5 DEF Abstract!Do, Abstract!Disconnect

\* PUBLISH adds the file, or refuses as the registry does.
LEMMA PublishDoes ==
  ASSUME NEW o, NEW r, Inv(o, r), Follows, NEW t \in Thread, RegisterFile(t)
  PROVE  Abstract!Do(t)
<1>1. /\ pc[t] = "file" /\ At(t, "file") /\ alive /\ pc[t] \in Section \ {"free"} /\ req[t].op = "PUBLISH"
      /\ Operation(t) /\ db = Db
  BY DEF RegisterFile, At, Asks, Section, Operation, Follows
<1>2. req[t] # Nil /\ ans[t] = Nil
  BY <1>1, Pending
<1>3. PICK x, u, f : x = current /\ u = req[t].user /\ f = req[t].file
  OBVIOUS
<1>4. /\ x \in Listed /\ heap[x].name = u /\ u \in DOMAIN db /\ Abstract!Online(u)
      /\ IsUser(db[u], heap, Owned(o, x), x)
      /\ scan \in Owned(o, x) \cup {Nil}
      /\ \A d \in Owned(o, x) : heap[d].name = f => Ahead(r, d, scan)
  BY <1>1, <1>3, FoundKnown, AtFiles DEF Abstract!Known, AtFile
<1>5. DOMAIN db[u].files = {heap[d].name : d \in Owned(o, x)}
  BY <1>4 DEF IsUser, IsFiles
<1>6. scan = Nil => f \notin DOMAIN db[u].files
  BY <1>4, <1>5 DEF Ahead
<1>7. CASE scan # Nil /\ heap[scan].name = req[t].file /\ Refuse(t, 3)
  <2>1. Abstract!Refused(t, 3) /\ UNCHANGED req
    BY <1>7, RefuseRefused
  <2>2. f \in DOMAIN db[u].files
    BY <1>3, <1>4, <1>5, <1>7
  <2>. QED BY <1>1, <1>2, <1>3, <1>4, <2>1, <2>2 DEF Abstract!Do, Abstract!Publish
<1>8. CASE scan = Nil /\ Refuse(t, 4)
  <2>1. Abstract!Refused(t, 4) /\ UNCHANGED req
    BY <1>8, RefuseRefused
  <2>. QED BY <1>1, <1>2, <1>3, <1>4, <1>6, <1>8, <2>1 DEF Abstract!Do, Abstract!Publish
<1>9. ASSUME scan = Nil, NEW c \in FreeCells, AddsFile(t, c), Leave(t, 0), UNCHANGED <<messages, reply>>
      PROVE  Abstract!Do(t)
  <2>1. PICK p \in Owner : \E q \in Rank : \E y :
           /\ Shape(p, q)'
           /\ y = current /\ FilesOnly(o, r, p, q, y) /\ heap'[y].addr = heap[y].addr
           /\ Owned(p, y)' = Owned(o, y) \cup {c} /\ \A d \in Owned(o, y) : heap'[d] = heap[d]
           /\ heap'[c].name = req[t].file /\ heap'[c].desc = req[t].desc
           /\ \A d \in Owned(o, y) : heap[d].name # req[t].file
    BY <1>1, <1>9, RegisterFileShape
  <2>2. PICK q \in Rank :
           /\ Shape(p, q)'
           /\ FilesOnly(o, r, p, q, x) /\ heap'[x].addr = heap[x].addr
           /\ Owned(p, x)' = Owned(o, x) \cup {c} /\ \A d \in Owned(o, x) : heap'[d] = heap[d]
           /\ heap'[c].name = f /\ heap'[c].desc = req[t].desc
           /\ \A d \in Owned(o, x) : heap[d].name # f
    BY <1>3, <2>1
  <2>3. ~ Crash /\ pc'[t] = "return" /\ \A s \in Thread : s # t => pc'[s] = pc[s]
    BY <1>1, <1>9, LeaveFacts
  <2>4. (\A s \in Thread : pc[s] # "free") /\ (\A s \in Thread : pc'[s] # "free")
    BY <1>1, <2>3, AtFiles
  <2>5. Inv(p, q)'
    BY <1>1, <2>2, <2>3, AfterStep
  <2>6. PICK g : g = Abstract!With(db[u].files, f, req[t].desc)
    OBVIOUS
  <2>7. IsFiles(g, heap', Owned(p, x)')
    <3>1. PICK S : S = Owned(o, x)
      OBVIOUS
    <3>2. IsFiles(db[u].files, heap, S)
      BY <1>4, <3>1 DEF IsUser
    <3>3. \A d \in S : /\ heap'[d].name = heap[d].name /\ heap'[d].desc = heap[d].desc
                       /\ heap[d].name # heap'[c].name
      BY <2>2, <3>1
    <3>4. IsFiles(Abstract!With(db[u].files, heap'[c].name, heap'[c].desc), heap', S \cup {c})
      BY <3>2, <3>3, FilesAdd
    <3>. QED BY <2>2, <2>6, <3>1, <3>4
  <2>8. PICK v : v = [db[u] EXCEPT !.files = g]
    OBVIOUS
  <2>9. v = [addr |-> heap[x].addr, files |-> g]
    BY <1>4, <2>8 DEF IsUser
  <2>10. IsUser(v, heap', Owned(p, x)', x)
    BY <2>2, <2>7, <2>9 DEF IsUser
  <2>11. db' = [db EXCEPT ![heap[x].name] = v]
    <3>1. x \in Listed /\ FilesOnly(o, r, p, q, x)
      BY <1>4, <2>2
    <3>. QED BY <2>4, <2>5, <2>10, <3>1, UserChanges
  <2>12. db' = [db EXCEPT ![u].files = Abstract!With(@, f, req[t].desc)]
    BY <1>4, <2>6, <2>8, <2>11
  <2>13. Abstract!Answered(t, 0, {}) /\ UNCHANGED req
    BY <1>9, LeaveAnswers
  <2>. QED BY <1>1, <1>2, <1>3, <1>4, <1>6, <1>9, <2>12, <2>13 DEF Abstract!Do, Abstract!Publish
<1>. QED BY <1>7, <1>8, <1>9 DEF RegisterFile, AddsFile

\* DELETE takes the file away, or refuses as the registry does.
LEMMA DeleteDoes ==
  ASSUME NEW o, NEW r, Inv(o, r), Follows, NEW t \in Thread, UnregisterFile(t)
  PROVE  Abstract!Do(t)
<1>1. /\ pc[t] = "file" /\ At(t, "file") /\ alive /\ pc[t] \in Section \ {"free"} /\ req[t].op = "DELETE"
      /\ Operation(t) /\ db = Db
  BY DEF UnregisterFile, At, Asks, Section, Operation, Follows
<1>2. req[t] # Nil /\ ans[t] = Nil
  BY <1>1, Pending
<1>3. PICK x, u, f : x = current /\ u = req[t].user /\ f = req[t].file
  OBVIOUS
<1>4. /\ x \in Listed /\ heap[x].name = u /\ u \in DOMAIN db /\ Abstract!Online(u)
      /\ IsUser(db[u], heap, Owned(o, x), x)
      /\ scan \in Owned(o, x) \cup {Nil}
      /\ \A d \in Owned(o, x) : heap[d].name = f => Ahead(r, d, scan)
  BY <1>1, <1>3, FoundKnown, AtFiles DEF Abstract!Known, AtFile
<1>5. DOMAIN db[u].files = {heap[d].name : d \in Owned(o, x)}
  BY <1>4 DEF IsUser, IsFiles
<1>6. CASE scan = Nil /\ Refuse(t, 3)
  <2>1. Abstract!Refused(t, 3) /\ UNCHANGED req
    BY <1>6, RefuseRefused
  <2>2. f \notin DOMAIN db[u].files
    BY <1>4, <1>5, <1>6 DEF Ahead
  <2>. QED BY <1>1, <1>2, <1>3, <1>4, <2>1, <2>2 DEF Abstract!Do, Abstract!Delete
<1>7. CASE /\ scan # Nil /\ heap[scan].name = req[t].file /\ DropsFile
           /\ Leave(t, 0) /\ UNCHANGED <<messages, reply>>
  <2>1. Shape(o, r)'
    BY <1>1, <1>7, UnregisterFileShape
  <2>2. PICK c : /\ FilesOnly(o, r, o, r, x) /\ heap'[x].addr = heap[x].addr
                 /\ c = scan /\ c \in Owned(o, x) /\ Owned(o, x)' = Owned(o, x) \ {c}
                 /\ \A d \in Owned(o, x) \ {c} :
                      heap'[d].name = heap[d].name /\ heap'[d].desc = heap[d].desc
    BY <1>1, <1>3, <1>7, UnregisterFileShape
  <2>3. ~ Crash /\ pc'[t] = "return" /\ \A s \in Thread : s # t => pc'[s] = pc[s]
    BY <1>1, <1>7, LeaveFacts
  <2>4. (\A s \in Thread : pc[s] # "free") /\ (\A s \in Thread : pc'[s] # "free")
    BY <1>1, <2>3, AtFiles
  <2>5. Inv(o, r)'
    BY <1>1, <2>1, <2>3, AfterStep DEF Inv
  <2>6. PICK g : g = Abstract!Without(db[u].files, f)
    OBVIOUS
  <2>7. heap[c].name = f
    BY <1>3, <1>7, <2>2
  <2>8. IsFiles(g, heap', Owned(o, x)')
    <3>1. PICK S : S = Owned(o, x)
      OBVIOUS
    <3>2. IsFiles(db[u].files, heap, S) /\ Differ(heap, S)
      BY <1>1, <1>4, <3>1, DbShows DEF IsUser
    <3>3. IsFiles(Abstract!Without(db[u].files, heap[c].name), heap', S \ {c})
      BY <2>2, <3>1, <3>2, FilesDrop
    <3>. QED BY <2>2, <2>6, <2>7, <3>1, <3>3
  <2>9. PICK v : v = [db[u] EXCEPT !.files = g]
    OBVIOUS
  <2>10. v = [addr |-> heap[x].addr, files |-> g]
    BY <1>4, <2>9 DEF IsUser
  <2>11. IsUser(v, heap', Owned(o, x)', x)
    BY <2>2, <2>8, <2>10 DEF IsUser
  <2>12. db' = [db EXCEPT ![heap[x].name] = v]
    BY <1>4, <2>2, <2>4, <2>5, <2>11, UserChanges
  <2>13. db' = [db EXCEPT ![u].files = Abstract!Without(@, f)]
    BY <1>4, <2>6, <2>9, <2>12
  <2>14. Abstract!Answered(t, 0, {}) /\ UNCHANGED req
    BY <1>7, LeaveAnswers
  <2>15. f \in DOMAIN db[u].files
    BY <1>5, <2>2, <2>7
  <2>. QED BY <1>1, <1>2, <1>3, <1>4, <2>13, <2>14, <2>15 DEF Abstract!Do, Abstract!Delete
<1>. QED BY <1>6, <1>7 DEF UnregisterFile, DropsFile

\* REGISTER adds the user, or refuses as the registry does.
LEMMA RegisterDoes ==
  ASSUME NEW o, NEW r, Inv(o, r), Follows, NEW t \in Thread, RegisterUser(t)
  PROVE  Abstract!Do(t)
<1>1. /\ pc[t] \in {"found", "absent"} /\ alive /\ pc[t] \in Section \ {"free"} /\ req[t].op = "REGISTER"
      /\ Operation(t) /\ db = Db
  BY DEF RegisterUser, Found, At, Asks, Section, Operation, Follows
<1>2. req[t] # Nil /\ ans[t] = Nil
  BY <1>1, Pending
<1>3. CASE pc[t] = "found" /\ Refuse(t, 1)
  <2>1. Abstract!Refused(t, 1) /\ UNCHANGED req
    BY <1>3, RefuseRefused
  <2>. QED BY <1>1, <1>2, <1>3, <2>1, FoundKnown DEF Abstract!Do, Abstract!Register
<1>4. CASE pc[t] = "absent" /\ Refuse(t, -1)
  <2>1. Abstract!Refused(t, -1) /\ UNCHANGED req
    BY <1>4, RefuseRefused
  <2>. QED BY <1>1, <1>2, <1>4, <2>1, AbsentUnknown DEF Abstract!Do, Abstract!Register
<1>5. ASSUME At(t, "absent"), NEW c \in FreeCells, AddsUser(t, c), Leave(t, 0)
      PROVE  Abstract!Do(t)
  <2>1. pc[t] = "absent"
    BY <1>5 DEF At
  <2>2. PICK N, F, u : N = Listed /\ F = Belongings(o) /\ u = req[t].user
    OBVIOUS
  <2>3. ~ Abstract!Known(u) /\ \A n \in N : heap[n].name # u
    BY <1>1, <2>1, <2>2, AbsentUnknown
  <2>4. PICK q \in Rank : Shape(o, q)'
    BY <1>1, <1>5, RegisterUserShape
  <2>5. ~ Crash /\ pc'[t] = "return" /\ \A s \in Thread : s # t => pc'[s] = pc[s]
    BY <1>1, <1>5, LeaveFacts
  <2>6. (\A s \in Thread : pc[s] # "free") /\ (\A s \in Thread : pc'[s] # "free")
    BY <2>1, <2>5, Walks
  <2>7. Inv(o, q)'
    BY <1>1, <2>4, <2>5, AfterStep DEF Inv
  <2>8. /\ c \in Cell /\ heap[c].kind = "free"
        /\ \A d \in Cell : d # c => heap'[d] = heap[d]
        /\ heap'[c] = [kind |-> "node", name |-> u, addr |-> Nil, list_files |-> Nil, next |-> messages]
    BY <1>5, <2>2 DEF FreeCells, Free, AddsUser, Inv, HeapTypes
  <2>9. heap'[c].kind = "node" /\ heap'[c].name = u /\ heap'[c].addr = Nil
    BY <2>8
  <2>10. Listed' = N \cup {c} /\ \A n \in N : n \in Cell /\ n # c
    <3>1. Kind("node")' = Kind("node") \cup {c} /\ c \notin Kind("node")
      BY <2>8, <2>9 DEF Kind
    <3>2. Listed = Kind("node") /\ Listed' = Kind("node")'
      <4>1. Doomed' = {}
        BY <2>6 DEF Doomed
      <4>. QED BY <2>6, <4>1, NothingDoomed DEF Listed
    <3>. QED BY <2>2, <3>1, <3>2 DEF Kind
  <2>11. PICK E : E = Belongings(o)'
    OBVIOUS
  <2>12. E[c] = {} /\ \A n \in N : E[n] = F[n] /\ \A f \in F[n] : heap'[f] = heap[f]
    <3>1. Kind("file")' = Kind("file") /\ c \notin Kind("file")
      BY <2>8, <2>9 DEF Kind
    <3>2. \A n : Owned(o, n)' = Owned(o, n)
      BY <3>1 DEF Owned
    <3>3. \A n \in Cell : E[n] = Owned(o, n) /\ F[n] = Owned(o, n)
      BY <2>2, <2>11, <3>2 DEF Belongings
    <3>4. Owned(o, c) = {}
      <4>1. FilesSound(o, r) /\ c \notin Kind("node")
        BY <2>8 DEF Inv, Shape, Kind
      <4>. QED BY <4>1 DEF FilesSound, Owned
    <3>5. \A n : \A f \in Owned(o, n) : heap'[f] = heap[f]
      BY <2>8, <3>1 DEF Owned, Kind
    <3>. QED BY <2>8, <2>10, <3>3, <3>4, <3>5
  <2>13. PICK v : v = [addr |-> Nil, files |-> << >>]
    OBVIOUS
  <2>14. IsUser(v, heap', E[c], c)
    BY <2>9, <2>12, <2>13 DEF IsUser, IsFiles
  <2>15. \A n \in N : heap'[n] = heap[n]
    BY <2>8, <2>10
  <2>16. ASSUME NEW n \in N, NEW y, IsUser(y, heap, F[n], n) PROVE IsUser(y, heap', E[n], n)
    <3>1. IsFiles(y.files, heap', E[n])
      BY <2>12, <2>16, FilesSame DEF IsUser
    <3>. QED BY <2>15, <2>16, <3>1 DEF IsUser
  <2>17. IsUsers(db, heap, N, F)
    BY <1>1, <2>2, DbShows
  <2>18. IsUsers(Abstract!With(db, heap'[c].name, v), heap', N \cup {c}, E)
    <3>1. \A n \in N : heap'[n].name = heap[n].name /\ heap[n].name # heap'[c].name
      BY <2>3, <2>9, <2>15
    <3>. QED BY <2>14, <2>16, <2>17, <3>1, UsersAdd
  <2>19. db' = Abstract!With(db, u, v)
    <3>1. IsUsers(Abstract!With(db, u, v), heap', Listed', Belongings(o)')
      BY <2>9, <2>10, <2>11, <2>18
    <3>. QED BY <2>7, <3>1, DbAfter
  <2>20. Abstract!Answered(t, 0, {}) /\ UNCHANGED req
    BY <1>5, LeaveAnswers
  <2>. QED BY <1>1, <1>2, <2>2, <2>3, <2>13, <2>19, <2>20 DEF Abstract!Do, Abstract!Register
<1>. QED BY <1>3, <1>4, <1>5 DEF RegisterUser, AddsUser, Found, At

\* UNREGISTER takes the user out of the registry when its node is unlinked, before
\* its files are freed.
LEMMA UnregisterDoes ==
  ASSUME NEW o, NEW r, Inv(o, r), Follows, NEW t \in Thread, Unlink(t)
  PROVE  Abstract!Do(t)
<1>1. /\ pc[t] = "found" /\ pc[t] \in Section \ {"free"} /\ req[t].op = "UNREGISTER"
      /\ Operation(t) /\ db = Db /\ Settle(t, 0, {}) /\ Goto(t, "free")
      /\ UNCHANGED <<mutex, req, current>>
  BY DEF Unlink, Found, At, Asks, Section, Operation, Follows
<1>2. req[t] # Nil /\ ans[t] = Nil /\ mutex = t /\ t # Nil
  BY <1>1, Pending, Section1, NilAssumption
<1>3. PICK N, F, E, x : N = Listed /\ F = Belongings(o) /\ E = Belongings(o)' /\ x = current
  OBVIOUS
<1>4. x \in N /\ heap[x].name = req[t].user /\ Abstract!Known(req[t].user)
  BY <1>1, <1>3, FoundKnown
<1>5. ~ Crash
  BY <1>1, <1>2 DEF Crash
<1>6. Inv(o, r)'
  <2>1. Shape(o, r)'
    BY UnlinkShape
  <2>. QED BY <1>1, <1>5, <2>1, AfterStep DEF Inv
<1>7. /\ \A c \in Cell : heap'[c].kind = heap[c].kind
      /\ \A n \in N : heap'[n].name = heap[n].name /\ heap'[n].addr = heap[n].addr
      /\ \A c \in Kind("file") : heap'[c] = heap[c]
  <2>1. /\ \A n \in N : n \in Cell /\ n # Nil /\ heap[n].kind = "node" /\ heap[n] \in Node
        /\ previous \in N \cup {Nil} /\ heap \in [Cell -> Content]
    BY <1>1, <1>3, Members, Walks DEF Inv, HeapTypes
  <2>2. CASE previous = Nil
    <3>1. heap' = heap
      BY <2>2 DEF Unlink
    <3>. QED BY <3>1
  <2>3. CASE previous # Nil
    <3>1. heap' = [heap EXCEPT ![previous].next = heap[current].next]
      BY <2>3 DEF Unlink
    <3>2. PICK b : b = previous
      OBVIOUS
    <3>3. /\ b \in N /\ heap'[b] = [heap[b] EXCEPT !.next = heap[current].next]
          /\ \A c \in Cell : c # b => heap'[c] = heap[c]
      BY <2>1, <2>3, <3>1, <3>2
    <3>4. heap'[b].kind = "node" /\ heap'[b].name = heap[b].name /\ heap'[b].addr = heap[b].addr
      BY <2>1, <3>3 DEF Node
    <3>. QED BY <2>1, <3>3, <3>4 DEF Kind
  <2>. QED BY <2>2, <2>3
<1>8. Listed' = N \ {x}
  <2>1. \A k : Kind(k)' = Kind(k)
    BY <1>7 DEF Kind
  <2>2. \A s \in Thread : pc[s] # "free"
    BY <1>1, Walks
  <2>3. pc'[t] = "free"
    BY <1>1 DEF Goto, Inv, HeapTypes
  <2>4. Doomed' = {x} \cap Cell
    BY <1>1, <1>3, <2>3 DEF Doomed
  <2>5. N = Kind("node")
    BY <1>3, <2>2, NothingDoomed
  <2>. QED BY <2>1, <2>4, <2>5 DEF Listed, Kind
<1>9. \A n \in N : E[n] = F[n] /\ \A f \in F[n] : heap'[f] = heap[f]
  <2>1. Kind("file")' = Kind("file")
    BY <1>7 DEF Kind
  <2>2. \A n : Owned(o, n)' = Owned(o, n)
    BY <2>1 DEF Owned
  <2>3. \A n \in Cell : E[n] = Owned(o, n) /\ F[n] = Owned(o, n)
    BY <1>3, <2>2 DEF Belongings
  <2>. QED BY <1>3, <1>7, <2>3 DEF Owned, Listed, Kind
<1>10. ASSUME NEW n \in N, NEW y, IsUser(y, heap, F[n], n) PROVE IsUser(y, heap', E[n], n)
  <2>1. IsFiles(y.files, heap', E[n])
    BY <1>9, <1>10, FilesSame DEF IsUser
  <2>. QED BY <1>7, <1>10, <2>1 DEF IsUser
<1>11. IsUsers(db, heap, N, F) /\ Differ(heap, N)
  BY <1>1, <1>3, DbShows
<1>12. IsUsers(Abstract!Without(db, heap[x].name), heap', N \ {x}, E)
  BY <1>4, <1>7, <1>10, <1>11, UsersDrop
<1>13. db' = Abstract!Without(db, req[t].user)
  <2>1. IsUsers(Abstract!Without(db, req[t].user), heap', Listed', Belongings(o)')
    BY <1>3, <1>4, <1>8, <1>12
  <2>. QED BY <1>6, <2>1, DbAfter
<1>14. Abstract!Answered(t, 0, {})
  BY <1>1 DEF Settle, Abstract!Answered
<1>. QED BY <1>1, <1>2, <1>4, <1>13, <1>14 DEF Abstract!Do, Abstract!Unregister

\* A listing shows the registry as it is when list.c has filled it in.
LEMMA FillEndDoes ==
  ASSUME NEW o, NEW r, Inv(o, r), Follows, NEW t \in Thread, FillEnd(t)
  PROVE  Abstract!Do(t)
<1>1. /\ pc[t] = "fill" /\ scan = Nil /\ pc[t] \in Section \ {"free"} /\ db = Db
      /\ UNCHANGED <<heap, messages, req>>
  BY DEF FillEnd, At, Section, Follows, Unlock
<1>2. req[t] # Nil /\ ans[t] = Nil
  BY <1>1, Pending
<1>3. db' = db
  BY <1>1, DbKept
<1>4. PICK out : out = Displayed(Entries(o, t))
  OBVIOUS
<1>5. Abstract!Answered(t, 0, out)
  BY <1>1, <1>4, Filled DEF FillEnd, Settle, Abstract!Answered
<1>6. /\ AtFill(o, t) /\ Filling(o, r, t) /\ current \in Listed
      /\ req[t].op \in {"LIST_USERS", "LIST_CONTENT"}
  BY <1>1, Fills
<1>7. Abstract!Online(req[t].user)
  BY <1>1, <1>6, AskerOnline DEF AtFill
<1>8. \A S : Passed(r, S) = S
  BY <1>1 DEF Passed, Ahead
<1>9. CASE req[t].op = "LIST_USERS"
  <2>1. PICK N : N = Listed
    OBVIOUS
  <2>2. out = {[name |-> heap[n].name, addr |-> heap[n].addr] : n \in {m \in N : heap[m].addr # Nil}}
    BY <1>4, <1>6, <1>8, <1>9, <2>1 DEF Filling, Asks, Copies
  <2>3. DOMAIN db = {heap[n].name : n \in N}
    BY <1>1, <2>1, DbShows
  <2>4. \A n \in N : /\ Abstract!Online(heap[n].name) <=> heap[n].addr # Nil
                     /\ db[heap[n].name].addr = heap[n].addr
    <3>1. ASSUME NEW n \in N
          PROVE  /\ Abstract!Online(heap[n].name) <=> heap[n].addr # Nil
                 /\ IsUser(db[heap[n].name], heap, Owned(o, n), n)
      BY <1>1, <2>1, ListedKnown
    <3>2. \A v, h, S, n : IsUser(v, h, S, n) => v.addr = h[n].addr
      <4>1. SUFFICES ASSUME NEW v, NEW h, NEW S, NEW n, IsUser(v, h, S, n) PROVE v.addr = h[n].addr
        OBVIOUS
      <4>2. v = [addr |-> h[n].addr, files |-> v.files]
        BY <4>1 DEF IsUser
      <4>3. [addr |-> h[n].addr, files |-> v.files].addr = h[n].addr
        OBVIOUS
      <4>. QED BY <4>2, <4>3
    <3>. QED BY <3>1, <3>2
  <2>5. out = {[name |-> v, addr |-> db[v].addr] : v \in {w \in DOMAIN db : Abstract!Online(w)}}
    BY <2>2, <2>3, <2>4
  <2>. QED BY <1>1, <1>2, <1>3, <1>5, <1>7, <1>9, <2>5 DEF Abstract!Do, Abstract!ListUsers
<1>10. CASE req[t].op = "LIST_CONTENT"
  <2>1. PICK x, S, v : x = current /\ S = Owned(o, x) /\ v = req[t].other
    OBVIOUS
  <2>2. out = {[name |-> heap[c].name, desc |-> heap[c].desc] : c \in S}
    BY <1>4, <1>6, <1>8, <1>10, <2>1 DEF Filling, Asks, FileCopies
  <2>3. x \in Listed /\ heap[x].name = v
    BY <1>6, <1>10, <2>1 DEF AtFill, Asks
  <2>4. Abstract!Known(v) /\ IsFiles(db[v].files, heap, S)
    BY <1>1, <2>1, <2>3, ListedKnown DEF IsUser
  <2>5. PICK g : g = db[v].files
    OBVIOUS
  <2>6. out = {[name |-> f, desc |-> g[f]] : f \in DOMAIN g}
    BY <2>2, <2>4, <2>5 DEF IsFiles
  <2>. QED BY <1>1, <1>2, <1>3, <1>5, <1>7, <1>10, <2>1, <2>4, <2>5, <2>6
           DEF Abstract!Do, Abstract!ListContent
<1>. QED BY <1>6, <1>9, <1>10

\* list_content answers when it finds no such user, or one with no files.
LEMMA TargetDoes ==
  ASSUME NEW o, NEW r, Inv(o, r), Follows, NEW t \in Thread, Target(t)
  PROVE  Abstract!Do(t) \/ UNCHANGED <<db, req, ans>>
<1>1. pc[t] = "target" /\ pc[t] \in Section \ {"free"} /\ db = Db
  BY DEF Target, At, Section, Follows
<1>2. /\ req[t] # Nil /\ ans[t] = Nil /\ req[t].op = "LIST_CONTENT"
      /\ current \in Listed \cup {Nil}
      /\ \A n \in Listed : heap[n].name = req[t].other => Ahead(r, n, current)
      /\ Asker(t)
  BY <1>1, Pending, AtOthers, Section1 DEF Control, Asks, AtTarget
<1>3. Abstract!Online(req[t].user)
  BY <1>1, <1>2, AskerOnline
<1>4. CASE current = Nil /\ Refuse(t, 3)
  <2>1. Abstract!Refused(t, 3) /\ UNCHANGED req
    BY <1>4, RefuseRefused
  <2>2. PICK v : v = req[t].other
    OBVIOUS
  <2>3. ~ Abstract!Known(v)
    BY <1>1, <1>2, <1>4, <2>2, OthersUnknown DEF Ahead
  <2>. QED BY <1>2, <1>3, <2>1, <2>2, <2>3 DEF Abstract!Do, Abstract!ListContent
<1>5. CASE UNCHANGED <<heap, messages, req, ans>>
  BY <1>5, DbKept
<1>6. CASE /\ current # Nil /\ heap[current].name = req[t].other /\ heap[current].list_files = Nil
           /\ Settle(t, 0, {}) /\ Unlock(t, "send") /\ UNCHANGED <<heap, messages>>
  <2>1. db' = db /\ Abstract!Answered(t, 0, {}) /\ UNCHANGED req
    BY <1>6, DbKept DEF Settle, Unlock, Abstract!Answered
  <2>2. PICK x, S, v : x = current /\ S = Owned(o, x) /\ v = req[t].other
    OBVIOUS
  <2>3. Abstract!Known(v) /\ IsFiles(db[v].files, heap, S)
    BY <1>1, <1>2, <1>6, <2>2, ListedKnown DEF IsUser
  <2>4. S = {}
    <3>1. x \in Kind("node") /\ FilesSound(o, r)
      BY <1>2, <1>6, <2>2 DEF Inv, Shape, Listed
    <3>2. FirstFile(x) = Nil
      BY <1>1, <1>6, <2>2, Section2
    <3>. QED BY <2>2, <3>1, <3>2 DEF FilesSound, IsList
  <2>5. PICK g : g = db[v].files
    OBVIOUS
  <2>6. {[name |-> f, desc |-> g[f]] : f \in DOMAIN g} = {}
    BY <2>3, <2>4, <2>5 DEF IsFiles
  <2>. QED BY <1>2, <1>3, <2>1, <2>2, <2>3, <2>5, <2>6 DEF Abstract!Do, Abstract!ListContent
<1>. QED BY <1>4, <1>5, <1>6 DEF Target

\* The steps that are not seen: the walks, the filling in, and the freeing of what was
\* taken out.
LEMMA Unseen ==
  ASSUME NEW o, NEW r, Inv(o, r), Follows, NEW t \in Thread,
         \/ Lock(t) \/ Find(t) \/ Files(t) \/ FindFile(t) \/ ListUsers(t) \/ ListContent(t)
         \/ Skip(t) \/ Fill(t) \/ FreeFile(t) \/ FreeNode(t)
  PROVE  UNCHANGED <<db, req, ans>>
<1>1. CASE \/ Lock(t) \/ Find(t) \/ Files(t) \/ FindFile(t) \/ ListUsers(t) \/ ListContent(t) \/ Skip(t)
  <2>1. UNCHANGED <<heap, messages, req, ans>>
    BY <1>1 DEF Lock, Find, Files, FindFile, ListUsers, ListContent, Skip
  <2>. QED BY <2>1, DbKept
<1>2. CASE Fill(t)
  <2>1. UNCHANGED <<messages, req, ans>>
    BY <1>2 DEF Fill
  <2>2. \A d \in Kind("node") \cup Kind("file") : heap'[d] = heap[d]
    <3>1. PICK c : /\ c \in FreeCells \cup {Nil} /\ tail \in Mine(o, t)
                   /\ \A d \in Cell \ {tail, c} : heap'[d] = heap[d]
      BY <1>2, FillCells
    <3>2. tail \notin Kind("node") \cup Kind("file") /\ c \notin Kind("node") \cup Kind("file")
      BY <3>1, CellAssumption DEF Mine, Kind, FreeCells, Free
    <3>. QED BY <3>1, <3>2 DEF Kind
  <2>3. (\A c \in Listed : heap'[c] = heap[c]) /\ \A n \in Listed : \A c \in Owned(o, n) : heap'[c] = heap[c]
    BY <2>2 DEF Listed, Owned
  <2>4. Db' = Db
    BY <2>1, <2>3, DbStays
  <2>. QED BY <2>1, <2>4 DEF Follows
<1>3. CASE FreeFile(t) \/ FreeNode(t)
  <2>1. pc[t] = "free" /\ UNCHANGED <<messages, req, ans>>
    BY <1>3 DEF FreeFile, FreeNode, At, Unlock
  <2>2. current \in Kind("node") /\ Doomed = {current} /\ scan \in Owned(o, current) \cup {Nil}
    BY <2>1, Frees
  <2>3. PICK x, f : x = current /\ f \in {current} \cup Owned(o, current) /\ heap' = [heap EXCEPT ![f] = Free]
    BY <1>3, <2>2 DEF FreeFile, FreeNode
  <2>4. \A c \in Cell : c # f => heap'[c] = heap[c]
    BY <2>3 DEF Inv, HeapTypes
  <2>5. \A n \in Listed : n # x /\ n # f /\ n \in Cell
    BY <2>2, <2>3 DEF Listed, Owned, Kind
  <2>6. \A n \in Listed : \A c \in Owned(o, n) : c # f /\ c \in Cell
    BY <2>2, <2>3, <2>5 DEF Owned, Kind
  <2>7. Db' = Db
    BY <2>1, <2>4, <2>5, <2>6, DbStays
  <2>. QED BY <2>1, <2>7 DEF Follows
<1>. QED BY <1>1, <1>2, <1>3

\* A crash stops the service.
LEMMA CrashStops ==
  ASSUME Follows, Crash
  PROVE  Abstract!Stop
<1>1. Blank'
  BY DEF Crash, Blank
<1>2. Db' = << >>
  BY <1>1, BlankDbNext
<1>. QED BY <1>2 DEF Follows, Crash, Abstract!Stop

\* The calls and returns of the registry are those of list.c; what is sent in between is
\* not seen.
LEMMA OutsideDoes ==
  ASSUME NEW o, NEW r, Inv(o, r), Follows, NEW t \in Thread,
         (\E q \in Calls[t] : Call(t, q)) \/ Send(t) \/ SendEnd(t) \/ Return(t)
  PROVE  Abstract!Call(t) \/ Abstract!Return(t) \/ UNCHANGED <<db, req, ans>>
<1>1. Control(t)
  BY DEF Inv, Controls
<1>2. ASSUME NEW q \in Calls[t], Call(t, q) PROVE Abstract!Call(t)
  <2>1. q \in Request /\ req[t] = Nil /\ req' = [req EXCEPT ![t] = q] /\ UNCHANGED <<messages, ans>>
    BY <1>1, <1>2, CellAssumption DEF Call, At, Control
  <2>2. \A d \in Kind("node") \cup Kind("file") : heap'[d] = heap[d]
    BY <1>2, CellAssumption DEF Call, FreeCells, Free, Kind
  <2>3. (\A c \in Listed : heap'[c] = heap[c]) /\ \A n \in Listed : \A c \in Owned(o, n) : heap'[c] = heap[c]
    BY <2>2 DEF Listed, Owned
  <2>4. Db' = Db
    BY <2>1, <2>3, DbStays
  <2>. QED BY <2>1, <2>4 DEF Follows, Abstract!Call, Abstract!Request, Request
<1>3. CASE Send(t) \/ SendEnd(t)
  <2>1. UNCHANGED <<heap, messages, req, ans>>
    BY <1>3 DEF Send, SendEnd
  <2>. QED BY <2>1, DbKept
<1>4. CASE Return(t)
  <2>1. /\ ans[t] # Nil /\ messages' = messages
        /\ req' = [req EXCEPT ![t] = Nil] /\ ans' = [ans EXCEPT ![t] = Nil]
    BY <1>1, <1>4 DEF Return, At, Control
  <2>2. \A d \in Kind("node") \cup Kind("file") : heap'[d] = heap[d]
    BY <1>4 DEF Return, Kind
  <2>3. (\A c \in Listed : heap'[c] = heap[c]) /\ \A n \in Listed : \A c \in Owned(o, n) : heap'[c] = heap[c]
    BY <2>2 DEF Listed, Owned
  <2>4. Db' = Db
    BY <2>1, <2>3, DbStays
  <2>. QED BY <2>1, <2>4 DEF Follows, Abstract!Return
<1>. QED BY <1>2, <1>3, <1>4

-----------------------------------------------------------------------------
(* The list in memory implements the registry.                             *)

\* A step of the service.
Service == Abstract!Next \/ Abstract!Stop \/ \E t \in Thread : Abstract!Abandon(t)

\* What list.c does is what the registry does.
LEMMA OperationDoes ==
  ASSUME NEW o, NEW r, Inv(o, r), Follows, NEW t \in Thread, Operation(t)
  PROVE  Abstract!Do(t) \/ Abstract!Stop \/ UNCHANGED <<db, req, ans>>
<1>1. CASE \/ Lock(t) \/ Find(t) \/ Files(t) \/ FindFile(t) \/ ListUsers(t) \/ ListContent(t)
           \/ Skip(t) \/ Fill(t) \/ FreeFile(t) \/ FreeNode(t)
  BY <1>1, Unseen
<1>2. CASE Absent(t) \/ Offline(t)
  BY <1>2, AbsentDoes, OfflineDoes
<1>3. CASE RegisterUser(t) \/ Unlink(t) \/ ConnectUser(t) \/ DisconnectUser(t)
  BY <1>3, RegisterDoes, UnregisterDoes, ConnectDoes, DisconnectDoes
<1>4. CASE RegisterFile(t) \/ UnregisterFile(t)
  BY <1>4, PublishDoes, DeleteDoes
<1>5. CASE Target(t) \/ FillEnd(t)
  BY <1>5, TargetDoes, FillEndDoes
<1>6. CASE FillNothing(t)
  BY <1>6, CrashStops DEF FillNothing
<1>. QED BY <1>1, <1>2, <1>3, <1>4, <1>5, <1>6 DEF Operation

\* db keeps showing the cells.
LEMMA DbFollows ==
  ASSUME HeapInv, db = Db, [NextDb]_<<vars, db>>
  PROVE  Follows
<1>1. PICK o, r : Inv(o, r)
  BY DEF HeapInv, Inv
<1>2. CASE UNCHANGED <<heap, messages>> /\ db' = db
  <2>1. Db' = Db
    BY <1>1, <1>2, DbStays
  <2>. QED BY <1>2, <2>1 DEF Follows
<1>3. CASE db' = Db'
  BY <1>3 DEF Follows
<1>. QED BY <1>2, <1>3 DEF NextDb, Follow, vars

\* Every step is one of the service, or is not seen.
LEMMA HeapStep ==
  ASSUME HeapInv, db = Db, [NextDb]_<<vars, db>>
  PROVE  [Service]_(Abstract!vars)
<1>1. PICK o, r : Inv(o, r)
  BY DEF HeapInv, Inv
<1>2. Follows
  BY DbFollows
<1>3. ASSUME NEW t \in Thread, Operation(t) PROVE [Service]_(Abstract!vars)
  <2>1. Abstract!Do(t) \/ Abstract!Stop \/ UNCHANGED <<db, req, ans>>
    BY <1>1, <1>2, <1>3, OperationDoes
  <2>. QED BY <2>1 DEF Service, Abstract!Next, Abstract!vars
<1>4. ASSUME NEW t \in Thread,
             (\E q \in Calls[t] : Call(t, q)) \/ Send(t) \/ SendEnd(t) \/ Return(t)
      PROVE  [Service]_(Abstract!vars)
  <2>1. Abstract!Call(t) \/ Abstract!Return(t) \/ UNCHANGED <<db, req, ans>>
    BY <1>1, <1>2, <1>4, OutsideDoes
  <2>. QED BY <2>1 DEF Service, Abstract!Next, Abstract!vars
<1>5. CASE UNCHANGED <<vars, db>>
  BY <1>5 DEF vars, Abstract!vars
<1>. QED BY <1>3, <1>4, <1>5 DEF NextDb, Next

\* The list in memory implements the registry, for any number of cells, threads, names
\* and calls: each call takes effect at one instant between its call and its return, also
\* when it frees a user's files one after the other; a listing shows one state of the
\* registry; and a step that runs out of memory at an entry stops the process, which
\* nothing else does (list.c:343-350).
THEOREM HeapImplementsRegistry == SpecDb => Linearizable
<1>1. InitDb => HeapInv /\ db = Db /\ Abstract!Init
  <2>1. InitDb => Blank /\ db = Db
    BY DEF InitDb, Init, Blank
  <2>2. InitDb => Abstract!Init
    BY <2>1, BlankDb DEF Blank, Abstract!Init
  <2>. QED BY <2>1, <2>2, BlankInv
<1>2. HeapInv /\ db = Db /\ [NextDb]_<<vars, db>> => HeapInv' /\ (db = Db)'
  <2>1. [NextDb]_<<vars, db>> => [Next]_vars
    BY DEF NextDb, vars
  <2>. QED BY <2>1, HeapInductive, DbFollows DEF Follows
<1>3. HeapInv /\ db = Db /\ [NextDb]_<<vars, db>>
        => [Abstract!Next \/ Abstract!Stop \/ \E t \in Thread : Abstract!Abandon(t)]_(Abstract!vars)
  BY HeapStep DEF Service
<1>. QED BY <1>1, <1>2, <1>3, PTL DEF SpecDb, Linearizable, Abstract!ServiceSpec
====
