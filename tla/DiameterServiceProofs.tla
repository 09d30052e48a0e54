----------------------- MODULE DiameterServiceProofs -----------------------
(***************************************************************************)
(* Theorems about DiameterService, for any number of peers, connections,   *)
(* requests, workers and faults, and any size of the queue: the safety     *)
(* part of the refinement of Exchange, what the table of peers says of     *)
(* the connections, and that no request is lost without a fault.           *)
(***************************************************************************)
EXTENDS DiameterService, SequenceTheorems, FunctionTheorems,
        FiniteSetTheorems, TLAPS

\* No element twice.
Once(list) == \A i, j \in 1 .. Len(list) : list[i] = list[j] => i = j

\* The types of what the messages go through.
LinkType ==
  /\ conn \in [Conn -> Connection]
  /\ shared \in Seq(Request)
  /\ worker \in [Worker -> [batch : Seq(Request), msg : Request \cup {None}]]
  /\ inbound \in Seq(Request)
  /\ outbound \in [Addr -> Seq(Request)]
  /\ asked \in [Request -> Conn \cup {None}]
  /\ answered \in [Request -> Seq(Conn)]

\* Where a request, or its answer, may be.
InWorker(w, r) == worker[w].msg = r \/ r \in ToSet(worker[w].batch)

Leaving(r) == \/ \E a \in Addr : r \in ToSet(outbound[a])
              \/ \E c \in Conn : conn[c].out = r

OnItsWay(r) == \/ r \in ToSet(shared) \cup ToSet(inbound)
               \/ \E w \in Worker : InWorker(w, r)
               \/ Leaving(r)

\* It is at one place, unanswered; its answer only where its address leads to.
PlaceOf(r) ==
  /\ r \in ToSet(shared) => /\ r \notin ToSet(inbound)
                            /\ ~Leaving(r)
                            /\ \A w \in Worker : ~InWorker(w, r)
  /\ r \in ToSet(inbound) => /\ ~Leaving(r)
                             /\ \A w \in Worker : ~InWorker(w, r)
  /\ \A w \in Worker :
       InWorker(w, r) => /\ ~Leaving(r)
                         /\ \A v \in Worker : InWorker(v, r) => v = w
  /\ \A a \in Addr :
       r \in ToSet(outbound[a]) => /\ a = From(r)
                                   /\ \A c \in Conn : conn[c].out # r
  /\ \A c \in Conn :
       conn[c].out = r => /\ conn[c].addr = From(r)
                          /\ \A d \in Conn : conn[d].out = r => d = c
  /\ OnItsWay(r) => asked[r] # None /\ answered[r] = << >>

PlaceInv == \A r \in Request : PlaceOf(r)

\* And once at that place.
OnceInv ==
  /\ Once(shared)
  /\ Once(inbound)
  /\ \A w \in Worker : /\ Once(worker[w].batch)
                       /\ worker[w].msg \notin ToSet(worker[w].batch)
  /\ \A a \in Addr : Once(outbound[a])

NewInv ==
  \A c \in Conn :
    IF conn[c].at = "new" THEN conn[c].addr = None /\ conn[c].out = None
    ELSE conn[c].addr \in Addr

\* A connection keeps its address, which is that of its requests' answers.
AddrInv ==
  /\ NewInv
  /\ \A r \in Request :
       /\ asked[r] # None => conn[asked[r]].at # "new"
       /\ \/ answered[r] = << >>
          \/ \E c \in Conn : /\ answered[r] = << c >>
                             /\ asked[r] # None
                             /\ conn[c].at # "new"
                             /\ conn[c].addr = From(r)

Inv == LinkType /\ PlaceInv /\ OnceInv /\ AddrInv

-----------------------------------------------------------------------------
(***************************************************************************)
(* The sequence operations of the queues.                                  *)
(***************************************************************************)

LEMMA AppendFacts ==
  ASSUME NEW S, NEW list \in Seq(S), NEW x \in S
  PROVE  /\ Append(list, x) \in Seq(S)
         /\ ToSet(Append(list, x)) = ToSet(list) \cup {x}
         /\ Once(list) /\ x \notin ToSet(list) => Once(Append(list, x))
<1> DEFINE longer == Append(list, x)
           n == Len(list)
<1>1. /\ longer \in Seq(S) /\ n \in Nat /\ Len(longer) = n + 1
      /\ DOMAIN list = 1 .. n /\ DOMAIN longer = 1 .. n + 1
      /\ \A i \in 1 .. n : longer[i] = list[i]
      /\ longer[n + 1] = x
  BY AppendProperties, LenProperties
<1> HIDE DEF longer, n
<1>2. ToSet(longer) = ToSet(list) \cup {x}
  BY <1>1 DEF ToSet
<1>3. Once(list) /\ x \notin ToSet(list) => Once(longer)
  <2>1. \A i \in 1 .. n : x \notin ToSet(list) => list[i] # x
    BY <1>1 DEF ToSet
  <2>2. Len(list) = n
    BY DEF n
  <2>3. QED
    BY <1>1, <2>1, <2>2 DEF Once
<1>4. QED
  BY <1>1, <1>2, <1>3 DEF longer

LEMMA TailFacts ==
  ASSUME NEW S, NEW list \in Seq(S), list # << >>
  PROVE  /\ Head(list) \in S /\ Tail(list) \in Seq(S)
         /\ ToSet(list) = {Head(list)} \cup ToSet(Tail(list))
         /\ Once(list) => /\ Once(Tail(list))
                          /\ Head(list) \notin ToSet(Tail(list))
<1> DEFINE rest == Tail(list)
           n == Len(list)
<1>1. /\ Head(list) \in S /\ rest \in Seq(S)
      /\ n \in Nat \ {0} /\ Len(rest) = n - 1
      /\ DOMAIN list = 1 .. n /\ DOMAIN rest = 1 .. n - 1
      /\ \A i \in 1 .. n - 1 : rest[i] = list[i + 1]
      /\ Head(list) = list[1]
  BY HeadTailProperties, LenProperties, EmptySeq
<1>2. Len(list) = n
  OBVIOUS
<1> HIDE DEF rest, n
<1>3. ASSUME NEW i \in 1 .. n, i # 1
      PROVE  i - 1 \in 1 .. n - 1 /\ rest[i - 1] = list[i]
  <2>1. i - 1 \in 1 .. n - 1 /\ (i - 1) + 1 = i
    BY <1>1, <1>3
  <2>2. QED
    BY <1>1, <2>1
<1>4. ToSet(list) = {Head(list)} \cup ToSet(rest)
  <2>1. ASSUME NEW i \in 1 .. n
        PROVE  list[i] \in {Head(list)} \cup ToSet(rest)
    BY <1>1, <1>3 DEF ToSet
  <2>2. ASSUME NEW i \in 1 .. n - 1
        PROVE  i + 1 \in 1 .. n /\ rest[i] = list[i + 1]
    BY <1>1
  <2>3. Head(list) \in ToSet(list)
    BY <1>1 DEF ToSet
  <2>4. QED
    BY <1>1, <2>1, <2>2, <2>3 DEF ToSet
<1>5. ASSUME Once(list)
      PROVE  Once(rest) /\ Head(list) \notin ToSet(rest)
  <2>1. \A i \in 1 .. n - 1 : i + 1 \in 1 .. n /\ i + 1 # 1
    BY <1>1
  <2>2. 1 \in 1 .. n
    BY <1>1
  <2>3. QED
    BY <1>1, <1>2, <1>5, <2>1, <2>2 DEF Once, ToSet
<1>6. QED
  BY <1>1, <1>4, <1>5 DEF rest

LEMMA ConcatFacts ==
  ASSUME NEW S, NEW s \in Seq(S), NEW t \in Seq(S)
  PROVE  /\ s \o t \in Seq(S)
         /\ ToSet(s \o t) = ToSet(s) \cup ToSet(t)
         /\ Once(s) /\ Once(t) /\ ToSet(s) \cap ToSet(t) = {} => Once(s \o t)
<1> DEFINE both == s \o t
           m == Len(s)
           n == Len(t)
<1>1. /\ both \in Seq(S) /\ m \in Nat /\ n \in Nat /\ Len(both) = m + n
      /\ DOMAIN s = 1 .. m /\ DOMAIN t = 1 .. n
      /\ DOMAIN both = 1 .. m + n
      /\ \A i \in 1 .. m + n :
           both[i] = IF i <= m THEN s[i] ELSE t[i - m]
  BY ConcatProperties, LenProperties
<1>2. Len(s) = m /\ Len(t) = n
  OBVIOUS
<1> HIDE DEF both, m, n
<1>3. /\ \A i \in 1 .. m : i \in 1 .. m + n /\ both[i] = s[i]
      /\ \A i \in 1 .. n : m + i \in 1 .. m + n /\ both[m + i] = t[i]
  BY <1>1
<1>4. \A i \in 1 .. m + n :
        \/ i \in 1 .. m /\ both[i] = s[i]
        \/ i - m \in 1 .. n /\ both[i] = t[i - m]
  BY <1>1
<1>5. ToSet(both) = ToSet(s) \cup ToSet(t)
  <2>1. ASSUME NEW x \in ToSet(both)
        PROVE  x \in ToSet(s) \cup ToSet(t)
    BY <1>1, <1>4, <2>1 DEF ToSet
  <2>2. ASSUME NEW x \in ToSet(s)
        PROVE  x \in ToSet(both)
    BY <1>1, <1>3, <2>2 DEF ToSet
  <2>3. ASSUME NEW x \in ToSet(t)
        PROVE  x \in ToSet(both)
    <3>1. PICK i \in 1 .. n : x = t[i]
      BY <1>1, <2>3 DEF ToSet
    <3>2. m + i \in DOMAIN both /\ both[m + i] = x
      BY <1>1, <1>3, <3>1
    <3>3. QED
      BY <3>2 DEF ToSet
  <2>4. QED
    BY <2>1, <2>2, <2>3
<1>6. ASSUME Once(s), Once(t), ToSet(s) \cap ToSet(t) = {},
             NEW i \in 1 .. m + n, NEW j \in 1 .. m + n, both[i] = both[j]
      PROVE  i = j
  <2>1. CASE i \in 1 .. m /\ j \in 1 .. m
    BY <1>1, <1>2, <1>6, <2>1, <1>3 DEF Once
  <2>2. CASE i \notin 1 .. m /\ j \notin 1 .. m
    <3>1. i - m \in 1 .. n /\ j - m \in 1 .. n /\ t[i - m] = t[j - m]
      BY <1>4, <1>6, <2>2
    <3>2. i - m = j - m
      BY <1>2, <1>6, <3>1 DEF Once
    <3>3. QED
      BY <1>1, <3>2
  <2>3. ASSUME NEW k \in 1 .. m, NEW l \in 1 .. m + n, l \notin 1 .. m,
               both[k] = both[l]
        PROVE  FALSE
    <3>1. s[k] = t[l - m] /\ l - m \in 1 .. n
      BY <1>3, <1>4, <2>3
    <3>2. s[k] \in ToSet(s) /\ t[l - m] \in ToSet(t)
      BY <1>1, <3>1 DEF ToSet
    <3>3. QED
      BY <1>6, <3>1, <3>2
  <2>4. QED
    BY <1>6, <2>1, <2>2, <2>3
<1>7. QED
  BY <1>1, <1>5, <1>6 DEF both, Once

\* What is left when the elements from i to j are taken out.
LEMMA CutFacts ==
  ASSUME NEW S, NEW list \in Seq(S),
         NEW i \in 1 .. Len(list), NEW j \in i .. Len(list)
  PROVE  LET left == SubSeq(list, 1, i - 1) \o SubSeq(list, j + 1, Len(list))
         IN  /\ left \in Seq(S)
             /\ ToSet(left) \subseteq ToSet(list)
             /\ Once(list) => Once(left) /\ list[i] \notin ToSet(left)
<1> DEFINE n == Len(list)
           front == SubSeq(list, 1, i - 1)
           back == SubSeq(list, j + 1, n)
<1>1. n \in Nat /\ DOMAIN list = 1 .. n
  BY LenProperties
<1>2. Len(list) = n /\ i \in 1 .. n /\ j \in i .. n /\ i \in Nat /\ j \in Nat
  BY <1>1
<1>3. /\ front \in Seq(S) /\ Len(front) = i - 1
      /\ DOMAIN front = 1 .. i - 1
      /\ \A k \in 1 .. i - 1 : front[k] = list[k]
  <2>1. 1 \in Int /\ i - 1 \in Int /\ \A k \in 1 .. i - 1 : list[k] \in S
    BY <1>1, <1>2
  <2>2. /\ front \in Seq(S)
        /\ Len(front) = IF 1 <= i - 1 THEN (i - 1) - 1 + 1 ELSE 0
        /\ \A k \in 1 .. (i - 1) - 1 + 1 : front[k] = list[1 + k - 1]
    BY <2>1, SubSeqProperties
  <2>3. DOMAIN front = 1 .. Len(front)
    BY <2>2, LenProperties
  <2> HIDE DEF front, n
  <2>4. QED
    BY <1>2, <2>2, <2>3
<1>4. /\ back \in Seq(S) /\ Len(back) = n - j
      /\ DOMAIN back = 1 .. n - j
      /\ \A k \in 1 .. n - j : back[k] = list[j + k]
  <2>1. j + 1 \in Int /\ n \in Int /\ \A k \in j + 1 .. n : list[k] \in S
    BY <1>1, <1>2
  <2>2. /\ back \in Seq(S)
        /\ Len(back) = IF j + 1 <= n THEN n - (j + 1) + 1 ELSE 0
        /\ \A k \in 1 .. n - (j + 1) + 1 : back[k] = list[(j + 1) + k - 1]
    BY <2>1, SubSeqProperties
  <2>3. DOMAIN back = 1 .. Len(back)
    BY <2>2, LenProperties
  <2> HIDE DEF back, n
  <2>4. n - (j + 1) + 1 = n - j /\ Len(back) = n - j
    BY <1>1, <1>2, <2>2
  <2>5. ASSUME NEW k \in 1 .. n - j
        PROVE  back[k] = list[j + k]
    <3>1. (j + 1) + k - 1 = j + k
      BY <1>2
    <3>2. QED
      BY <2>2, <2>4, <3>1
  <2>6. QED
    BY <2>2, <2>3, <2>4, <2>5
<1>5. front \o back \in Seq(S)
      /\ ToSet(front \o back) = ToSet(front) \cup ToSet(back)
      /\ (Once(front) /\ Once(back) /\ ToSet(front) \cap ToSet(back) = {}
            => Once(front \o back))
  BY <1>3, <1>4, ConcatFacts
<1> HIDE DEF n, front, back
<1>6. ToSet(front) \subseteq ToSet(list) /\ ToSet(back) \subseteq ToSet(list)
  <2>1. \A k \in 1 .. i - 1 : k \in 1 .. n
    BY <1>1, <1>2
  <2>2. \A k \in 1 .. n - j : j + k \in 1 .. n
    BY <1>1, <1>2
  <2>3. ToSet(front) \subseteq ToSet(list)
    BY <1>1, <1>3, <2>1 DEF ToSet
  <2>4. ASSUME NEW x \in ToSet(back)
        PROVE  x \in ToSet(list)
    <3>1. PICK k \in 1 .. n - j : x = list[j + k]
      BY <1>4, <2>4 DEF ToSet
    <3>2. QED
      BY <1>1, <2>2, <3>1 DEF ToSet
  <2>5. QED
    BY <2>3, <2>4
<1>7. ASSUME Once(list)
      PROVE  Once(front \o back) /\ list[i] \notin ToSet(front \o back)
  <2>1. \A k, l \in 1 .. n : list[k] = list[l] => k = l
    BY <1>2, <1>7 DEF Once
  <2>2. Once(front)
    BY <1>2, <1>3, <2>1 DEF Once
  <2>3. Once(back)
    <3>1. \A k, l \in 1 .. n - j :
            j + k \in 1 .. n /\ j + l \in 1 .. n /\ (j + k = j + l => k = l)
      BY <1>1, <1>2
    <3>2. QED
      BY <1>4, <2>1, <3>1 DEF Once
  <2>4. \A k \in 1 .. i - 1, l \in 1 .. n - j :
          /\ k \in 1 .. n /\ j + l \in 1 .. n
          /\ k # j + l /\ k # i /\ j + l # i
    BY <1>1, <1>2
  <2>5. ASSUME NEW x \in ToSet(front), x \in ToSet(back)
        PROVE  FALSE
    <3>1. PICK k \in 1 .. i - 1 : x = list[k]
      BY <1>3, <2>5 DEF ToSet
    <3>2. PICK l \in 1 .. n - j : x = list[j + l]
      BY <1>4, <2>5 DEF ToSet
    <3>3. QED
      BY <2>1, <2>4, <3>1, <3>2
  <2>6. list[i] \notin ToSet(front)
    <3>1. \A k \in 1 .. i - 1 : k \in 1 .. n /\ k # i
      BY <1>1, <1>2
    <3>2. QED
      BY <1>2, <1>3, <2>1, <3>1 DEF ToSet
  <2>7. list[i] \notin ToSet(back)
    <3>1. \A l \in 1 .. n - j : j + l \in 1 .. n /\ j + l # i
      BY <1>1, <1>2
    <3>2. QED
      BY <1>2, <1>4, <2>1, <3>1 DEF ToSet
  <2>8. QED
    BY <1>5, <2>2, <2>3, <2>5, <2>6, <2>7
<1>8. QED
  BY <1>5, <1>6, <1>7 DEF front, back, n

-----------------------------------------------------------------------------
LEMMA NoneIsNone ==
  /\ None \notin Addr /\ None \notin Request /\ None \notin Conn
  /\ Conn \subseteq Nat /\ Request \subseteq Nat
BY DiameterAssumption DEF Request, Conn

LEMMA InitInv == Init => Inv
<1> SUFFICES ASSUME Init PROVE Inv
  OBVIOUS
<1> USE DEF Init, NoWork
<1>1. << >> \in Seq(Request) /\ << >> \in Seq(Conn)
  OBVIOUS
<1>2. LinkType
  BY <1>1 DEF LinkType, Connection
<1>3. ToSet(<< >>) = {} /\ Once(<< >>)
  BY DEF ToSet, Once
<1>4. \A r \in Request : ~OnItsWay(r)
  BY <1>3, NoneIsNone DEF OnItsWay, InWorker, Leaving
<1>5. PlaceInv
  BY <1>4 DEF PlaceInv, PlaceOf, OnItsWay, Leaving
<1>6. OnceInv
  BY <1>3 DEF OnceInv
<1>7. AddrInv
  BY DEF AddrInv, NewInv
<1>8. QED
  BY <1>2, <1>5, <1>6, <1>7 DEF Inv

\* What every step leaves of a connection.
Stable ==
  \A c \in Conn :
    conn[c].at # "new" => conn'[c].at # "new" /\ conn'[c].addr = conn[c].addr

\* A step that only takes requests and answers out of where they are.
Shrinks ==
  /\ UNCHANGED <<asked, answered>>
  /\ ToSet(shared') \subseteq ToSet(shared)
  /\ ToSet(inbound') \subseteq ToSet(inbound)
  /\ \A w \in Worker, r \in Request : InWorker(w, r)' => InWorker(w, r)
  /\ \A a \in Addr : ToSet(outbound'[a]) \subseteq ToSet(outbound[a])
  /\ \A c \in Conn : conn'[c].out \in {conn[c].out, None}

LEMMA StableAddr ==
  ASSUME Inv, Stable, UNCHANGED <<asked, answered>>,
         NewInv'
  PROVE  /\ AddrInv'
         /\ \A r \in Request : asked[r] # None => From(r)' = From(r)
BY DEF Inv, LinkType, AddrInv, NewInv, Stable, From

LEMMA ShrinkPlaces ==
  ASSUME Inv, Stable, Shrinks,
         NewInv'
  PROVE  PlaceInv' /\ AddrInv'
<1> SUFFICES ASSUME NEW r \in Request
             PROVE  PlaceOf(r)'
  BY StableAddr DEF PlaceInv, Shrinks
<1>1. asked[r] # None => From(r)' = From(r)
  BY StableAddr DEF Shrinks
<1>2. PlaceOf(r)
  BY DEF Inv, PlaceInv
<1>3. /\ \A a \in Addr : r \in ToSet(outbound'[a]) => r \in ToSet(outbound[a])
      /\ \A c \in Conn : conn'[c].out = r =>
           conn[c].out = r /\ conn'[c].addr = conn[c].addr
  <2>1. ASSUME NEW c \in Conn, conn'[c].out = r
        PROVE  conn[c].out = r /\ conn'[c].addr = conn[c].addr
    <3>1. conn[c].out = r
      BY <2>1, NoneIsNone DEF Shrinks
    <3>2. asked[r] # None /\ conn[c].addr = From(r) /\ From(r) \in Addr
      BY <1>2, <3>1
      DEF PlaceOf, OnItsWay, Leaving, Inv, AddrInv, NewInv, LinkType, From
    <3>3. QED
      BY <3>1, <3>2, NoneIsNone DEF Stable, Inv, AddrInv, NewInv
  <2>2. QED
    BY <2>1 DEF Shrinks
<1>4. /\ Leaving(r)' => Leaving(r)
      /\ OnItsWay(r)' => OnItsWay(r)
  BY <1>3 DEF Leaving, OnItsWay, Shrinks
<1>5. QED
  BY <1>1, <1>2, <1>3, <1>4 DEF PlaceOf, Shrinks, OnItsWay, Leaving

\* What such a step is for the peers: no request or answer goes further than
\* it was.
Quiet ==
  /\ Stable
  /\ UNCHANGED <<asked, answered>>
  /\ \A r \in Request : OnItsWay(r)' => OnItsWay(r)

LEMMA ShrinkStep ==
  ASSUME Inv, Stable, Shrinks, LinkType', NewInv', OnceInv'
  PROVE  Inv' /\ Quiet
<1>1. \A r \in Request : OnItsWay(r)' => OnItsWay(r)
  BY NoneIsNone DEF Shrinks, OnItsWay, Leaving
<1>2. QED
  BY <1>1, ShrinkPlaces DEF Inv, Quiet, Shrinks

\* A step that writes only connections, and takes at most the answer out that
\* one has in hand.
LEMMA ConnStep ==
  ASSUME Inv, NEW c \in Conn, NEW next \in Connection,
         conn' = [conn EXCEPT ![c] = next],
         next.out = None, next.at # "new", next.addr \in Addr,
         conn[c].at # "new" => next.addr = conn[c].addr,
         UNCHANGED <<pipeline, outbound, asked, answered>>
  PROVE  Inv' /\ Quiet
<1> USE DEF pipeline
<1>1. /\ conn \in [Conn -> Connection]
      /\ conn'[c] = next
      /\ \A d \in Conn \ {c} : conn'[d] = conn[d]
  BY DEF Inv, LinkType
<1>2. LinkType'
  BY DEF Inv, LinkType
<1>3. NewInv'
  BY <1>1 DEF Inv, AddrInv, NewInv
<1>4. Stable
  BY <1>1 DEF Stable
<1>5. Shrinks
  BY <1>1 DEF Shrinks, InWorker
<1>6. OnceInv'
  BY DEF Inv, OnceInv
<1>7. QED
  BY <1>2, <1>3, <1>4, <1>5, <1>6, ShrinkStep

LEMMA ConnectStep ==
  ASSUME Inv, NEW c \in Conn, Connect(c)
  PROVE  Inv' /\ Quiet
<1>1. PICK a \in Addr, h \in Host :
        conn' = [conn EXCEPT ![c] = [at |-> "open", addr |-> a, host |-> h,
                                     out |-> None]]
  BY DEF Connect
<1>2. [at |-> "open", addr |-> a, host |-> h, out |-> None] \in Connection
  BY DEF Connection
<1>3. UNCHANGED <<pipeline, outbound, asked, answered>> /\ conn[c].at = "new"
  BY DEF Connect, network
<1>4. QED
  BY <1>1, <1>2, <1>3, ConnStep

LEMMA CloseStep ==
  ASSUME Inv, NEW c \in Conn, EndTasks(c) \/ Reset(c) \/ CloseWriter(c)
  PROVE  Inv' /\ Quiet
<1>1. conn[c] \in Connection /\ conn[c].at \in {"open", "ending"}
  BY DEF Inv, LinkType, EndTasks, Reset, CloseWriter
<1>2. conn[c].addr \in Addr
  BY <1>1 DEF Inv, AddrInv, NewInv
<1>3. UNCHANGED <<pipeline, outbound, asked, answered>>
  BY DEF EndTasks, Reset, CloseWriter, network
<1>4. ASSUME NEW at \in {"ending", "closed", "lost"},
             Cancelled(c, at)
      PROVE  Inv' /\ Quiet
  <2> DEFINE next == [conn[c] EXCEPT !.at = at, !.out = None]
  <2>1. /\ next \in Connection /\ next.out = None
        /\ next.at # "new" /\ next.addr = conn[c].addr
    BY <1>1 DEF Connection
  <2>2. conn' = [conn EXCEPT ![c] = next]
    BY <1>4 DEF Cancelled
  <2> HIDE DEF next
  <2>3. QED
    BY <1>2, <1>3, <2>1, <2>2, ConnStep
<1>5. CASE EndTasks(c) \/ Reset(c)
  BY <1>4, <1>5 DEF EndTasks, Reset
<1>6. CASE CloseWriter(c)
  <2> DEFINE next == [conn[c] EXCEPT !.at = "closed"]
  <2>1. /\ next \in Connection /\ next.out = conn[c].out
        /\ next.at # "new" /\ next.addr = conn[c].addr
    BY <1>1 DEF Connection
  <2>2. conn' = [conn EXCEPT ![c] = next]
    BY <1>6 DEF CloseWriter
  <2> HIDE DEF next
  <2>3. \A d \in Conn \ {c} : conn'[d] = conn[d]
    BY <2>2 DEF Inv, LinkType
  <2>4. conn'[c] = next
    BY <2>2 DEF Inv, LinkType
  <2> USE DEF pipeline
  <2>5. Stable /\ Shrinks
    BY <1>3, <2>1, <2>3, <2>4 DEF Stable, Shrinks, InWorker
  <2>6. LinkType'
    BY <1>3, <2>1, <2>2 DEF Inv, LinkType
  <2>7. NewInv'
    BY <1>2, <2>1, <2>3, <2>4 DEF Inv, AddrInv, NewInv
  <2>8. OnceInv'
    BY <1>3 DEF Inv, OnceInv
  <2>9. QED
    BY <2>5, <2>6, <2>7, <2>8, ShrinkStep
<1>7. QED
  BY <1>5, <1>6

\* What the network sees of no other step.
LEMMA IdleStep ==
  ASSUME Inv, UNCHANGED <<conn, pipeline, outbound, asked, answered>>
  PROVE  Inv' /\ Quiet
<1>1. LinkType' /\ NewInv' /\ OnceInv'
  BY DEF Inv, LinkType, AddrInv, NewInv, OnceInv, pipeline
<1>2. Stable /\ Shrinks
  BY DEF Stable, Shrinks, InWorker, pipeline
<1>3. QED
  BY <1>1, <1>2, ShrinkStep

LEMMA HssDiesStep ==
  ASSUME Inv, HssDies
  PROVE  Inv' /\ Quiet
<1>1. /\ UNCHANGED <<conn, shared, worker, outbound, asked, answered>>
  BY DEF HssDies, network
<1>2. inbound \in Seq(Request) /\ Once(inbound)
  BY DEF Inv, LinkType, OnceInv
<1>3. /\ inbound' \in Seq(Request)
      /\ ToSet(inbound') \subseteq ToSet(inbound)
      /\ Once(inbound')
  <2>1. PICK i \in 1 .. Len(inbound) : \E j \in i .. Len(inbound) :
          inbound' = SubSeq(inbound, 1, i - 1)
                     \o SubSeq(inbound, j + 1, Len(inbound))
    BY DEF HssDies
  <2>2. QED
    BY <1>2, <2>1, CutFacts
<1>4. LinkType' /\ NewInv' /\ OnceInv'
  BY <1>1, <1>3 DEF Inv, LinkType, AddrInv, NewInv, OnceInv
<1>5. Stable /\ Shrinks
  BY <1>1, <1>3 DEF Stable, Shrinks, InWorker
<1>6. QED
  BY <1>4, <1>5, ShrinkStep

LEMMA ExpireStep ==
  ASSUME Inv, NEW a \in Addr, Expire(a)
  PROVE  Inv' /\ Quiet
<1>1. UNCHANGED <<conn, pipeline, asked, answered>>
      /\ outbound' = [outbound EXCEPT ![a] = << >>]
  BY DEF Expire, network
<1>2. << >> \in Seq(Request) /\ ToSet(<< >>) = {} /\ Once(<< >>)
  BY DEF ToSet, Once
<1>3. \A b \in Addr : outbound'[b] = outbound[b] \/ outbound'[b] = << >>
  BY <1>1 DEF Inv, LinkType
<1>4. LinkType' /\ NewInv' /\ OnceInv'
  BY <1>1, <1>2, <1>3
  DEF Inv, LinkType, AddrInv, NewInv, OnceInv, pipeline
<1>5. Stable /\ Shrinks
  BY <1>1, <1>2, <1>3 DEF Stable, Shrinks, InWorker, pipeline
<1>6. QED
  BY <1>4, <1>5, ShrinkStep

LEMMA RestartStep ==
  ASSUME Inv, Restart
  PROVE  Inv' /\ Quiet
<1>1. /\ UNCHANGED <<inbound, outbound, asked, answered>>
      /\ shared' = << >>
      /\ worker' = [w \in Worker |-> NoWork]
  BY DEF Restart, network
<1>2. /\ << >> \in Seq(Request) /\ ToSet(<< >>) = {} /\ Once(<< >>)
      /\ \A r \in Request : r # None
  BY NoneIsNone DEF ToSet, Once
<1>3. ASSUME NEW c \in Conn
      PROVE  /\ conn'[c] \in Connection
             /\ conn'[c].at = "new" <=> conn[c].at = "new"
             /\ conn'[c].addr = conn[c].addr
             /\ conn'[c].out \in {conn[c].out, None}
             /\ conn[c].at = "new" => conn'[c].out = conn[c].out
  <2>1. conn[c] \in Connection
    BY DEF Inv, LinkType
  <2>2. conn'[c] = IF conn[c].at = "new" THEN conn[c]
                   ELSE [conn[c] EXCEPT !.at = "closed", !.out = None]
    BY DEF Restart
  <2>3. QED
    BY <2>1, <2>2 DEF Connection
<1>4. conn' \in [Conn -> Connection]
  BY <1>3 DEF Restart
<1>5. LinkType'
  BY <1>1, <1>2, <1>4 DEF Inv, LinkType, NoWork
<1>6. NewInv'
  BY <1>3 DEF Inv, AddrInv, NewInv
<1>7. OnceInv'
  BY <1>1, <1>2 DEF Inv, OnceInv, NoWork
<1>8. Stable
  BY <1>3 DEF Stable
<1>9. \A w \in Worker, r \in Request : ~InWorker(w, r)'
  BY <1>1, <1>2 DEF InWorker, NoWork
<1>10. Shrinks
  BY <1>1, <1>2, <1>3, <1>9 DEF Shrinks
<1>11. QED
  BY <1>5, <1>6, <1>7, <1>8, <1>10, ShrinkStep

-----------------------------------------------------------------------------
(***************************************************************************)
(* The steps that bring a request or an answer further.                    *)
(***************************************************************************)

LEMMA WorkerType ==
  ASSUME Inv, NEW w \in Worker
  PROVE  /\ worker[w].batch \in Seq(Request)
         /\ worker[w].msg \in Request \cup {None}
         /\ ToSet(worker[w].batch) \subseteq Request
         /\ None \notin ToSet(worker[w].batch)
<1>1. /\ worker[w].batch \in Seq(Request)
      /\ worker[w].msg \in Request \cup {None}
  BY DEF Inv, LinkType
<1>2. ToSet(worker[w].batch) \subseteq Request
  BY <1>1, LenProperties DEF ToSet
<1>3. QED
  BY <1>1, <1>2, NoneIsNone

LEMMA ValidateStep ==
  ASSUME Inv, NEW w \in Worker, Validate(w)
  PROVE  Inv' /\ Quiet
<1> DEFINE r == worker[w].msg
           batch == worker[w].batch
<1>1. r \in Request /\ batch \in Seq(Request) /\ r \notin ToSet(batch)
      /\ None \notin ToSet(batch) /\ Once(batch)
  BY WorkerType DEF Validate, Inv, OnceInv
<1>2. UNCHANGED <<conn, shared, inbound, outbound, asked, answered>>
  BY DEF Validate, WorkerStep, network
<1>3. \/ worker' = [worker EXCEPT ![w] = [batch |-> Append(batch, r),
                                          msg |-> None]]
      \/ worker' = [worker EXCEPT ![w] = [batch |-> batch, msg |-> None]]
      \/ worker' = [worker EXCEPT ![w] = NoWork]
  <2>1. [worker[w] EXCEPT !.msg = None] = [batch |-> batch, msg |-> None]
    BY DEF Inv, LinkType
  <2>2. QED
    BY <2>1 DEF Validate, WorkerStep
<1>4. /\ Append(batch, r) \in Seq(Request)
      /\ ToSet(Append(batch, r)) = ToSet(batch) \cup {r}
      /\ Once(Append(batch, r))
      /\ << >> \in Seq(Request) /\ ToSet(<< >>) = {} /\ Once(<< >>)
  <2>1. << >> \in Seq(Request) /\ ToSet(<< >>) = {} /\ Once(<< >>)
    BY DEF ToSet, Once
  <2>2. QED
    BY <1>1, <2>1, AppendFacts
<1>5. /\ worker' \in [Worker -> [batch : Seq(Request),
                                 msg : Request \cup {None}]]
      /\ \A v \in Worker \ {w} : worker'[v] = worker[v]
      /\ worker'[w].msg = None
      /\ Once(worker'[w].batch)
      /\ ToSet(worker'[w].batch) \subseteq ToSet(batch) \cup {r}
  <2>1. ASSUME NEW list \in {Append(batch, r), batch, << >>},
               worker' = [worker EXCEPT ![w] = [batch |-> list, msg |-> None]]
        PROVE  /\ worker' \in [Worker -> [batch : Seq(Request),
                                         msg : Request \cup {None}]]
               /\ \A v \in Worker \ {w} : worker'[v] = worker[v]
               /\ worker'[w] = [batch |-> list, msg |-> None]
    <3>1. list \in Seq(Request)
      BY <1>1, <1>4
    <3> HIDE DEF batch, r
    <3>2. [batch |-> list, msg |-> None] \in [batch : Seq(Request),
                                             msg : Request \cup {None}]
      BY <3>1
    <3>3. QED
      BY <2>1, <3>2 DEF Inv, LinkType
  <2>2. \A list \in {Append(batch, r), batch, << >>} :
          Once(list) /\ ToSet(list) \subseteq ToSet(batch) \cup {r}
    BY <1>1, <1>4
  <2>3. PICK list \in {Append(batch, r), batch, << >>} :
          worker' = [worker EXCEPT ![w] = [batch |-> list, msg |-> None]]
    BY <1>3 DEF NoWork
  <2> HIDE DEF batch, r
  <2>4. QED
    BY <2>1, <2>2, <2>3
<1> HIDE DEF batch
<1>6. LinkType' /\ NewInv'
  BY <1>2, <1>5 DEF Inv, LinkType, AddrInv, NewInv
<1>7. OnceInv'
  <2>1. None \notin ToSet(worker'[w].batch)
    BY <1>1, <1>5, NoneIsNone
  <2>2. QED
    BY <1>2, <1>5, <2>1 DEF Inv, OnceInv
<1>8. Stable /\ Shrinks
  <2>1. \A q \in Request : InWorker(w, q)' => InWorker(w, q)
    BY <1>5, NoneIsNone DEF InWorker, batch
  <2>2. \A v \in Worker, q \in Request : InWorker(v, q)' => InWorker(v, q)
    BY <1>5, <2>1 DEF InWorker
  <2>3. QED
    BY <1>2, <2>2 DEF Stable, Shrinks
<1>9. QED
  BY <1>6, <1>7, <1>8, ShrinkStep

\* The connections and what has been asked and answered stay.
LEMMA MoveStep ==
  ASSUME Inv, UNCHANGED <<conn, asked, answered>>,
         LinkType', OnceInv', PlaceInv',
         \A r \in Request : OnItsWay(r)' => OnItsWay(r)
  PROVE  Inv' /\ Quiet
<1>1. NewInv'
  BY DEF Inv, AddrInv, NewInv
<1>2. Stable
  BY DEF Stable
<1>3. AddrInv'
  BY <1>1, <1>2, StableAddr
<1>4. QED
  BY <1>2, <1>3 DEF Inv, Quiet

LEMMA TakeStep ==
  ASSUME Inv, NEW w \in Worker, Take(w)
  PROVE  Inv' /\ Quiet
<1> DEFINE r == Head(shared)
           batch == worker[w].batch
<1>1. /\ UNCHANGED <<conn, inbound, outbound, asked, answered>>
      /\ shared' = Tail(shared) /\ shared # << >>
      /\ worker[w].msg = None
  BY DEF Take, WorkerStep, network
<1>2. /\ r \in Request /\ shared' \in Seq(Request)
      /\ ToSet(shared) = {r} \cup ToSet(shared')
      /\ Once(shared') /\ r \notin ToSet(shared')
  BY <1>1, TailFacts DEF Inv, LinkType, OnceInv
<1>3. PlaceOf(r) /\ r \in ToSet(shared)
  BY <1>2 DEF Inv, PlaceInv
<1>4. r \notin ToSet(batch) /\ batch \in Seq(Request) /\ Once(batch)
      /\ None \notin ToSet(batch)
  BY <1>3, WorkerType DEF PlaceOf, InWorker, Inv, OnceInv
<1>5. \/ worker' = [worker EXCEPT ![w] = NoWork]
      \/ worker' = [worker EXCEPT ![w] = [batch |-> batch, msg |-> r]]
      \/ worker' = [worker EXCEPT ![w] = [batch |-> Append(batch, r),
                                          msg |-> None]]
  <2>1. [worker[w] EXCEPT !.msg = r] = [batch |-> batch, msg |-> r]
    BY DEF Inv, LinkType
  <2>2. [worker[w] EXCEPT !.batch = Append(batch, r)]
          = [batch |-> Append(batch, r), msg |-> None]
    <3>1. /\ worker[w] \in [batch : Seq(Request), msg : Request \cup {None}]
          /\ worker[w].msg = None
      BY <1>1 DEF Inv, LinkType
    <3> DEFINE longer == Append(batch, r)
    <3> HIDE DEF longer
    <3>2. [worker[w] EXCEPT !.batch = longer]
            = [batch |-> longer, msg |-> None]
      BY <3>1
    <3>3. QED
      BY <3>2 DEF longer
  <2>3. QED
    BY <2>1, <2>2 DEF Take, WorkerStep
<1>6. /\ Append(batch, r) \in Seq(Request)
      /\ ToSet(Append(batch, r)) = ToSet(batch) \cup {r}
      /\ Once(Append(batch, r))
      /\ << >> \in Seq(Request) /\ ToSet(<< >>) = {} /\ Once(<< >>)
  <2>1. << >> \in Seq(Request) /\ ToSet(<< >>) = {} /\ Once(<< >>)
    BY DEF ToSet, Once
  <2>2. QED
    BY <1>2, <1>4, <2>1, AppendFacts
<1> HIDE DEF r, batch
<1>7. /\ worker' \in [Worker -> [batch : Seq(Request),
                                 msg : Request \cup {None}]]
      /\ \A v \in Worker \ {w} : worker'[v] = worker[v]
      /\ Once(worker'[w].batch)
      /\ worker'[w].msg \notin ToSet(worker'[w].batch)
      /\ worker'[w].msg \in {r, None}
      /\ ToSet(worker'[w].batch) \subseteq ToSet(batch) \cup {r}
  <2>1. ASSUME NEW work \in [batch : Seq(Request), msg : Request \cup {None}],
               worker' = [worker EXCEPT ![w] = work]
        PROVE  /\ worker' \in [Worker -> [batch : Seq(Request),
                                         msg : Request \cup {None}]]
               /\ \A v \in Worker \ {w} : worker'[v] = worker[v]
               /\ worker'[w] = work
    BY <2>1 DEF Inv, LinkType
  <2>2. CASE worker' = [worker EXCEPT ![w] = NoWork]
    BY <1>6, <2>1, <2>2 DEF NoWork
  <2>3. CASE worker' = [worker EXCEPT ![w] = [batch |-> batch, msg |-> r]]
    BY <1>2, <1>4, <2>1, <2>3
  <2>4. CASE worker' = [worker EXCEPT ![w] = [batch |-> Append(batch, r),
                                              msg |-> None]]
    BY <1>2, <1>4, <1>6, <2>1, <2>4, NoneIsNone
  <2>5. QED
    BY <1>5, <2>2, <2>3, <2>4
<1>8. LinkType' /\ OnceInv'
  BY <1>1, <1>2, <1>7 DEF Inv, LinkType, OnceInv
<1>9. ASSUME NEW q \in Request
      PROVE  PlaceOf(q)' /\ (OnItsWay(q)' => OnItsWay(q))
  <2>1. From(q)' = From(q) /\ (Leaving(q)' <=> Leaving(q)) /\ PlaceOf(q)
    BY <1>1 DEF From, Leaving, Inv, PlaceInv
  <2>2. CASE q = r
    <3>1. /\ ~Leaving(q) /\ q \notin ToSet(inbound)
          /\ \A v \in Worker : ~InWorker(v, q)
      BY <1>3, <2>2 DEF PlaceOf
    <3>2. \A v \in Worker : InWorker(v, q)' => v = w
      BY <1>7, <3>1 DEF InWorker
    <3>3. q \notin ToSet(shared') /\ OnItsWay(q)
      BY <1>2, <1>3, <2>2 DEF OnItsWay
    <3>4. QED
      BY <1>1, <2>1, <3>1, <3>2, <3>3 DEF PlaceOf, Leaving
  <2>3. CASE q # r
    <3>1. q \in ToSet(shared') <=> q \in ToSet(shared)
      BY <1>2, <2>3
    <3>2. \A v \in Worker : InWorker(v, q)' => InWorker(v, q)
      BY <1>7, <2>3, NoneIsNone DEF InWorker, batch
    <3>3. OnItsWay(q)' => OnItsWay(q)
      BY <1>1, <2>1, <3>1, <3>2 DEF OnItsWay
    <3>4. QED
      BY <1>1, <2>1, <3>1, <3>2, <3>3 DEF PlaceOf
  <2>4. QED
    BY <2>2, <2>3
<1>10. QED
  BY <1>1, <1>8, <1>9, MoveStep DEF PlaceInv

LEMMA FlushStep ==
  ASSUME Inv, NEW w \in Worker, Flush(w)
  PROVE  Inv' /\ Quiet
<1> DEFINE batch == worker[w].batch
<1>1. /\ UNCHANGED <<conn, shared, outbound, asked, answered>>
      /\ worker' = [worker EXCEPT ![w] = [batch |-> << >>, msg |-> None]]
      /\ inbound' = inbound \o batch
  BY DEF Flush, WorkerStep, SentOff, network
<1>2. batch \in Seq(Request) /\ inbound \in Seq(Request)
      /\ Once(batch) /\ Once(inbound)
  BY WorkerType DEF Inv, LinkType, OnceInv
<1>3. \A q \in Request : q \in ToSet(batch) =>
        /\ InWorker(w, q)
        /\ q \notin ToSet(inbound) /\ q \notin ToSet(shared)
        /\ ~Leaving(q)
        /\ \A v \in Worker : InWorker(v, q) => v = w
  BY DEF Inv, PlaceInv, PlaceOf, InWorker
<1>4. /\ inbound' \in Seq(Request)
      /\ ToSet(inbound') = ToSet(inbound) \cup ToSet(batch)
      /\ Once(inbound')
  <2>1. ToSet(inbound) \cap ToSet(batch) = {}
    BY <1>3, WorkerType
  <2>2. QED
    BY <1>1, <1>2, <2>1, ConcatFacts
<1>5. << >> \in Seq(Request) /\ ToSet(<< >>) = {} /\ Once(<< >>)
  BY DEF ToSet, Once
<1> HIDE DEF batch
<1>6. /\ \A v \in Worker \ {w} : worker'[v] = worker[v]
      /\ worker'[w] = [batch |-> << >>, msg |-> None]
      /\ \A q \in Request : ~InWorker(w, q)'
  BY <1>1, <1>5, NoneIsNone DEF Inv, LinkType, InWorker
<1>7. LinkType' /\ OnceInv'
  BY <1>1, <1>4, <1>5, <1>6 DEF Inv, LinkType, OnceInv
<1>8. ASSUME NEW q \in Request
      PROVE  PlaceOf(q)' /\ (OnItsWay(q)' => OnItsWay(q))
  <2>1. From(q)' = From(q) /\ (Leaving(q)' <=> Leaving(q)) /\ PlaceOf(q)
    BY <1>1 DEF From, Leaving, Inv, PlaceInv
  <2>2. \A v \in Worker : InWorker(v, q)' => InWorker(v, q) /\ v # w
    BY <1>6 DEF InWorker
  <2>3. OnItsWay(q)' => OnItsWay(q)
    BY <1>1, <1>3, <1>4, <2>1, <2>2 DEF OnItsWay
  <2>4. q \in ToSet(batch) => \A v \in Worker : ~InWorker(v, q)'
    BY <1>3, <2>2
  <2>5. QED
    BY <1>1, <1>3, <1>4, <2>1, <2>2, <2>3, <2>4 DEF PlaceOf
<1>9. QED
  BY <1>1, <1>7, <1>8, MoveStep DEF PlaceInv

\* The answer is queued for the address the request came from.
LEMMA HssAnswerStep ==
  ASSUME Inv, HssAnswer
  PROVE  Inv' /\ Quiet
<1>1. PICK i \in 1 .. Len(inbound) :
        /\ inbound' = RemoveAt(inbound, i)
        /\ \/ outbound' = Queued(outbound, From(inbound[i]), inbound[i])
           \/ outbound' = outbound
  BY DEF HssAnswer, TakenOff
<1> DEFINE r == inbound[i]
           a == From(r)
<1>2. UNCHANGED <<conn, shared, worker, asked, answered>>
  BY DEF HssAnswer, network
<1>3. inbound \in Seq(Request) /\ Once(inbound)
  BY DEF Inv, LinkType, OnceInv
<1>4. /\ inbound' \in Seq(Request)
      /\ ToSet(inbound') \subseteq ToSet(inbound)
      /\ Once(inbound') /\ r \notin ToSet(inbound')
  <2>1. i \in i .. Len(inbound)
    BY <1>3, LenProperties
  <2>2. QED
    BY <1>1, <1>3, <2>1, CutFacts DEF RemoveAt
<1>5. r \in Request /\ r \in ToSet(inbound)
  BY <1>3, LenProperties DEF ToSet
<1>6. /\ PlaceOf(r) /\ OnItsWay(r) /\ ~Leaving(r)
      /\ r \notin ToSet(shared)
      /\ \A w \in Worker : ~InWorker(w, r)
      /\ a \in Addr
  <2>1. PlaceOf(r) /\ OnItsWay(r)
    BY <1>5 DEF Inv, PlaceInv, OnItsWay
  <2>2. asked[r] \in Conn /\ conn[asked[r]].at # "new"
    BY <1>5, <2>1 DEF PlaceOf, Inv, LinkType, AddrInv
  <2>3. a \in Addr
    BY <2>2 DEF From, Inv, AddrInv, NewInv
  <2>4. QED
    BY <1>5, <2>1, <2>3 DEF PlaceOf
<1> HIDE DEF r, a
<1>7. /\ outbound' \in [Addr -> Seq(Request)]
      /\ \A b \in Addr : Once(outbound'[b])
      /\ \A b \in Addr \ {a} : outbound'[b] = outbound[b]
      /\ ToSet(outbound'[a]) \subseteq ToSet(outbound[a]) \cup {r}
  <2>1. /\ outbound[a] \in Seq(Request) /\ Once(outbound[a])
        /\ r \notin ToSet(outbound[a])
    BY <1>6 DEF Inv, LinkType, OnceInv, Leaving
  <2>2. /\ Append(outbound[a], r) \in Seq(Request)
        /\ ToSet(Append(outbound[a], r)) = ToSet(outbound[a]) \cup {r}
        /\ Once(Append(outbound[a], r))
    BY <1>5, <2>1, AppendFacts
  <2>3. CASE outbound' = [outbound EXCEPT ![a] = Append(outbound[a], r)]
    BY <1>6, <2>2, <2>3 DEF Inv, LinkType, OnceInv
  <2>4. CASE outbound' = outbound
    BY <2>4 DEF Inv, LinkType, OnceInv
  <2>5. QED
    BY <1>1, <2>3, <2>4 DEF Queued, r, a
<1>8. LinkType' /\ OnceInv'
  BY <1>2, <1>4, <1>7 DEF Inv, LinkType, OnceInv
<1>9. ASSUME NEW q \in Request
      PROVE  PlaceOf(q)' /\ (OnItsWay(q)' => OnItsWay(q))
  <2>1. /\ From(q)' = From(q) /\ PlaceOf(q)
        /\ \A w \in Worker : InWorker(w, q)' <=> InWorker(w, q)
    BY <1>2 DEF From, InWorker, Inv, PlaceInv
  <2>2. CASE q = r
    <3>1. \A b \in Addr : q \in ToSet(outbound'[b]) => b = a
      BY <1>6, <1>7, <2>2 DEF Leaving
    <3>2. \A c \in Conn : conn'[c].out # q
      BY <1>2, <1>6, <2>2 DEF Leaving
    <3>3. From(q)' = a
      BY <2>1, <2>2 DEF a
    <3>4. QED
      BY <1>2, <1>4, <1>6, <2>1, <2>2, <3>1, <3>2, <3>3 DEF PlaceOf
  <2>3. CASE q # r
    <3>1. \A b \in Addr : q \in ToSet(outbound'[b]) =>
            q \in ToSet(outbound[b])
      BY <1>7, <2>3
    <3>2. Leaving(q)' => Leaving(q)
      BY <1>2, <3>1 DEF Leaving
    <3>3. OnItsWay(q)' => OnItsWay(q)
      BY <1>2, <1>4, <2>1, <3>2 DEF OnItsWay
    <3>4. QED
      BY <1>2, <1>4, <2>1, <3>1, <3>2, <3>3 DEF PlaceOf
  <2>4. QED
    BY <2>2, <2>3
<1>10. QED
  BY <1>2, <1>8, <1>9, MoveStep DEF PlaceInv

LEMMA PopStep ==
  ASSUME Inv, NEW c \in Conn, Pop(c)
  PROVE  Inv' /\ Quiet
<1> DEFINE a == conn[c].addr
           r == Head(outbound[a])
<1>1. /\ conn[c].at = "open" /\ conn[c].out = None
      /\ outbound[a] # << >>
      /\ conn' = [conn EXCEPT ![c].out = r]
      /\ outbound' = [outbound EXCEPT ![a] = Tail(outbound[a])]
      /\ UNCHANGED <<shared, worker, inbound, asked, answered>>
  BY DEF Pop, pipeline, network
<1>2. a \in Addr
  BY <1>1 DEF Inv, AddrInv, NewInv
<1>3. /\ r \in Request /\ Tail(outbound[a]) \in Seq(Request)
      /\ ToSet(outbound[a]) = {r} \cup ToSet(Tail(outbound[a]))
      /\ Once(Tail(outbound[a])) /\ r \notin ToSet(Tail(outbound[a]))
  BY <1>1, <1>2, TailFacts DEF Inv, LinkType, OnceInv
<1>4. /\ PlaceOf(r) /\ r \in ToSet(outbound[a]) /\ Leaving(r) /\ OnItsWay(r)
  BY <1>2, <1>3 DEF Inv, PlaceInv, Leaving, OnItsWay
<1>5. /\ conn' \in [Conn -> Connection]
      /\ \A d \in Conn : /\ conn'[d].at = conn[d].at
                         /\ conn'[d].addr = conn[d].addr
                         /\ conn'[d].out = IF d = c THEN r ELSE conn[d].out
  <2> DEFINE next == [conn[c] EXCEPT !.out = r]
  <2>1. /\ next \in Connection /\ next.at = conn[c].at
        /\ next.addr = conn[c].addr /\ next.out = r
    BY <1>3 DEF Inv, LinkType, Connection
  <2>2. conn' = [conn EXCEPT ![c] = next] /\ conn \in [Conn -> Connection]
    BY <1>1 DEF Inv, LinkType
  <2> HIDE DEF next, r
  <2>3. QED
    BY <2>1, <2>2
<1> HIDE DEF r
<1>6. /\ \A b \in Addr \ {a} : outbound'[b] = outbound[b]
      /\ outbound'[a] = Tail(outbound[a])
      /\ outbound' \in [Addr -> Seq(Request)]
  BY <1>1, <1>2, <1>3 DEF Inv, LinkType
<1> HIDE DEF a
<1>7. LinkType' /\ OnceInv'
  BY <1>1, <1>3, <1>5, <1>6 DEF Inv, LinkType, OnceInv
<1>8. Stable /\ NewInv'
  BY <1>1, <1>5 DEF Stable, Inv, AddrInv, NewInv
<1>9. AddrInv' /\ \A q \in Request : asked[q] # None => From(q)' = From(q)
  BY <1>1, <1>8, StableAddr
<1>10. ASSUME NEW q \in Request
       PROVE  PlaceOf(q)' /\ (OnItsWay(q)' => OnItsWay(q))
  <2>1. /\ PlaceOf(q) /\ (OnItsWay(q) => From(q)' = From(q))
        /\ \A w \in Worker : InWorker(w, q)' <=> InWorker(w, q)
    BY <1>1, <1>9 DEF InWorker, Inv, PlaceInv, PlaceOf
  <2>2. CASE q = r
    <3>1. ASSUME NEW b \in Addr
          PROVE  q \notin ToSet(outbound'[b])
      <4>1. CASE b = a
        BY <1>3, <1>6, <2>2, <4>1 DEF a, r
      <4>2. CASE b # a
        <5>1. q \notin ToSet(outbound[b])
          BY <1>2, <1>4, <2>2, <4>2 DEF PlaceOf
        <5>2. QED
          BY <1>6, <4>2, <5>1
      <4>3. QED
        BY <4>1, <4>2
    <3>2. \A d \in Conn : conn'[d].out = q => d = c
      BY <1>2, <1>4, <1>5, <2>2 DEF PlaceOf
    <3>3. conn'[c].addr = From(q)'
      BY <1>2, <1>4, <1>5, <2>1, <2>2 DEF PlaceOf, a
    <3>4. OnItsWay(q)' => OnItsWay(q)
      BY <1>4, <2>2
    <3>5. QED
      BY <1>1, <1>4, <2>1, <2>2, <3>1, <3>2, <3>3, <3>4 DEF PlaceOf
  <2>3. CASE q # r
    <3>1. /\ \A b \in Addr : q \in ToSet(outbound'[b]) =>
                               q \in ToSet(outbound[b])
          /\ \A d \in Conn : conn'[d].out = q => conn[d].out = q
      BY <1>3, <1>5, <1>6, <2>3
    <3>2. Leaving(q)' => Leaving(q)
      BY <3>1 DEF Leaving
    <3>3. OnItsWay(q)' => OnItsWay(q)
      BY <1>1, <2>1, <3>2 DEF OnItsWay
    <3>4. QED
      BY <1>1, <1>5, <2>1, <3>1, <3>2, <3>3 DEF PlaceOf, OnItsWay, Leaving
  <2>4. QED
    BY <2>2, <2>3
<1>11. QED
  BY <1>1, <1>7, <1>8, <1>9, <1>10 DEF Inv, Quiet, PlaceInv

-----------------------------------------------------------------------------
(***************************************************************************)
(* The steps the peers see: a request is read, an answer is written.       *)
(***************************************************************************)

\* A request is read: it is queued, or its connection is ended.
Reads(c, r) ==
  /\ Stable
  /\ conn[c].at = "open"
  /\ asked[r] = None
  /\ asked' = [asked EXCEPT ![r] = c]
  /\ UNCHANGED answered
  /\ ~OnItsWay(r)
  /\ \A q \in Request \ {r} : OnItsWay(q)' => OnItsWay(q)
  /\ \/ \A q \in Request \ {r} : OnItsWay(q)' <=> OnItsWay(q)
     \/ ~OnItsWay(r)'

LEMMA ReadStep ==
  ASSUME Inv, NEW c \in Conn, NEW r \in Request, Read(c, r)
  PROVE  Inv' /\ Reads(c, r)
<1>1. /\ conn[c].at = "open" /\ asked[r] = None
      /\ asked' = [asked EXCEPT ![r] = c]
      /\ UNCHANGED <<worker, inbound, outbound, answered>>
  BY DEF Read
<1>2. PlaceOf(r) /\ ~OnItsWay(r) /\ answered[r] = << >>
  BY <1>1 DEF Inv, PlaceInv, PlaceOf, AddrInv
<1>3. /\ asked' \in [Request -> Conn \cup {None}]
      /\ asked'[r] = c
      /\ \A q \in Request \ {r} : asked'[q] = asked[q]
  BY <1>1 DEF Inv, LinkType
<1>4. \/ shared' = Append(shared, r) /\ conn' = conn
      \/ UNCHANGED shared /\ Cancelled(c, "ending")
  BY DEF Read
<1>5. /\ shared' \in Seq(Request) /\ Once(shared')
      /\ ToSet(shared) \subseteq ToSet(shared')
      /\ ToSet(shared') \subseteq ToSet(shared) \cup {r}
      /\ r \in ToSet(shared') => conn' = conn
  <2>1. shared \in Seq(Request) /\ Once(shared) /\ r \notin ToSet(shared)
    BY <1>2 DEF Inv, LinkType, OnceInv, OnItsWay
  <2>2. CASE shared' = Append(shared, r) /\ conn' = conn
    BY <2>1, <2>2, AppendFacts
  <2>3. CASE UNCHANGED shared
    BY <2>1, <2>3
  <2>4. QED
    BY <1>4, <2>2, <2>3
<1>6. /\ conn' \in [Conn -> Connection]
      /\ \A d \in Conn : /\ conn'[d].at = "new" <=> conn[d].at = "new"
                         /\ conn'[d].addr = conn[d].addr
                         /\ conn'[d].out \in {conn[d].out, None}
                         /\ d # c => conn'[d] = conn[d]
  <2>1. CASE conn' = conn
    BY <2>1 DEF Inv, LinkType
  <2>2. CASE Cancelled(c, "ending")
    <3> DEFINE next == [conn[c] EXCEPT !.at = "ending", !.out = None]
    <3>1. next \in Connection /\ next.at = "ending" /\ next.out = None
          /\ next.addr = conn[c].addr
      BY DEF Inv, LinkType, Connection
    <3>2. conn' = [conn EXCEPT ![c] = next] /\ conn \in [Conn -> Connection]
      BY <2>2 DEF Cancelled, Inv, LinkType
    <3> HIDE DEF next
    <3>3. QED
      BY <1>1, <3>1, <3>2
  <2>3. QED
    BY <1>4, <2>1, <2>2
<1>7. Stable /\ NewInv'
  BY <1>1, <1>6 DEF Stable, Inv, AddrInv, NewInv
<1>8. LinkType' /\ OnceInv'
  BY <1>1, <1>3, <1>5, <1>6 DEF Inv, LinkType, OnceInv
<1>9. \A q \in Request \ {r} : asked[q] # None => From(q)' = From(q)
  BY <1>3, <1>7 DEF From, Stable, Inv, LinkType, AddrInv
<1>10. AddrInv'
  <2>1. ASSUME NEW q \in Request
        PROVE  /\ asked'[q] # None => conn'[asked'[q]].at # "new"
               /\ \/ answered'[q] = << >>
                  \/ \E d \in Conn : /\ answered'[q] = << d >>
                                     /\ asked'[q] # None
                                     /\ conn'[d].at # "new"
                                     /\ conn'[d].addr = From(q)'
    <3>1. CASE q = r
      BY <1>1, <1>2, <1>3, <1>6, <3>1
    <3>2. CASE q # r
      <4>1. asked'[q] = asked[q] /\ answered'[q] = answered[q]
        BY <1>1, <1>3, <3>2
      <4>2. asked[q] # None => conn[asked[q]].at # "new"
                               /\ asked[q] \in Conn
        BY DEF Inv, AddrInv, LinkType
      <4>3. asked'[q] # None => conn'[asked'[q]].at # "new"
        BY <1>6, <4>1, <4>2
      <4>4. ASSUME NEW d \in Conn, answered[q] = << d >>, asked[q] # None,
                   conn[d].at # "new", conn[d].addr = From(q)
            PROVE  /\ answered'[q] = << d >> /\ asked'[q] # None
                   /\ conn'[d].at # "new" /\ conn'[d].addr = From(q)'
        BY <1>6, <1>9, <3>2, <4>1, <4>4
      <4>5. QED
        BY <4>1, <4>3, <4>4 DEF Inv, AddrInv
    <3>3. QED
      BY <3>1, <3>2
  <2>2. QED
    BY <1>7, <2>1 DEF AddrInv
<1>11. \A d \in Conn, q \in Request :
         conn'[d].out = q => conn[d].out = q
  BY <1>6, NoneIsNone
<1>12. \A q \in Request : Leaving(q)' => Leaving(q)
  BY <1>1, <1>11 DEF Leaving
<1>13. \A q \in Request \ {r} : OnItsWay(q)' => OnItsWay(q)
  BY <1>1, <1>5, <1>12 DEF OnItsWay, InWorker
<1>14. OnItsWay(r)' => \A q \in Request \ {r} : OnItsWay(q)' <=> OnItsWay(q)
  <2>1. OnItsWay(r)' => r \in ToSet(shared')
    BY <1>1, <1>2, <1>12 DEF OnItsWay, InWorker
  <2>2. ASSUME conn' = conn, NEW q \in Request \ {r}, OnItsWay(q)
        PROVE  OnItsWay(q)'
    BY <1>1, <1>5, <2>2 DEF OnItsWay, InWorker, Leaving
  <2>3. QED
    BY <1>5, <1>13, <2>1, <2>2
<1>15. ASSUME NEW q \in Request
       PROVE  PlaceOf(q)'
  <2>1. CASE q = r
    <3>1. /\ ~Leaving(q)' /\ q \notin ToSet(inbound')
          /\ \A w \in Worker : ~InWorker(w, q)'
      BY <1>1, <1>2, <1>12, <2>1 DEF OnItsWay, InWorker
    <3>2. asked'[q] # None /\ answered'[q] = << >>
      BY <1>1, <1>2, <1>3, <2>1, NoneIsNone
    <3>3. QED
      BY <3>1, <3>2 DEF PlaceOf, Leaving
  <2>2. CASE q # r
    <3>1. PlaceOf(q) /\ (OnItsWay(q) => From(q)' = From(q))
      BY <1>9, <2>2 DEF Inv, PlaceInv, PlaceOf
    <3>2. q \in ToSet(shared') <=> q \in ToSet(shared)
      BY <1>5, <2>2
    <3>3. asked'[q] = asked[q]
      BY <1>3, <2>2
    <3>4. \A w \in Worker : InWorker(w, q)' <=> InWorker(w, q)
      BY <1>1 DEF InWorker
    <3>5. QED
      BY <1>1, <1>6, <1>11, <1>12, <1>13, <2>2, <3>1, <3>2, <3>3, <3>4
      DEF PlaceOf, OnItsWay, Leaving
  <2>3. QED
    BY <2>1, <2>2
<1>16. QED
  BY <1>1, <1>2, <1>7, <1>8, <1>10, <1>13, <1>14, <1>15
  DEF Inv, PlaceInv, Reads

\* The answer is written at the address its request came from.
Writes(c, r) ==
  /\ Stable
  /\ OnItsWay(r) /\ ~OnItsWay(r)'
  /\ conn[c].addr = From(r)
  /\ UNCHANGED asked
  /\ answered' = [answered EXCEPT ![r] = << c >>]
  /\ \A q \in Request \ {r} : OnItsWay(q)' <=> OnItsWay(q)

LEMMA WriteStep ==
  ASSUME Inv, NEW c \in Conn, Write(c)
  PROVE  Inv' /\ \E r \in Request : Writes(c, r)
<1>0. PICK r \in Request : r = conn[c].out
  BY DEF Write, Inv, LinkType, Connection
<1>1. /\ conn[c].at = "open" /\ r = conn[c].out
      /\ conn' = [conn EXCEPT ![c].out = None]
      /\ answered' = [answered EXCEPT ![r] = Append(answered[r], c)]
      /\ UNCHANGED <<shared, worker, inbound, outbound, asked>>
  BY <1>0 DEF Write, pipeline
<1>2. /\ PlaceOf(r) /\ OnItsWay(r) /\ Leaving(r)
      /\ answered[r] = << >> /\ asked[r] # None
      /\ conn[c].addr = From(r)
  <2>1. PlaceOf(r) /\ Leaving(r)
    BY <1>1 DEF Inv, PlaceInv, Leaving
  <2>2. QED
    BY <1>1, <2>1 DEF PlaceOf, OnItsWay
<1>3. conn[c] \in Connection
  BY DEF Inv, LinkType
<1>4. /\ conn' \in [Conn -> Connection]
      /\ \A d \in Conn : /\ conn'[d].at = conn[d].at
                         /\ conn'[d].addr = conn[d].addr
                         /\ conn'[d].out = IF d = c THEN None ELSE conn[d].out
  <2> DEFINE next == [conn[c] EXCEPT !.out = None]
  <2>1. next \in Connection /\ next.at = conn[c].at
        /\ next.addr = conn[c].addr /\ next.out = None
    BY <1>3 DEF Connection
  <2>2. conn' = [conn EXCEPT ![c] = next] /\ conn \in [Conn -> Connection]
    BY <1>1 DEF Inv, LinkType
  <2> HIDE DEF next
  <2>3. QED
    BY <2>1, <2>2
<1>5. answered' = [answered EXCEPT ![r] = << c >>]
  BY <1>1, <1>2
<1>6. << c >> \in Seq(Conn) /\ answered' \in [Request -> Seq(Conn)]
      /\ answered'[r] = << c >>
      /\ \A q \in Request \ {r} : answered'[q] = answered[q]
  <2>1. << c >> \in Seq(Conn)
    OBVIOUS
  <2>2. answered \in [Request -> Seq(Conn)]
    BY DEF Inv, LinkType
  <2>3. QED
    BY <1>5, <2>1, <2>2
<1>7. LinkType' /\ OnceInv'
  BY <1>1, <1>4, <1>6 DEF Inv, LinkType, OnceInv
<1>8. Stable /\ NewInv'
  BY <1>1, <1>4 DEF Stable, Inv, AddrInv, NewInv
<1>9. \A q \in Request : asked[q] # None => From(q)' = From(q)
  BY <1>1, <1>4 DEF From, Inv, LinkType
<1>10. AddrInv'
  <2>1. ASSUME NEW q \in Request
        PROVE  /\ asked'[q] # None => conn'[asked'[q]].at # "new"
               /\ \/ answered'[q] = << >>
                  \/ \E d \in Conn : /\ answered'[q] = << d >>
                                     /\ asked'[q] # None
                                     /\ conn'[d].at # "new"
                                     /\ conn'[d].addr = From(q)'
    <3>1. asked'[q] # None => conn'[asked'[q]].at # "new"
      BY <1>1, <1>4 DEF Inv, AddrInv, LinkType
    <3>2. CASE q = r
      BY <1>1, <1>2, <1>4, <1>6, <1>9, <3>1, <3>2
    <3>3. CASE q # r
      BY <1>1, <1>4, <1>6, <1>9, <3>1, <3>3 DEF Inv, AddrInv
    <3>4. QED
      BY <3>2, <3>3
  <2>2. QED
    BY <1>8, <2>1 DEF AddrInv
<1>11. \A d \in Conn, q \in Request \ {r} :
         conn'[d].out = q <=> conn[d].out = q
  BY <1>1, <1>4, NoneIsNone
<1>12. ASSUME NEW q \in Request \ {r}
       PROVE  (Leaving(q)' <=> Leaving(q)) /\ (OnItsWay(q)' <=> OnItsWay(q))
  <2>1. Leaving(q)' <=> Leaving(q)
    BY <1>1, <1>11 DEF Leaving
  <2>2. QED
    BY <1>1, <2>1 DEF OnItsWay, InWorker
<1>13. ~OnItsWay(r)'
  <2>1. /\ \A a \in Addr : r \notin ToSet(outbound[a])
        /\ \A d \in Conn \ {c} : conn[d].out # r
    BY <1>1, <1>2 DEF PlaceOf
  <2>2. ~Leaving(r)'
    BY <1>1, <1>4, <2>1, NoneIsNone DEF Leaving
  <2>3. QED
    BY <1>1, <1>2, <2>2 DEF PlaceOf, OnItsWay, InWorker
<1>14. ASSUME NEW q \in Request
       PROVE  PlaceOf(q)'
  <2>1. CASE q = r
    BY <1>13, <2>1 DEF PlaceOf, OnItsWay, Leaving
  <2>2. CASE q # r
    <3>1. PlaceOf(q) /\ (OnItsWay(q) => From(q)' = From(q))
      BY <1>9 DEF Inv, PlaceInv, PlaceOf
    <3>2. \A w \in Worker : InWorker(w, q)' <=> InWorker(w, q)
      BY <1>1 DEF InWorker
    <3>3. QED
      BY <1>1, <1>4, <1>6, <1>11, <1>12, <2>2, <3>1, <3>2
      DEF PlaceOf, OnItsWay, Leaving
  <2>3. QED
    BY <2>1, <2>2
<1>15. Writes(c, r)
  <2>1. UNCHANGED asked
    BY <1>1
  <2>2. \A q \in Request \ {r} : OnItsWay(q)' <=> OnItsWay(q)
    BY <1>12
  <2>3. QED
    BY ONLY <1>2, <1>5, <1>8, <1>13, <2>1, <2>2 DEF Writes
<1>16. QED
  BY <1>1, <1>7, <1>10, <1>14, <1>15 DEF Inv, PlaceInv

-----------------------------------------------------------------------------
\* Every step is quiet, reads a request or writes an answer.
LEMMA NextStep ==
  ASSUME Inv, [Next]_vars
  PROVE  /\ Inv'
         /\ \/ Quiet
            \/ \E c \in Conn, r \in Request : Reads(c, r) \/ Writes(c, r)
<1>1. ASSUME NEW c \in Conn,
             Connect(c) \/ EndTasks(c) \/ Reset(c) \/ CloseWriter(c) \/ Pop(c)
      PROVE  Inv' /\ Quiet
  BY <1>1, ConnectStep, CloseStep, PopStep
<1>2. ASSUME NEW c \in Conn, NEW r \in Request, Read(c, r)
      PROVE  Inv' /\ Reads(c, r)
  BY <1>2, ReadStep
<1>3. ASSUME NEW w \in Worker, Take(w) \/ Validate(w) \/ Flush(w)
      PROVE  Inv' /\ Quiet
  BY <1>3, TakeStep, ValidateStep, FlushStep
<1>4. CASE HssAnswer \/ HssDies \/ Restart
  BY <1>4, HssAnswerStep, HssDiesStep, RestartStep
<1>5. ASSUME NEW c \in Conn, Write(c)
      PROVE  Inv' /\ \E r \in Request : Writes(c, r)
  BY <1>5, WriteStep
<1>6. ASSUME NEW a \in Addr, Expire(a)
      PROVE  Inv' /\ Quiet
  BY <1>6, ExpireStep
<1>7. CASE Keep \/ UNCHANGED vars
  BY <1>7, IdleStep
  DEF Keep, Scan, Prune, StoreRow, KeeperStep, network, vars
<1>8. QED
  BY <1>1, <1>2, <1>3, <1>4, <1>5, <1>6, <1>7 DEF Next, Serve

-----------------------------------------------------------------------------
(***************************************************************************)
(* The refinement.                                                         *)
(***************************************************************************)

LEMMA PendingOnItsWay ==
  ASSUME NEW r \in Request
  PROVE  r \in Pending <=> OnItsWay(r)
<1> DEFINE works == UNION {{worker[w].msg} \cup ToSet(worker[w].batch) :
                             w \in Worker}
           outs == {conn[c].out : c \in Conn}
           lists == UNION {ToSet(outbound[a]) : a \in Addr}
<1>1. r \in Pending <=> \/ r \in ToSet(shared) \/ r \in ToSet(inbound)
                        \/ r \in works \/ r \in outs \/ r \in lists
  BY DEF Pending
<1>2. r \in works <=> \E w \in Worker : InWorker(w, r)
  BY DEF InWorker
<1>3. r \in outs <=> \E c \in Conn : conn[c].out = r
  OBVIOUS
<1>4. r \in lists <=> \E a \in Addr : r \in ToSet(outbound[a])
  OBVIOUS
<1> HIDE DEF works, outs, lists
<1>5. QED
  BY <1>1, <1>2, <1>3, <1>4 DEF OnItsWay, Leaving

\* The mapped state of one request.
MappedTo(r) ==
  /\ AskedAt[r] = IF asked[r] = None THEN None ELSE From(r)
  /\ asked[r] # None => From(r) \in Addr
  /\ AskedAt[r] # None <=> asked[r] # None
  /\ answered[r] = << >> => AnsweredAt[r] = << >>
  /\ answered[r] # << >> => asked[r] # None /\ AnsweredAt[r] = << From(r) >>
  /\ r \in Dropped <=> /\ asked[r] # None
                       /\ answered[r] = << >>
                       /\ ~OnItsWay(r)

LEMMA Mapped ==
  ASSUME Inv, NEW r \in Request
  PROVE  MappedTo(r)
<1>1. asked[r] # None => From(r) \in Addr
  BY DEF Inv, LinkType, AddrInv, NewInv, From
<1>2. AskedAt[r] = IF asked[r] = None THEN None ELSE From(r)
  BY DEF AskedAt
<1>3. ASSUME answered[r] = << >>
      PROVE  AnsweredAt[r] = << >>
  BY <1>3 DEF AnsweredAt
<1>4. ASSUME answered[r] # << >>
      PROVE  asked[r] # None /\ AnsweredAt[r] = << From(r) >>
  <2>1. PICK c \in Conn : /\ answered[r] = << c >> /\ asked[r] # None
                          /\ conn[c].addr = From(r)
    BY <1>4 DEF Inv, AddrInv
  <2>2. Len(answered[r]) = 1 /\ answered[r][1] = c
    BY <2>1
  <2>3. AnsweredAt[r] = [i \in 1 .. 1 |-> conn[answered[r][i]].addr]
    BY <2>2 DEF AnsweredAt
  <2>4. \A i \in 1 .. 1 : conn[answered[r][i]].addr = From(r)
    BY <2>1, <2>2
  <2>5. AnsweredAt[r] = [i \in 1 .. 1 |-> From(r)]
    BY <2>3, <2>4
  <2>6. QED
    BY <2>1, <2>5
<1>5. r \in Dropped <=> /\ asked[r] # None
                        /\ answered[r] = << >>
                        /\ ~OnItsWay(r)
  BY PendingOnItsWay DEF Dropped
<1>6. QED
  BY <1>1, <1>2, <1>3, <1>4, <1>5, NoneIsNone DEF MappedTo

LEMMA MappedNext ==
  ASSUME NEW r \in Request
  PROVE  Inv' => MappedTo(r)'
<1>1. Inv => MappedTo(r)
  BY Mapped
<1>2. QED
  BY <1>1, PTL

LEMMA QuietDrops ==
  ASSUME Inv, Inv', Quiet
  PROVE  Promise!Drop
<1>1. ASSUME NEW r \in Request
      PROVE  /\ AskedAt'[r] = AskedAt[r]
             /\ AnsweredAt'[r] = AnsweredAt[r]
             /\ r \in Dropped => r \in Dropped'
             /\ r \in Dropped' \ Dropped => Promise!Open(r)
  <2>1. asked' = asked /\ answered' = answered
        /\ (OnItsWay(r)' => OnItsWay(r))
    BY DEF Quiet
  <2>2. asked[r] # None => From(r)' = From(r)
    BY <2>1, StableAddr DEF Quiet, Inv, AddrInv
  <2>3. MappedTo(r) /\ MappedTo(r)'
    BY Mapped, MappedNext
  <2>4. QED
    BY <2>1, <2>2, <2>3 DEF MappedTo, Promise!Open
<1>2. AskedAt' = AskedAt /\ AnsweredAt' = AnsweredAt
  BY <1>1 DEF AskedAt, AnsweredAt
<1>3. QED
  BY <1>1, <1>2 DEF Promise!Drop, Dropped

LEMMA ReadAsks ==
  ASSUME Inv, Inv', NEW c \in Conn, NEW r \in Request, Reads(c, r)
  PROVE  Promise!Ask(r) \/ Promise!Refuse(r)
<1> DEFINE a == conn[c].addr
<1>1. PICK b \in Addr : b = conn[c].addr
  BY DEF Reads, Inv, AddrInv, NewInv
<1>2. /\ asked[r] = None /\ asked'[r] = c /\ c # None
      /\ \A q \in Request \ {r} : asked'[q] = asked[q]
      /\ answered' = answered
  BY NoneIsNone DEF Reads, Inv, LinkType
<1>3. From(r)' = b
  BY <1>1, <1>2 DEF From, Reads, Stable
<1>4. \A q \in Request \ {r} : asked[q] # None => From(q)' = From(q)
  BY <1>2 DEF From, Reads, Stable, Inv, AddrInv, LinkType
<1>5. \A q \in Request : MappedTo(q) /\ MappedTo(q)'
  BY Mapped, MappedNext
<1>6. /\ AskedAt[r] = None /\ AskedAt'[r] = b
      /\ \A q \in Request \ {r} : AskedAt'[q] = AskedAt[q]
  BY <1>2, <1>3, <1>4, <1>5 DEF MappedTo
<1>7. AskedAt' = [AskedAt EXCEPT ![r] = b]
  BY <1>6 DEF AskedAt
<1>8. \A q \in Request : AnsweredAt'[q] = AnsweredAt[q]
  BY <1>2, <1>4, <1>5 DEF MappedTo
<1>9. AnsweredAt' = AnsweredAt
  BY <1>8 DEF AnsweredAt
<1>10. answered[r] = << >>
  BY <1>2, <1>5 DEF MappedTo
<1>11. ASSUME NEW q \in Request \ {r}
       PROVE  /\ q \in Dropped => q \in Dropped'
              /\ q \in Dropped' \ Dropped => Promise!Open(q)
  BY <1>2, <1>5 DEF MappedTo, Reads, Promise!Open
<1>12. CASE OnItsWay(r)'
  <2>1. \A q \in Request \ {r} : OnItsWay(q)' <=> OnItsWay(q)
    BY <1>12 DEF Reads
  <2>2. \A q \in Request : q \in Dropped' <=> q \in Dropped
    BY <1>2, <1>5, <1>12, <2>1 DEF MappedTo
  <2>3. Dropped' = Dropped
    BY <2>2 DEF Dropped
  <2>4. QED
    BY <1>1, <1>6, <1>7, <1>9, <2>3 DEF Promise!Ask
<1>13. CASE ~OnItsWay(r)'
  <2>1. r \in Dropped' /\ r \notin Dropped
    BY <1>2, <1>5, <1>10, <1>13 DEF MappedTo
  <2>2. Dropped \cup {r} \subseteq Dropped'
    <3>1. ASSUME NEW q \in Dropped \cup {r}
          PROVE  q \in Dropped'
      <4>1. q \in Request
        BY DEF Dropped
      <4>2. CASE q \in Dropped /\ q # r
        BY <1>11, <4>1, <4>2
      <4>3. QED
        BY <2>1, <3>1, <4>2
    <3>2. QED
      BY <3>1
  <2>3. \A q \in Dropped' \ (Dropped \cup {r}) : Promise!Open(q)
    BY <1>11 DEF Dropped
  <2>4. QED
    BY <1>1, <1>6, <1>7, <1>9, <2>2, <2>3 DEF Promise!Refuse
<1>14. QED
  BY <1>12, <1>13

LEMMA WriteAnswers ==
  ASSUME Inv, Inv', NEW c \in Conn, NEW r \in Request, Writes(c, r)
  PROVE  Promise!Answer(r)
<1>1. asked[r] # None /\ answered[r] = << >>
  BY DEF Writes, Inv, PlaceInv, PlaceOf
<1>2. /\ asked' = asked
      /\ answered'[r] = << c >>
      /\ \A q \in Request \ {r} : answered'[q] = answered[q]
  BY DEF Writes, Inv, LinkType
<1>3. \A q \in Request : asked[q] # None => From(q)' = From(q)
  <2>1. \A q \in Request :
          asked[q] # None => asked[q] \in Conn /\ conn[asked[q]].at # "new"
    BY DEF Inv, AddrInv, LinkType
  <2>2. QED
    BY <1>2, <2>1 DEF From, Writes, Stable
<1>4. \A q \in Request : MappedTo(q) /\ MappedTo(q)'
  BY Mapped, MappedNext
<1>5. \A q \in Request : AskedAt'[q] = AskedAt[q]
  BY <1>2, <1>3, <1>4 DEF MappedTo
<1>6. AskedAt' = AskedAt
  BY <1>5 DEF AskedAt
<1>7. << c >> # << >>
  OBVIOUS
<1>8. /\ AnsweredAt'[r] = << AskedAt[r] >>
      /\ \A q \in Request \ {r} : AnsweredAt'[q] = AnsweredAt[q]
  BY <1>1, <1>2, <1>3, <1>4, <1>7 DEF MappedTo
<1>9. AnsweredAt' = [AnsweredAt EXCEPT ![r] = << AskedAt[r] >>]
  BY <1>8 DEF AnsweredAt
<1>10. \A q \in Request : q \in Dropped' <=> q \in Dropped
  BY <1>1, <1>2, <1>4, <1>7 DEF MappedTo, Writes
<1>11. Dropped' = Dropped
  BY <1>10 DEF Dropped
<1>12. Promise!Open(r)
  BY <1>1, <1>4 DEF MappedTo, Promise!Open, Writes
<1>13. QED
  BY <1>6, <1>9, <1>11, <1>12 DEF Promise!Answer

LEMMA InvHolds == Spec => []Inv
<1>1. Inv /\ [Next]_vars => Inv'
  BY NextStep
<1>2. QED
  BY <1>1, InitInv, PTL DEF Spec

\* handleConnection to writeOutboundData: for any peers, workers, queue and
\* faults, a request is answered at most once, at the address it came from,
\* and never once it is dropped; the service and the worker implement Exchange
\* but for the promise that no request stays open for ever.
THEOREM ImplementsExchange == Spec => Promise!Safe
<1>1. Init => Promise!Init
  <2> SUFFICES ASSUME Init PROVE Promise!Init
    OBVIOUS
  <2>1. \A r \in Request : asked[r] = None /\ answered[r] = << >>
    BY DEF Init
  <2>2. \A r \in Request : MappedTo(r)
    BY InitInv, Mapped
  <2>3. AskedAt = [r \in Request |-> None] /\ Dropped = {}
    BY <2>1 DEF AskedAt, Dropped
  <2>4. AnsweredAt = [r \in Request |-> << >>]
    BY <2>1, <2>2 DEF MappedTo, AnsweredAt
  <2>5. QED
    BY <2>3, <2>4 DEF Promise!Init
<1>2. Inv /\ Inv' /\ [Next]_vars => [Promise!Next]_(Promise!vars)
  BY NextStep, QuietDrops, ReadAsks, WriteAnswers DEF Promise!Next
<1>3. QED
  BY <1>1, <1>2, InvHolds, PTL DEF Spec, Promise!Safe

-----------------------------------------------------------------------------
(***************************************************************************)
(* The table of peers.                                                     *)
(***************************************************************************)

\* What the housekeeping is at: it has something to prune while it prunes.
KeeperType ==
  \/ keeper \in [at : {"idle", "store"}, todo : Seq(Addr)]
  \/ /\ keeper \in [at : {"prune"}, todo : Seq([addr : Addr, since : Conn])]
     /\ keeper.todo # << >>

\* The types of the rest.
TableType ==
  /\ peers \in [Addr -> Entry \cup {None}]
  /\ hash \in [Addr -> Entry \cup {None}]
  /\ KeeperType
  /\ Len(shared) <= QueueSize
  /\ odd \subseteq Request /\ pruned \subseteq Addr /\ racy \subseteq Addr
  /\ faults \in Nat

\* Connections are opened in their order, and an address has one at a time.
ConnsInv ==
  /\ \A c, d \in Conn : c < d /\ conn[c].at = "new" => conn[d].at = "new"
  /\ \A c \in Conn : IF conn[c].at = "new" THEN conn[c].host = None
                     ELSE conn[c].host \in Host
  /\ \A c, d \in Conn : /\ c < d /\ conn[d].at # "new"
                        /\ conn[c].addr = conn[d].addr
                        => conn[c].at \in {"closed", "lost"}

NoneShared == \A a \in Addr : ~Shared(a)

LastOf(a, c) ==
  /\ conn[c].addr = a
  /\ \A d \in Conn : conn[d].addr = a => d <= c

\* A row is that of the last connection from its address.
RowOf(a, row) ==
  /\ LastOf(a, row.since)
  /\ row.up <=> conn[row.since].at # "closed"
  /\ row.host # None /\ NoneShared => row.host = conn[row.since].host

RowsInv == \A a \in Addr : peers[a] # None => RowOf(a, peers[a])

\* What is to be pruned was closed, or its host has connected again since.
Stale(e) ==
  /\ conn[e.since].addr = e.addr
  /\ \/ conn[e.since].at = "closed"
     \/ NoneShared => \E d \in Conn : /\ e.since < d
                                      /\ conn[d].host = conn[e.since].host

PruneInv == keeper.at = "prune" => \A e \in ToSet(keeper.todo) : Stale(e)

NewestInv == NoneShared => \A c \in Conn : NewestKept(c)

TableInv == TableType /\ ConnsInv /\ RowsInv /\ PruneInv /\ NewestInv

\* What Served asks of a request.
Cond(r) ==
  /\ asked[r] # None /\ faults = 0
  /\ conn[asked[r]].at = "open"
  /\ \A d \in Conn \ {asked[r]} : conn[d].addr # From(r)
  /\ \A q \in Request : asked[q] # None => From(q) \notin pruned

\* Without faults and pruned rows, no request is lost.
ServedInv ==
  /\ faults = 0 => odd = {}
  /\ faults = 0 => \A c \in Conn :
       conn[c].at # "new" /\ conn[c].addr \notin pruned =>
         peers[conn[c].addr] # None
  /\ \A r \in Request : Cond(r) => OnItsWay(r) \/ answered[r] # << >>

-----------------------------------------------------------------------------
(***************************************************************************)
(* The lists of the housekeeping.                                          *)
(***************************************************************************)

LEMMA ElementFacts ==
  ASSUME NEW S, NEW list \in Seq(S)
  PROVE  /\ ToSet(list) \subseteq S
         /\ Len(list) \in Nat
         /\ Len(list) # 0 => list # << >>
BY LenProperties DEF ToSet

LEMMA SetToSeqFacts ==
  ASSUME NEW S, IsFiniteSet(S)
  PROVE  SetToSeq(S) \in Seq(S) /\ (S # {} => SetToSeq(S) # << >>)
<1> DEFINE n == Cardinality(S)
<1>1. n \in Nat /\ ExistsBijection(1 .. n, S) /\ (n = 0 <=> S = {})
  BY FS_CardinalityType, FS_EmptySet
<1>2. PICK f : f \in Bijection(1 .. n, S)
  BY <1>1 DEF ExistsBijection
<1>3. /\ f \in [1 .. n -> S]
      /\ \A i, j \in 1 .. n : f[i] = f[j] => i = j
  BY <1>2, Fun_BijectionProperties
<1>4. f \in [1 .. n -> S] /\ IsInjective(f)
  BY <1>3 DEF IsInjective
<1>5. SetToSeq(S) \in [1 .. n -> S]
  BY <1>4 DEF SetToSeq
<1> HIDE DEF n
<1>6. SetToSeq(S) \in Seq(S)
  BY <1>1, <1>5, IsASeq
<1>7. Len(SetToSeq(S)) = n
  BY <1>1, <1>5, <1>6, LenProperties
<1>8. S # {} => SetToSeq(S) # << >>
  BY <1>1, <1>7
<1>9. QED
  BY <1>6, <1>8

LEMMA KnownIsFinite ==
  ASSUME LinkType, RowsInv, TableType
  PROVE  IsFiniteSet(Known)
<1> DEFINE f == [c \in Conn |-> conn[c].addr]
           T == {conn[c].addr : c \in Conn}
<1>1. IsFiniteSet(Conn)
  BY FS_Interval, DiameterAssumption DEF Conn
<1>2. f \in Surjection(Conn, T)
  <2>1. f \in [Conn -> T] /\ \A t \in T : \E c \in Conn : f[c] = t
    OBVIOUS
  <2>2. QED
    BY <2>1, Fun_IsSurj
<1>3. IsFiniteSet(T)
  BY <1>1, <1>2, FS_Surjection
<1>4. ASSUME NEW a \in Known
      PROVE  a \in T
  <2>1. peers[a] \in Entry /\ RowOf(a, peers[a])
    BY DEF Known, RowsInv, TableType
  <2>2. peers[a].since \in Conn /\ conn[peers[a].since].addr = a
    BY <2>1 DEF Entry, RowOf, LastOf
  <2>3. QED
    BY <2>2
<1>5. QED
  BY <1>3, <1>4, FS_Subset

\* The rows of a set of addresses.
LEMMA RowsFacts ==
  ASSUME LinkType, RowsInv, TableType, NEW A \in SUBSET Known
  PROVE  /\ Rows(A) \in Seq([addr : Addr, since : Conn])
         /\ A # {} => Rows(A) # << >>
         /\ \A e \in ToSet(Rows(A)) :
              e.addr \in A /\ e.since = peers[e.addr].since
<1> DEFINE order == SetToSeq(A)
           n == Len(order)
<1>1. IsFiniteSet(A)
  BY KnownIsFinite, FS_Subset
<1>2. order \in Seq(A) /\ (A # {} => order # << >>)
  BY <1>1, SetToSeqFacts
<1>3. /\ n \in Nat /\ DOMAIN order = 1 .. n
      /\ \A i \in 1 .. n : order[i] \in A
      /\ A # {} => n # 0
  BY <1>2, LenProperties, EmptySeq
<1>4. Rows(A) = [i \in 1 .. n |-> [addr |-> order[i],
                                  since |-> peers[order[i]].since]]
  BY <1>3 DEF Rows
<1> HIDE DEF order, n
<1>5. \A a \in A : a \in Addr /\ peers[a].since \in Conn
  BY DEF Known, TableType, Entry
<1>6. Rows(A) \in [1 .. n -> [addr : Addr, since : Conn]]
  BY <1>3, <1>4, <1>5
<1>7. /\ Rows(A) \in Seq([addr : Addr, since : Conn])
      /\ A # {} => Rows(A) # << >>
  <2> DEFINE R == [addr : Addr, since : Conn]
  <2> HIDE DEF R
  <2>1. Rows(A) \in [1 .. n -> R]
    BY <1>6 DEF R
  <2>2. Rows(A) \in Seq(R)
    BY <1>3, <2>1, IsASeq
  <2>3. Len(Rows(A)) = n
    BY <1>3, <2>1, <2>2, LenProperties
  <2>4. A # {} => Rows(A) # << >>
    BY <1>3, <2>2, <2>3, ElementFacts
  <2>5. QED
    BY <2>2, <2>4 DEF R
<1>8. \A e \in ToSet(Rows(A)) : e.addr \in A /\ e.since = peers[e.addr].since
  BY <1>3, <1>4 DEF ToSet
<1>9. QED
  BY <1>7, <1>8

LEMMA StoreType ==
  ASSUME LinkType, RowsInv, TableType, NEW A \in SUBSET Known, Store(A)
  PROVE  KeeperType' /\ keeper'.at = "store"
<1>1. SetToSeq(A) \in Seq(A)
  BY KnownIsFinite, FS_Subset, SetToSeqFacts
<1>2. A \subseteq Addr
  BY DEF Known
<1>3. SetToSeq(A) \in Seq(Addr)
  BY <1>1, <1>2
<1>4. QED
  BY <1>3 DEF Store, KeeperType

-----------------------------------------------------------------------------
(***************************************************************************)
(* What every step leaves of the connections, and what depends on it.      *)
(***************************************************************************)

Steady ==
  \A c \in Conn :
    conn[c].at # "new" =>
      /\ conn'[c].at # "new"
      /\ conn'[c].addr = conn[c].addr /\ conn'[c].host = conn[c].host
      /\ conn[c].at = "closed" => conn'[c].at = "closed"

\* A connection with an address has a host.
LEMMA AddressedIsHosted ==
  ASSUME NewInv, ConnsInv, NEW c \in Conn
  PROVE  /\ conn[c].addr \in Addr <=> conn[c].at # "new"
         /\ conn[c].host \in Host <=> conn[c].at # "new"
         /\ conn[c].at = "new" => conn[c].addr = None /\ conn[c].host = None
         /\ None \notin Addr /\ None \notin Host
BY DiameterAssumption DEF NewInv, ConnsInv

LEMMA SharedKept ==
  ASSUME NewInv, ConnsInv, Steady, NoneShared'
  PROVE  NoneShared
<1> SUFFICES ASSUME NEW a \in Addr, Shared(a) PROVE FALSE
  BY DEF NoneShared
<1>1. PICK c, d \in Conn : /\ conn[c].addr = a /\ conn[d].addr = a
                           /\ conn[c].host # conn[d].host
  BY DEF Shared
<1>2. /\ conn'[c].addr = a /\ conn'[d].addr = a
      /\ conn'[c].host # conn'[d].host
  BY <1>1, AddressedIsHosted DEF Steady
<1>3. QED
  BY <1>2 DEF NoneShared, Shared

LEMMA StaleKept ==
  ASSUME NewInv, ConnsInv, Steady,
         NEW e \in [addr : Addr, since : Conn], Stale(e)
  PROVE  Stale(e)'
<1> DEFINE s == e.since
<1>1. s \in Conn /\ e.addr \in Addr /\ conn[s].addr = e.addr
  BY DEF Stale
<1>2. /\ conn[s].at # "new" /\ conn[s].host \in Host
      /\ conn'[s].addr = conn[s].addr /\ conn'[s].host = conn[s].host
  BY <1>1, AddressedIsHosted DEF Steady
<1>3. ASSUME NEW d \in Conn, conn[d].host = conn[s].host
      PROVE  conn'[d].host = conn'[s].host
  BY <1>2, <1>3, AddressedIsHosted DEF Steady
<1>4. QED
  BY <1>1, <1>2, <1>3, SharedKept DEF Stale, Steady

LEMMA PruneKept ==
  ASSUME NewInv, ConnsInv, Steady, TableType, PruneInv,
         keeper' = keeper \/ keeper'.at # "prune"
  PROVE  PruneInv'
<1>1. CASE keeper'.at # "prune"
  BY <1>1 DEF PruneInv
<1>2. CASE keeper' = keeper /\ keeper.at = "prune"
  <2>1. keeper.todo \in Seq([addr : Addr, since : Conn])
    BY <1>2 DEF TableType, KeeperType
  <2>2. \A e \in ToSet(keeper.todo) : e \in [addr : Addr, since : Conn]
    BY <2>1, ElementFacts
  <2>3. QED
    BY <1>2, <2>2, StaleKept DEF PruneInv
<1>3. QED
  BY <1>1, <1>2

\* Steps that neither open, end nor close a connection, and leave the table.
LEMMA TableKept ==
  ASSUME Inv, TableInv, UNCHANGED table,
         \A c \in Conn : /\ conn'[c].at = conn[c].at
                         /\ conn'[c].addr = conn[c].addr
                         /\ conn'[c].host = conn[c].host,
         Len(shared') <= QueueSize, odd' \subseteq Request, faults' \in Nat
  PROVE  TableInv'
<1> USE DEF table
<1>1. TableType'
  BY DEF TableInv, TableType, KeeperType
<1>2. ConnsInv'
  BY DEF TableInv, ConnsInv
<1>3. Steady /\ NewInv
  BY DEF Steady, Inv, AddrInv
<1>4. NoneShared' => NoneShared
  BY <1>3, SharedKept DEF TableInv
<1>5. RowsInv'
  <2>1. ASSUME NEW a \in Addr, peers[a] # None
        PROVE  RowOf(a, peers[a])'
    <3>1. RowOf(a, peers[a]) /\ peers[a].since \in Conn
      BY <2>1 DEF TableInv, RowsInv, TableType, Entry
    <3>2. QED
      BY <1>4, <3>1 DEF RowOf, LastOf
  <2>2. QED
    BY <2>1 DEF RowsInv
<1>6. PruneInv'
  BY <1>3, PruneKept DEF TableInv
<1>7. NewestInv'
  BY <1>4 DEF TableInv, NewestInv, NewestKept
<1>8. QED
  BY <1>1, <1>2, <1>5, <1>6, <1>7 DEF TableInv

LEMMA ConnectTable ==
  ASSUME Inv, TableInv, NEW c \in Conn, Connect(c)
  PROVE  TableInv'
<1>1. PICK a \in Addr, h \in Host :
        /\ \A d \in Conn : conn[d].addr = a => Gone(d)
        /\ conn' = [conn EXCEPT ![c] = [at |-> "open", addr |-> a, host |-> h,
                                       out |-> None]]
        /\ peers' = [peers EXCEPT ![a] = Connected(@, c)]
        /\ keeper' = IF keeper.at = "store" /\ peers[a] = None THEN AtRest
                     ELSE keeper
  BY DEF Connect
<1>2. /\ conn[c].at = "new" /\ \A d \in 1 .. c - 1 : conn[d].at # "new"
      /\ UNCHANGED <<hash, pruned, racy, shared, odd, faults>>
  BY DEF Connect, pipeline, network
<1>3. /\ conn'[c].at = "open" /\ conn'[c].addr = a /\ conn'[c].host = h
      /\ \A d \in Conn \ {c} : conn'[d] = conn[d]
      /\ conn[c].addr = None /\ conn[c].host = None
      /\ NewInv /\ ConnsInv /\ LinkType
  BY <1>1, <1>2 DEF Inv, LinkType, AddrInv, NewInv, TableInv, ConnsInv
<1>4. \A d \in Conn : /\ d < c <=> conn[d].at # "new"
                      /\ c < d => conn[d].at = "new"
                      /\ d \in Nat
  <2>1. \A d \in Conn : d \in Nat /\ (d < c => d \in 1 .. c - 1)
    BY DEF Conn
  <2>2. \A d \in Conn : c < d => conn[d].at = "new"
    BY <1>2 DEF TableInv, ConnsInv
  <2>3. \A d \in Conn : d = c \/ d < c \/ c < d
    BY <2>1
  <2>4. \A d \in Conn : d < c => ~(c < d) /\ d # c
    BY <2>1
  <2>5. QED
    BY <1>2, <2>1, <2>2, <2>3, <2>4
<1>5. /\ peers'[a] = Connected(peers[a], c)
      /\ \A b \in Addr \ {a} : peers'[b] = peers[b]
      /\ peers[a] \in Entry \cup {None}
  BY <1>1 DEF TableInv, TableType
<1>6. Connected(peers[a], c) \in Entry /\ Connected(peers[a], c) # None
  <2>1. Connected(peers[a], c) \in Entry
    BY <1>5 DEF Connected, Entry
  <2>2. QED
    BY <2>1, RowAssumption
<1>7. TableType'
  <2>1. peers' \in [Addr -> Entry \cup {None}]
    BY <1>1, <1>6 DEF TableInv, TableType
  <2>2. KeeperType'
    BY <1>1 DEF TableInv, TableType, KeeperType, AtRest
  <2>3. QED
    BY <1>2, <2>1, <2>2 DEF TableInv, TableType
<1>8. ConnsInv'
  <2>1. ASSUME NEW p \in Conn, NEW q \in Conn, p < q, conn'[p].at = "new"
        PROVE  conn'[q].at = "new"
    BY <1>3, <1>4, <2>1 DEF ConnsInv
  <2>2. ASSUME NEW p \in Conn
        PROVE  IF conn'[p].at = "new" THEN conn'[p].host = None
               ELSE conn'[p].host \in Host
    BY <1>3 DEF ConnsInv
  <2>3. ASSUME NEW p \in Conn, NEW q \in Conn, p < q, conn'[q].at # "new",
               conn'[p].addr = conn'[q].addr
        PROVE  conn'[p].at \in {"closed", "lost"}
    <3>1. CASE q = c
      <4>1. p # c /\ conn[p].at # "new" /\ conn[p].addr = a
        BY <1>3, <1>4, <2>3, <3>1
      <4>2. QED
        BY <1>1, <1>3, <4>1 DEF Gone
    <3>2. CASE q # c
      <4>1. conn[q].at # "new" /\ q < c /\ p < c /\ p # c
        BY <1>3, <1>4, <2>3, <3>2
      <4>2. QED
        BY <1>3, <2>3, <3>2, <4>1 DEF ConnsInv
    <3>3. QED
      BY <3>1, <3>2
  <2>4. QED
    BY <2>1, <2>2, <2>3 DEF ConnsInv
<1>9. Steady
  BY <1>2, <1>3 DEF Steady
<1>10. NoneShared' => NoneShared
  BY <1>3, <1>9, SharedKept
<1>11. RowsInv'
  <2>1. ASSUME NEW b \in Addr, peers'[b] # None, b # a
        PROVE  RowOf(b, peers[b])'
    <3>1. /\ peers'[b] = peers[b] /\ peers[b].since \in Conn
          /\ RowOf(b, peers[b])
      BY <1>5, <2>1 DEF TableInv, TableType, RowsInv, Entry
    <3>2. peers[b].since # c
      BY <1>3, <3>1, NoneIsNone DEF RowOf, LastOf
    <3>3. \A d \in Conn : conn'[d].addr = b => conn[d].addr = b
      BY <1>3, <2>1
    <3>4. QED
      BY <1>3, <1>10, <3>1, <3>2, <3>3 DEF RowOf, LastOf
  <2>2. RowOf(a, peers[a])'
    <3>1. /\ peers'[a].since = c /\ peers'[a].up = TRUE
          /\ peers'[a].host = IF peers[a] = None THEN None ELSE peers[a].host
      BY <1>5 DEF Connected
    <3>2. ASSUME NEW d \in Conn, conn'[d].addr = a
          PROVE  d <= c
      <4>1. d # c => conn[d].addr = a /\ conn[d].at # "new"
        BY <1>3, <3>2, AddressedIsHosted
      <4>2. QED
        BY <1>4, <4>1
    <3>3. ASSUME peers'[a].host # None, NoneShared'
          PROVE  peers'[a].host = conn'[c].host
      <4> DEFINE s == peers[a].since
      <4>1. peers[a] # None /\ peers'[a].host = peers[a].host
        BY <3>1, <3>3
      <4>2. RowOf(a, peers[a]) /\ s \in Conn
        BY <1>5, <4>1 DEF TableInv, RowsInv, Entry
      <4>3. conn[s].addr = a /\ peers[a].host = conn[s].host
        BY <1>10, <3>3, <4>1, <4>2 DEF RowOf, LastOf
      <4>4. s # c
        BY <1>3, <4>3, NoneIsNone
      <4>5. conn'[s].addr = a /\ conn'[s].host = conn[s].host
        BY <1>3, <4>2, <4>3, <4>4
      <4>6. ~Shared(a)'
        BY <3>3 DEF NoneShared
      <4>7. conn'[s].host = conn'[c].host
        BY <1>3, <4>2, <4>5, <4>6 DEF Shared
      <4>8. QED
        BY <4>1, <4>3, <4>5, <4>7
    <3>4. QED
      BY <1>3, <3>1, <3>2, <3>3 DEF RowOf, LastOf
  <2>3. QED
    BY <2>1, <2>2 DEF RowsInv
<1>12. PruneInv'
  BY <1>1, <1>3, <1>9, PruneKept DEF TableInv, AtRest
<1>13. NewestInv'
  <2> SUFFICES ASSUME NoneShared', NEW d \in Conn
               PROVE  NewestKept(d)'
    BY DEF NewestInv
  <2>1. NewestKept(d)
    BY <1>10 DEF TableInv, NewestInv
  <2>2. CASE conn'[d].addr = a
    BY <1>5, <1>6, <2>2 DEF NewestKept
  <2>3. CASE conn'[d].addr # a
    <3>1. d # c /\ conn'[d] = conn[d]
      BY <1>3, <2>3
    <3> SUFFICES ASSUME conn'[d].at = "open", conn'[d].addr \notin racy',
                        \A e \in Conn : conn'[e].host = conn'[d].host => e <= d
                 PROVE  peers'[conn'[d].addr] # None
      BY DEF NewestKept
    <3>2. conn[d].host # None /\ conn[d].addr \in Addr
      BY <1>3, <3>1, AddressedIsHosted
    <3>3. \A e \in Conn : conn[e].host = conn[d].host => e <= d
      BY <1>3, <3>1, <3>2
    <3>4. peers[conn[d].addr] # None
      BY <1>2, <2>1, <3>1, <3>3 DEF NewestKept
    <3>5. QED
      BY <1>5, <2>3, <3>1, <3>2, <3>4
  <2>4. QED
    BY <2>2, <2>3
<1>14. QED
  BY <1>7, <1>8, <1>11, <1>12, <1>13 DEF TableInv

\* The end of a connection's tasks, its reset, and its close, with which its
\* row is no longer connected.
Ends(c, at) ==
  /\ conn[c].at \in {"open", "ending"}
  /\ at \in {"ending", "closed", "lost"}
  /\ conn'[c].at = at
  /\ conn'[c].addr = conn[c].addr /\ conn'[c].host = conn[c].host
  /\ \A d \in Conn \ {c} : conn'[d] = conn[d]
  /\ peers' = IF at = "closed" THEN [peers EXCEPT ![conn[c].addr] = Down(@)]
              ELSE peers

LEMMA EndsTable ==
  ASSUME Inv, TableInv, NEW c \in Conn, NEW at, Ends(c, at),
         UNCHANGED <<hash, keeper, pruned, racy, shared>>,
         odd' \subseteq Request, faults' \in Nat
  PROVE  TableInv'
<1> DEFINE a == conn[c].addr
<1>1. NewInv /\ ConnsInv /\ a \in Addr
  BY DEF Inv, AddrInv, NewInv, TableInv, Ends
<1> HIDE DEF a
<1>2. /\ Steady
      /\ \A d \in Conn : /\ conn'[d].addr = conn[d].addr
                         /\ conn'[d].host = conn[d].host
                         /\ conn'[d].at = "new" <=> conn[d].at = "new"
                         /\ conn[d].at \in {"closed", "lost"} =>
                              conn'[d].at = conn[d].at
                         /\ conn'[d].at = "open" => conn[d].at = "open"
  BY DEF Ends, Steady
<1>3. NoneShared' => NoneShared
  BY <1>1, <1>2, SharedKept
<1>4. ASSUME NEW b \in Addr
      PROVE  /\ peers'[b] \in Entry \cup {None}
             /\ peers'[b] = None <=> peers[b] = None
             /\ peers[b] # None =>
                  /\ peers'[b].host = peers[b].host
                  /\ peers'[b].since = peers[b].since
                  /\ peers'[b].up = IF b = a /\ at = "closed" THEN FALSE
                                    ELSE peers[b].up
  <2>1. peers[b] \in Entry \cup {None}
    BY DEF TableInv, TableType
  <2>2. peers'[b] = IF b = a /\ at = "closed" THEN Down(peers[b])
                    ELSE peers[b]
    BY <1>1 DEF Ends, TableInv, TableType, a
  <2>3. peers[b] # None =>
          /\ Down(peers[b]) \in Entry /\ Down(peers[b]).up = FALSE
          /\ Down(peers[b]).host = peers[b].host
          /\ Down(peers[b]).since = peers[b].since
    BY <2>1 DEF Down, Entry
  <2>4. Down(None) = None
    BY DEF Down
  <2>5. QED
    BY <2>1, <2>2, <2>3, <2>4, RowAssumption
<1>5. TableType'
  <2>1. peers' \in [Addr -> Entry \cup {None}]
    BY <1>4 DEF Ends, TableInv, TableType
  <2>2. QED
    BY <2>1 DEF TableInv, TableType, KeeperType
<1>6. ConnsInv'
  BY <1>1, <1>2 DEF ConnsInv
<1>7. RowsInv'
  <2>1. ASSUME NEW b \in Addr, peers'[b] # None
        PROVE  RowOf(b, peers[b])'
    <3>0. /\ peers[b] # None /\ RowOf(b, peers[b])
          /\ peers[b].since \in Conn
      BY <1>4, <2>1 DEF TableInv, RowsInv, TableType, Entry
    <3>1. PICK s \in Conn :
            /\ peers[b] # None /\ s = peers[b].since /\ LastOf(b, s)
            /\ peers[b].up <=> conn[s].at # "closed"
            /\ peers[b].host # None /\ NoneShared =>
                 peers[b].host = conn[s].host
      BY <3>0 DEF RowOf
    <3>2. b = a <=> s = c
      <4>1. s = c => b = a
        BY <3>1 DEF LastOf, a
      <4>2. ASSUME b = a, s # c
            PROVE  FALSE
        <5>1. c <= s /\ conn[s].addr = a
          BY <3>1, <4>2 DEF LastOf, a
        <5>2. c < s
          BY <3>1, <4>2, <5>1 DEF Conn
        <5>3. conn[s].at # "new"
          BY <1>1, <3>1, <5>1, AddressedIsHosted
        <5>4. conn[c].at \in {"closed", "lost"}
          BY <3>1, <5>1, <5>2, <5>3 DEF TableInv, ConnsInv, a
        <5>5. QED
          BY <5>4 DEF Ends
      <4>3. QED
        BY <4>1, <4>2
    <3>3. peers'[b].up <=> conn'[s].at # "closed"
      <4>1. peers[b].up <=> conn[s].at # "closed"
        BY <3>1
      <4>2. CASE s = c
        BY <1>4, <3>1, <3>2, <4>1, <4>2 DEF Ends
      <4>3. CASE s # c
        BY <1>4, <3>1, <3>2, <4>1, <4>3 DEF Ends
      <4>4. QED
        BY <4>2, <4>3
    <3>4. LastOf(b, s)'
      BY <1>2, <3>1 DEF LastOf
    <3>5. peers'[b].since = s /\ peers'[b].host = peers[b].host
      BY <1>4, <3>1
    <3>6. peers'[b].host # None /\ NoneShared' =>
            peers'[b].host = conn'[s].host
      BY <1>2, <1>3, <3>1, <3>5
    <3>7. QED
      BY <2>1, <3>3, <3>4, <3>5, <3>6 DEF RowOf
  <2>2. QED
    BY <2>1 DEF RowsInv
<1>8. PruneInv'
  BY <1>1, <1>2, PruneKept DEF TableInv
<1>9. NewestInv'
  <2> SUFFICES ASSUME NoneShared', NEW d \in Conn
               PROVE  NewestKept(d)'
    BY DEF NewestInv
  <2>1. NewestKept(d)
    BY <1>3 DEF TableInv, NewestInv
  <2>2. conn[d].at = "open" => conn[d].addr \in Addr
    BY <1>1, AddressedIsHosted
  <2>3. QED
    BY <1>2, <1>4, <2>1, <2>2 DEF NewestKept
<1>10. QED
  BY <1>5, <1>6, <1>7, <1>8, <1>9 DEF TableInv

LEMMA ClosesTable ==
  ASSUME Inv, TableInv, NEW c \in Conn,
         EndTasks(c) \/ Reset(c) \/ CloseWriter(c)
  PROVE  TableInv'
<1>1. /\ UNCHANGED <<hash, keeper, pruned, racy, shared, odd, faults>>
      /\ odd' \subseteq Request /\ faults' \in Nat
  BY DEF EndTasks, Reset, CloseWriter, table, pipeline, network,
         TableInv, TableType
<1>2. conn[c] \in Connection
  BY DEF Inv, LinkType
<1>3. ASSUME NEW at \in {"ending", "lost"}, Cancelled(c, at),
             conn[c].at \in {"open", "ending"}, UNCHANGED peers
      PROVE  Ends(c, at)
  BY <1>2, <1>3 DEF Cancelled, Ends, Connection, Inv, LinkType
<1>4. CloseWriter(c) => Ends(c, "closed")
  BY <1>2 DEF CloseWriter, Ends, Connection, Inv, LinkType
<1>5. \E at : Ends(c, at)
  BY <1>3, <1>4 DEF EndTasks, Reset, table
<1>6. QED
  BY <1>1, <1>5, EndsTable

LEMMA ReadTable ==
  ASSUME Inv, TableInv, NEW c \in Conn, NEW r \in Request, Read(c, r)
  PROVE  TableInv'
<1>1. UNCHANGED table /\ odd' \subseteq Request /\ faults' \in Nat
  BY DEF Read, Fault, table, TableInv, TableType
<1>2. shared \in Seq(Request) /\ QueueSize \in Nat
  BY DiameterAssumption DEF Inv, LinkType
<1>3. CASE HasRoom
  <2>1. shared' = Append(shared, r) /\ UNCHANGED conn
    BY <1>3 DEF Read
  <2>2. Len(shared') = Len(shared) + 1
    BY <1>2, <2>1, AppendProperties
  <2>3. Len(shared') <= QueueSize
    BY <1>2, <1>3, <2>2, ElementFacts DEF HasRoom
  <2>4. QED
    BY <1>1, <2>1, <2>3, TableKept
<1>4. CASE ~HasRoom
  <2>1. /\ conn[c].at = "open" /\ Cancelled(c, "ending")
        /\ UNCHANGED <<shared, peers, hash, keeper, pruned, racy>>
    BY <1>1, <1>4 DEF Read, table
  <2>2. Ends(c, "ending")
    BY <2>1 DEF Cancelled, Ends, Connection, Inv, LinkType
  <2>3. QED
    BY <1>1, <2>1, <2>2, EndsTable
<1>5. QED
  BY <1>3, <1>4

\* The steps of the workers, the HSS worker, the writers and the lists but
\* Validate.
LEMMA PassTable ==
  ASSUME Inv, TableInv,
         \/ \E w \in Worker : Take(w) \/ Flush(w)
         \/ HssAnswer \/ HssDies
         \/ \E c \in Conn : Pop(c) \/ Write(c)
         \/ \E a \in Addr : Expire(a)
  PROVE  TableInv'
<1>1. UNCHANGED table /\ odd' = odd /\ (faults' = faults \/ HssDies)
  BY DEF Take, Flush, WorkerStep, HssAnswer, HssDies, Pop, Write, Expire,
         table, network
<1>2. odd' \subseteq Request /\ faults' \in Nat
  <2>1. odd \subseteq Request /\ faults \in Nat
    BY DEF TableInv, TableType
  <2>2. HssDies => faults' = faults + 1
    BY DEF HssDies, Fault
  <2>3. QED
    BY <1>1, <2>1, <2>2
<1>3. Len(shared') <= QueueSize
  <2>1. CASE UNCHANGED shared
    BY <2>1 DEF TableInv, TableType
  <2>2. CASE shared' = Tail(shared) /\ shared # << >>
    <3>1. shared \in Seq(Request) /\ QueueSize \in Nat
      BY DiameterAssumption DEF Inv, LinkType
    <3>2. Len(Tail(shared)) = Len(shared) - 1
      BY <2>2, <3>1, HeadTailProperties
    <3>3. QED
      BY <2>2, <3>1, <3>2, ElementFacts DEF TableInv, TableType
  <2>3. QED
    BY <2>1, <2>2
    DEF Take, Flush, HssAnswer, HssDies, Pop, Write, Expire, pipeline
<1>4. ASSUME NEW d \in Conn
      PROVE  /\ conn'[d].at = conn[d].at /\ conn'[d].addr = conn[d].addr
             /\ conn'[d].host = conn[d].host
  <2>1. CASE UNCHANGED conn
    BY <2>1
  <2>2. ASSUME NEW c \in Conn, NEW x, conn' = [conn EXCEPT ![c].out = x]
        PROVE  /\ conn'[d].at = conn[d].at /\ conn'[d].addr = conn[d].addr
               /\ conn'[d].host = conn[d].host
    BY <2>2 DEF Inv, LinkType, Connection
  <2>3. QED
    BY <2>1, <2>2
    DEF Take, Flush, WorkerStep, HssAnswer, HssDies, Pop, Write, Expire
<1>5. QED
  BY <1>1, <1>2, <1>3, <1>4, TableKept

\* The Origin-Host of a message is that of the connection it was read from.
LEMMA ValidateTable ==
  ASSUME Inv, TableInv, NEW w \in Worker, Validate(w)
  PROVE  TableInv'
<1> DEFINE r == worker[w].msg
<1>1. UNCHANGED <<conn, hash, keeper, pruned, racy, shared, odd, faults>>
  BY DEF Validate, WorkerStep, network
<1>2. PICK q \in Request : q = worker[w].msg
  BY WorkerType DEF Validate
<1>3. PICK s \in Conn : s = asked[q] /\ conn[s].at # "new"
  <2>1. OnItsWay(q)
    BY <1>2 DEF OnItsWay, InWorker
  <2>2. asked[q] # None
    BY <2>1 DEF Inv, PlaceInv, PlaceOf
  <2>3. QED
    BY <2>2 DEF Inv, LinkType, AddrInv
<1>4. PICK a \in Addr : a = conn[s].addr
  BY <1>3 DEF Inv, AddrInv, NewInv
<1>5. CASE UNCHANGED peers
  <2>1. odd' \subseteq Request /\ faults' \in Nat /\ Len(shared') <= QueueSize
    BY <1>1 DEF TableInv, TableType
  <2>2. QED
    BY <1>1, <1>5, <2>1, TableKept DEF table
<1>6. CASE /\ peers[a] # None
           /\ peers' = [peers EXCEPT ![a].host = conn[s].host]
  <2>1. conn[s].host \in Host
    BY <1>3 DEF TableInv, ConnsInv
  <2>2. peers[a] \in Entry
    BY <1>6 DEF TableInv, TableType
  <2> DEFINE row == [peers[a] EXCEPT !.host = conn[s].host]
  <2>3. /\ row \in Entry /\ row # None
        /\ row.host = conn[s].host
        /\ row.up = peers[a].up /\ row.since = peers[a].since
    BY <2>1, <2>2, RowAssumption DEF Entry
  <2>4. peers' = [peers EXCEPT ![a] = row]
    BY <1>6
  <2> HIDE DEF row
  <2>5. peers'[a] = row /\ \A b \in Addr \ {a} : peers'[b] = peers[b]
    BY <2>4 DEF TableInv, TableType
  <2>6. TableType'
    BY <1>1, <2>3, <2>4 DEF TableInv, TableType, KeeperType
  <2>7. ConnsInv' /\ PruneInv'
    BY <1>1 DEF TableInv, ConnsInv, PruneInv, Stale, NoneShared, Shared
  <2>8. NewestInv'
    <3>1. \A b \in Addr : peers[b] # None => peers'[b] # None
      BY <2>3, <2>5
    <3>2. \A d \in Conn : conn[d].at = "open" => conn[d].addr \in Addr
      BY DEF Inv, AddrInv, NewInv
    <3>3. \A d \in Conn : NewestKept(d) => NewestKept(d)'
      BY <1>1, <3>1, <3>2 DEF NewestKept
    <3>4. NoneShared' => NoneShared
      BY <1>1 DEF NoneShared, Shared
    <3>5. QED
      BY <3>3, <3>4 DEF TableInv, NewestInv
  <2>9. RowsInv'
    <3>1. RowOf(a, row)
      <4>1. RowOf(a, peers[a]) /\ peers[a].since \in Conn
        BY <1>6, <2>2 DEF TableInv, RowsInv, Entry
      <4>2. NoneShared => conn[peers[a].since].host = conn[s].host
        BY <1>4, <4>1 DEF RowOf, LastOf, NoneShared, Shared
      <4>3. QED
        BY <2>3, <4>1, <4>2 DEF RowOf
    <3>2. ASSUME NEW b \in Addr, peers'[b] # None
          PROVE  RowOf(b, peers'[b])
      BY <2>5, <3>1, <3>2 DEF TableInv, RowsInv
    <3>3. ASSUME NEW b \in Addr, RowOf(b, peers'[b])
          PROVE  RowOf(b, peers[b])'
      BY <1>1, <3>3 DEF RowOf, LastOf, NoneShared, Shared
    <3>4. QED
      BY <3>2, <3>3 DEF RowsInv
  <2>10. QED
    BY <2>6, <2>7, <2>8, <2>9 DEF TableInv
<1>7. From(q) = a /\ OriginHost(q) = conn[s].host
  BY <1>3, <1>4 DEF From, OriginHost
<1>8. QED
  BY <1>2, <1>5, <1>6, <1>7 DEF Validate

-----------------------------------------------------------------------------
(***************************************************************************)
(* The housekeeping.                                                       *)
(***************************************************************************)

LEMMA ScanTable ==
  ASSUME Inv, TableInv, Scan
  PROVE  TableInv'
<1>1. UNCHANGED <<conn, peers, hash, pruned, racy, shared, odd, faults>>
  BY DEF Scan, KeeperStep, pipeline, network
<1>2. LinkType /\ RowsInv /\ TableType /\ NewInv
  BY DEF Inv, TableInv, AddrInv
<1>3. PICK old \in SUBSET {a \in Known : ~peers[a].up} :
        IF Duplicates \cup old = {} THEN Store(Known)
        ELSE keeper' = [at |-> "prune", todo |-> Rows(Duplicates) \o Rows(old)]
  BY DEF Scan
<1>4. old \subseteq Known /\ Duplicates \subseteq Known
  BY DEF Duplicates
<1>5. ASSUME KeeperType', PruneInv'
      PROVE  TableInv'
  <2>1. TableType'
    BY <1>1, <1>2, <1>5 DEF TableType
  <2>2. ConnsInv' /\ RowsInv' /\ NewestInv'
    BY <1>1 DEF TableInv, ConnsInv, RowsInv, RowOf, LastOf, NewestInv,
                NewestKept, NoneShared, Shared
  <2>3. QED
    BY <1>5, <2>1, <2>2 DEF TableInv
<1>6. CASE Duplicates \cup old = {}
  <2>1. KeeperType' /\ keeper'.at = "store"
    BY <1>2, <1>3, <1>6, StoreType
  <2>2. QED
    BY <1>5, <2>1 DEF PruneInv
<1>7. CASE Duplicates \cup old # {}
  <2> DEFINE s == Rows(Duplicates)
             t == Rows(old)
             R == [addr : Addr, since : Conn]
  <2>1. /\ s \in Seq(R) /\ (Duplicates # {} => s # << >>)
        /\ \A e \in ToSet(s) :
             e.addr \in Duplicates /\ e.since = peers[e.addr].since
    BY <1>2, <1>4, RowsFacts
  <2>2. /\ t \in Seq(R) /\ (old # {} => t # << >>)
        /\ \A e \in ToSet(t) : e.addr \in old /\ e.since = peers[e.addr].since
    BY <1>2, <1>4, RowsFacts
  <2>3. keeper' = [at |-> "prune", todo |-> s \o t]
    BY <1>3, <1>7
  <2>4. ASSUME NEW e \in ToSet(t)
        PROVE  Stale(e)
    <3>1. /\ e.addr \in Addr /\ peers[e.addr] \in Entry
          /\ ~peers[e.addr].up /\ RowOf(e.addr, peers[e.addr])
          /\ e.since = peers[e.addr].since
      BY <1>2, <1>4, <2>2 DEF Known, RowsInv, TableType
    <3>2. QED
      BY <3>1 DEF Stale, RowOf, LastOf
  <2>5. ASSUME NEW e \in ToSet(s)
        PROVE  Stale(e)
    <3>1. e.addr \in Duplicates /\ e.since = peers[e.addr].since
      BY <2>1
    <3>2. PICK a \in Known, b \in Known :
            /\ a = e.addr /\ peers[a].host # None
            /\ peers[b].host = peers[a].host
            /\ peers[b].since > peers[a].since
      BY <3>1 DEF Duplicates
    <3>3. /\ RowOf(a, peers[a]) /\ RowOf(b, peers[b])
          /\ peers[a].since \in Conn /\ peers[b].since \in Conn
      BY <1>2 DEF Known, RowsInv, TableType, Entry
    <3>4. NoneShared => conn[peers[b].since].host = conn[peers[a].since].host
      BY <3>2, <3>3 DEF RowOf
    <3>5. conn[e.since].addr = e.addr /\ e.since < peers[b].since
      BY <3>1, <3>2, <3>3 DEF RowOf, LastOf, Conn
    <3>6. QED
      BY <3>1, <3>2, <3>3, <3>4, <3>5 DEF Stale
  <2> HIDE DEF s, t, R
  <2>6. s \o t \in Seq(R) /\ ToSet(s \o t) = ToSet(s) \cup ToSet(t)
    BY <2>1, <2>2, ConcatFacts
  <2>7. s \o t # << >>
    <3>1. Len(s \o t) = Len(s) + Len(t) /\ Len(s) \in Nat /\ Len(t) \in Nat
      BY <2>1, <2>2, ConcatProperties, ElementFacts
    <3>2. Len(s) # 0 \/ Len(t) # 0
      BY <1>7, <2>1, <2>2, EmptySeq
    <3>3. QED
      BY <2>6, <3>1, <3>2, ElementFacts
  <2>8. KeeperType'
    <3>1. keeper' \in [at : {"prune"}, todo : Seq(R)]
      BY <2>3, <2>6
    <3>2. keeper'.todo # << >>
      BY <2>3, <2>7
    <3>3. QED
      BY <3>1, <3>2 DEF KeeperType, R
  <2>9. \A e \in ToSet(keeper'.todo) : Stale(e)
    BY <2>3, <2>4, <2>5, <2>6
  <2>10. PruneInv'
    BY <1>1, <2>9 DEF PruneInv, Stale, NoneShared, Shared
  <2>11. QED
    BY <1>5, <2>8, <2>10
<1>8. QED
  BY <1>6, <1>7

LEMMA StoreRowTable ==
  ASSUME Inv, TableInv, StoreRow
  PROVE  TableInv'
<1>1. UNCHANGED <<conn, peers, pruned, racy, shared, odd, faults>>
  BY DEF StoreRow, KeeperStep, pipeline, network
<1>2. keeper \in [at : {"store"}, todo : Seq(Addr)]
  BY DEF StoreRow, TableInv, TableType, KeeperType
<1>3. /\ hash' \in [Addr -> Entry \cup {None}]
      /\ keeper' \in [at : {"idle", "store"}, todo : Seq(Addr)]
  <2>1. CASE keeper.todo = << >>
    <3>1. << >> \in Seq(Addr)
      OBVIOUS
    <3>2. QED
      BY <1>2, <2>1, <3>1 DEF StoreRow, AtRest, TableInv, TableType
  <2>2. CASE keeper.todo # << >>
    <3>1. Head(keeper.todo) \in Addr /\ Tail(keeper.todo) \in Seq(Addr)
      BY <1>2, <2>2, TailFacts
    <3>2. keeper' = [keeper EXCEPT !.todo = Tail(keeper.todo)]
          /\ hash' = [hash EXCEPT ![Head(keeper.todo)] =
                        peers[Head(keeper.todo)]]
      BY <2>2 DEF StoreRow, Copied
    <3>3. keeper' \in [at : {"idle", "store"}, todo : Seq(Addr)]
      BY <1>2, <3>1, <3>2
    <3>4. QED
      BY <3>1, <3>2, <3>3 DEF TableInv, TableType
  <2>3. QED
    BY <2>1, <2>2
<1>4. TableType'
  BY <1>1, <1>3 DEF TableInv, TableType, KeeperType
<1>5. ConnsInv' /\ RowsInv' /\ NewestInv'
  BY <1>1 DEF TableInv, ConnsInv, RowsInv, RowOf, LastOf, NewestInv,
              NewestKept, NoneShared, Shared
<1>6. PruneInv'
  BY <1>3 DEF PruneInv
<1>7. QED
  BY <1>4, <1>5, <1>6 DEF TableInv

\* A row that is pruned: of a connection that is closed or not the newest of
\* its host, unless its peer has reconnected since.
LEMMA PruneTable ==
  ASSUME Inv, TableInv, Prune
  PROVE  TableInv'
<1> DEFINE R == [addr : Addr, since : Conn]
<1>1. UNCHANGED <<conn, shared, odd, faults>>
  BY DEF Prune, KeeperStep, pipeline, network
<1>2. LinkType /\ RowsInv /\ TableType
  BY DEF Inv, TableInv
<1>3. /\ keeper \in [at : {"prune"}, todo : Seq(R)] /\ keeper.todo # << >>
      /\ keeper.at = "prune"
  BY DEF Prune, TableInv, TableType, KeeperType
<1> DEFINE stale == Head(keeper.todo)
           a == stale.addr
<1>4. /\ stale \in R /\ Tail(keeper.todo) \in Seq(R)
      /\ ToSet(keeper.todo) = {stale} \cup ToSet(Tail(keeper.todo))
  <2> HIDE DEF R
  <2>1. QED
    BY <1>3, TailFacts
<1>5. a \in Addr /\ stale.since \in Conn /\ Stale(stale)
  BY <1>3, <1>4 DEF TableInv, PruneInv
<1>6. Steady /\ NewInv /\ ConnsInv /\ ConnsInv' /\ (NoneShared' <=> NoneShared)
  BY <1>1 DEF Steady, Inv, AddrInv, TableInv, ConnsInv, NoneShared, Shared
<1>7. CASE peers[a] = None
  <2>1. Store(Known) /\ UNCHANGED <<peers, hash, pruned, racy>>
    BY <1>7 DEF Prune
  <2>2. KeeperType' /\ keeper'.at = "store"
    BY <1>2, <2>1, StoreType
  <2>3. TableType' /\ PruneInv'
    BY <1>1, <1>2, <2>1, <2>2 DEF TableType, PruneInv
  <2>4. RowsInv' /\ NewestInv'
    BY <1>1, <2>1 DEF TableInv, RowsInv, RowOf, LastOf, NewestInv,
                NewestKept, NoneShared, Shared
  <2>5. QED
    BY <1>6, <2>3, <2>4 DEF TableInv
<1>8. CASE peers[a] # None
  <2>1. /\ peers' = [peers EXCEPT ![a] = None]
        /\ hash' = [hash EXCEPT ![a] = None]
        /\ pruned' = pruned \cup {a}
        /\ racy' = IF peers[a].since = stale.since THEN racy
                   ELSE racy \cup {a}
        /\ IF Len(keeper.todo) = 1 THEN Store(Known \ {a})
           ELSE keeper' = [keeper EXCEPT !.todo = Tail(@)]
    BY <1>8 DEF Prune, Forget
  <2> HIDE DEF a, stale
  <2>2. /\ peers' \in [Addr -> Entry \cup {None}]
        /\ hash' \in [Addr -> Entry \cup {None}]
        /\ pruned' \subseteq Addr
        /\ racy' \subseteq Addr /\ racy \subseteq racy'
        /\ peers'[a] = None /\ \A b \in Addr \ {a} : peers'[b] = peers[b]
    BY <1>2, <1>5, <2>1 DEF TableType
  <2>3. KeeperType' /\ PruneInv'
    <3>1. CASE Len(keeper.todo) = 1
      <4>1. Known \ {a} \in SUBSET Known /\ Store(Known \ {a})
        BY <2>1, <3>1
      <4>2. KeeperType' /\ keeper'.at = "store"
        BY <1>2, <4>1, StoreType
      <4>3. QED
        BY <4>2 DEF PruneInv
    <3>2. CASE Len(keeper.todo) # 1
      <4> HIDE DEF R
      <4>1. keeper' = [keeper EXCEPT !.todo = Tail(keeper.todo)]
        BY <2>1, <3>2
      <4>2. /\ keeper' \in [at : {"prune"}, todo : Seq(R)]
            /\ keeper'.todo = Tail(keeper.todo)
        BY <1>3, <1>4, <4>1
      <4>3. Tail(keeper.todo) # << >>
        <5>1. Len(Tail(keeper.todo)) = Len(keeper.todo) - 1
              /\ Len(keeper.todo) \in Nat
          BY <1>3, HeadTailProperties, ElementFacts
        <5>2. Len(<< >>) = 0
          OBVIOUS
        <5>3. Len(Tail(keeper.todo)) # 0
          BY <3>2, <5>1
        <5>4. QED
          BY <5>2, <5>3
      <4>4. \A e \in ToSet(keeper'.todo) : Stale(e)
        BY <1>3, <1>4, <4>2 DEF TableInv, PruneInv
      <4>5. PruneInv'
        BY <1>1, <4>4 DEF PruneInv, Stale, NoneShared, Shared
      <4>6. QED
        BY <4>2, <4>3, <4>5 DEF KeeperType, R
    <3>3. QED
      BY <3>1, <3>2
  <2>4. TableType'
    BY <1>1, <1>2, <2>2, <2>3 DEF TableType
  <2>5. RowsInv'
    <3>1. ASSUME NEW b \in Addr, peers'[b] # None
          PROVE  RowOf(b, peers[b])'
      <4>1. peers'[b] = peers[b] /\ RowOf(b, peers[b])
        BY <2>2, <3>1 DEF TableInv, RowsInv
      <4>2. QED
        BY <1>1, <4>1 DEF RowOf, LastOf, NoneShared, Shared
    <3>2. QED
      BY <3>1 DEF RowsInv
  <2>6. NewestInv'
    <3> SUFFICES ASSUME NoneShared', NEW d \in Conn, conn'[d].at = "open",
                        \A e \in Conn :
                          conn'[e].host = conn'[d].host => e <= d,
                        conn'[d].addr \notin racy'
                 PROVE  peers'[conn'[d].addr] # None
      BY DEF NewestInv, NewestKept
    <3>1. NoneShared /\ conn[d].at = "open" /\ conn[d].addr \in Addr
          /\ (\A e \in Conn : conn[e].host = conn[d].host => e <= d)
          /\ conn[d].addr \notin racy
      BY <1>1, <1>6, <2>2 DEF NewInv
    <3>2. peers[conn[d].addr] # None
      BY <3>1 DEF TableInv, NewestInv, NewestKept
    <3>3. ASSUME conn[d].addr = a
          PROVE  FALSE
      <4>1. peers[a].since = stale.since
        BY <1>1, <2>1, <3>3
      <4>2. LastOf(a, stale.since)
        BY <1>5, <1>8, <4>1 DEF TableInv, RowsInv, RowOf
      <4>3. stale.since = d
        <5>1. d <= stale.since /\ conn[stale.since].addr = a
          BY <3>3, <4>2 DEF LastOf
        <5>2. CASE d < stale.since
          <6>1. conn[stale.since].at # "new"
            BY <1>5, <1>6, <5>1, AddressedIsHosted
          <6>2. conn[d].at \in {"closed", "lost"}
            BY <1>5, <1>6, <3>3, <5>1, <5>2, <6>1 DEF ConnsInv
          <6>3. QED
            BY <3>1, <6>2
        <5>3. QED
          BY <1>5, <5>1, <5>2 DEF Conn
      <4>4. PICK e \in Conn : d < e /\ conn[e].host = conn[d].host
        BY <1>5, <3>1, <4>3 DEF Stale
      <4>5. QED
        BY <3>1, <4>4 DEF Conn
    <3>4. QED
      BY <1>1, <2>2, <3>1, <3>2, <3>3
  <2>7. QED
    BY <1>6, <2>3, <2>4, <2>5, <2>6 DEF TableInv
<1>9. QED
  BY <1>7, <1>8

LEMMA RestartTable ==
  ASSUME Inv, TableInv, Restart
  PROVE  TableInv'
<1>1. /\ peers' = NoPeers /\ hash' = NoPeers /\ keeper' = AtRest
      /\ shared' = << >> /\ faults' = faults + 1
      /\ UNCHANGED <<odd, pruned, racy>>
  BY DEF Restart, Fault, network
<1>2. ASSUME NEW c \in Conn
      PROVE  /\ conn'[c].at = IF conn[c].at = "new" THEN "new" ELSE "closed"
             /\ conn'[c].addr = conn[c].addr /\ conn'[c].host = conn[c].host
  <2>1. conn[c] \in Connection
    BY DEF Inv, LinkType
  <2>2. conn'[c] = IF conn[c].at = "new" THEN conn[c]
                   ELSE [conn[c] EXCEPT !.at = "closed", !.out = None]
    BY DEF Restart
  <2>3. QED
    BY <2>1, <2>2 DEF Connection
<1>3. TableType'
  <2>1. AtRest \in [at : {"idle", "store"}, todo : Seq(Addr)]
    <3>1. << >> \in Seq(Addr)
      OBVIOUS
    <3>2. QED
      BY <3>1 DEF AtRest
  <2>2. NoPeers \in [Addr -> Entry \cup {None}]
    BY DEF NoPeers
  <2>3. Len(<< >>) = 0 /\ QueueSize \in Nat
    BY DiameterAssumption
  <2>4. QED
    BY <1>1, <2>1, <2>2, <2>3 DEF TableInv, TableType, KeeperType
<1>4. ConnsInv'
  BY <1>2 DEF TableInv, ConnsInv
<1>5. RowsInv' /\ PruneInv' /\ NewestInv'
  BY <1>1, <1>2
  DEF RowsInv, PruneInv, NewestInv, NewestKept, NoPeers, AtRest
<1>6. QED
  BY <1>3, <1>4, <1>5 DEF TableInv

LEMMA InitTable == Init => TableInv
<1> SUFFICES ASSUME Init PROVE TableInv
  OBVIOUS
<1> USE DEF Init
<1>1. TableType
  <2>1. << >> \in Seq(Addr) /\ Len(<< >>) = 0
    OBVIOUS
  <2>2. keeper \in [at : {"idle", "store"}, todo : Seq(Addr)]
    BY <2>1 DEF AtRest
  <2>3. QED
    BY <2>1, <2>2, DiameterAssumption DEF TableType, KeeperType, NoPeers
<1>2. ConnsInv
  BY DEF ConnsInv
<1>3. RowsInv /\ PruneInv /\ NewestInv
  BY DEF RowsInv, PruneInv, NewestInv, NewestKept, NoPeers, AtRest
<1>4. QED
  BY <1>1, <1>2, <1>3 DEF TableInv

LEMMA NextTable ==
  ASSUME Inv, TableInv, [Next]_vars
  PROVE  TableInv'
<1>1. ASSUME NEW c \in Conn,
             Connect(c) \/ EndTasks(c) \/ Reset(c) \/ CloseWriter(c)
      PROVE  TableInv'
  BY <1>1, ConnectTable, ClosesTable
<1>2. ASSUME NEW c \in Conn, NEW r \in Request, Read(c, r)
      PROVE  TableInv'
  BY <1>2, ReadTable
<1>3. ASSUME NEW w \in Worker, Validate(w)
      PROVE  TableInv'
  BY <1>3, ValidateTable
<1>4. CASE \/ \E w \in Worker : Take(w) \/ Flush(w)
           \/ HssAnswer \/ HssDies
           \/ \E c \in Conn : Pop(c) \/ Write(c)
           \/ \E a \in Addr : Expire(a)
  BY <1>4, PassTable
<1>5. CASE Keep \/ Restart
  BY <1>5, ScanTable, PruneTable, StoreRowTable, RestartTable DEF Keep
<1>6. CASE UNCHANGED vars
  <2>1. /\ UNCHANGED <<table, shared, odd, faults>>
        /\ \A c \in Conn : /\ conn'[c].at = conn[c].at
                           /\ conn'[c].addr = conn[c].addr
                           /\ conn'[c].host = conn[c].host
    BY <1>6 DEF vars, pipeline, network
  <2>2. Len(shared') <= QueueSize /\ odd' \subseteq Request /\ faults' \in Nat
    BY <2>1 DEF TableInv, TableType
  <2>3. QED
    BY <2>1, <2>2, TableKept
<1>7. QED
  BY <1>1, <1>2, <1>3, <1>4, <1>5, <1>6 DEF Next, Serve

LEMMA TableHolds == Spec => []TableInv
<1>1. Inv /\ TableInv /\ [Next]_vars => TableInv'
  BY NextTable
<1>2. QED
  BY <1>1, InitTable, InvHolds, PTL DEF Spec

\* The types of the tables, the queues and the connections; sharedQueue never
\* holds more than its size.
THEOREM TypeCorrect == Spec => []TypeOK
<1>1. Inv /\ TableInv => TypeOK
  <2> SUFFICES ASSUME Inv, TableInv PROVE TypeOK
    OBVIOUS
  <2>1. \/ keeper.at \in {"idle", "store"} /\ keeper.todo \in Seq(Addr)
        \/ /\ keeper.at = "prune"
           /\ keeper.todo \in Seq([addr : Addr, since : Conn])
    BY DEF TableInv, TableType, KeeperType
  <2>2. QED
    BY <2>1 DEF TypeOK, Inv, LinkType, TableInv, TableType
<1>2. QED
  BY <1>1, InvHolds, TableHolds, PTL

\* handleConnection, handleActiveDiameterPeers: a row is connected exactly
\* while the last connection from its address is not closed; and as long as no
\* address has been that of two hosts, the newest connection of a host keeps
\* its row while it is open, but for a peer that reconnected while its row was
\* being pruned.
THEOREM TableFollowsConnections == Spec => []TableFollows
<1>1. Inv /\ TableInv => TableFollows
  <2> SUFFICES ASSUME Inv, TableInv PROVE TableFollows
    OBVIOUS
  <2>1. ASSUME NEW a \in Addr
        PROVE  RowFollows(a)
    <3> SUFFICES ASSUME peers[a] # None
                 PROVE  LET last == CHOOSE c \in Conn : LastOf(a, c)
                        IN  peers[a].up <=> conn[last].at # "closed"
      BY DEF RowFollows, LastOf
    <3>1. /\ RowOf(a, peers[a]) /\ peers[a].since \in Conn
      BY DEF TableInv, RowsInv, TableType, Entry
    <3>2. PICK s \in Conn : s = peers[a].since /\ LastOf(a, s)
      BY <3>1 DEF RowOf
    <3>3. \A c \in Conn : LastOf(a, c) => c = s
      BY <3>2 DEF LastOf, Conn
    <3>4. (CHOOSE c \in Conn : LastOf(a, c)) = s
      BY <3>2, <3>3
    <3>5. QED
      BY <3>1, <3>2, <3>4 DEF RowOf
  <2>2. (\A a \in Addr : ~Shared(a)) => \A c \in Conn : NewestKept(c)
    BY DEF TableInv, NewestInv, NoneShared
  <2>3. QED
    BY <2>1, <2>2 DEF TableFollows
<1>2. QED
  BY <1>1, InvHolds, TableHolds, PTL

-----------------------------------------------------------------------------
(***************************************************************************)
(* No request is lost without a fault.                                     *)
(***************************************************************************)

\* Taking one element out leaves the others.
LEMMA LeftFacts ==
  ASSUME NEW S, NEW list \in Seq(S), NEW i \in 1 .. Len(list)
  PROVE  ToSet(list) \subseteq ToSet(RemoveAt(list, i)) \cup {list[i]}
<1> DEFINE n == Len(list)
           front == SubSeq(list, 1, i - 1)
           back == SubSeq(list, i + 1, n)
<1>1. /\ n \in Nat /\ DOMAIN list = 1 .. n /\ i \in 1 .. n
      /\ \A k \in 1 .. n : list[k] \in S
  BY LenProperties
<1>2. /\ front \in Seq(S) /\ Len(front) = i - 1
      /\ \A k \in 1 .. i - 1 : front[k] = list[k]
  <2>1. 1 \in Int /\ i - 1 \in Int /\ \A k \in 1 .. i - 1 : list[k] \in S
    BY <1>1
  <2>2. /\ front \in Seq(S)
        /\ Len(front) = IF 1 <= i - 1 THEN (i - 1) - 1 + 1 ELSE 0
        /\ \A k \in 1 .. (i - 1) - 1 + 1 : front[k] = list[1 + k - 1]
    BY <2>1, SubSeqProperties
  <2> HIDE DEF front, n
  <2>3. QED
    BY <1>1, <2>2
<1>3. /\ back \in Seq(S) /\ Len(back) = n - i
      /\ \A k \in i + 1 .. n : back[k - i] = list[k]
  <2>1. i + 1 \in Int /\ n \in Int /\ \A k \in i + 1 .. n : list[k] \in S
    BY <1>1
  <2>2. /\ back \in Seq(S)
        /\ Len(back) = IF i + 1 <= n THEN n - (i + 1) + 1 ELSE 0
        /\ \A k \in 1 .. n - (i + 1) + 1 : back[k] = list[(i + 1) + k - 1]
    BY <2>1, SubSeqProperties
  <2> HIDE DEF back, n
  <2>3. Len(back) = n - i
    BY <1>1, <2>2
  <2>4. ASSUME NEW k \in i + 1 .. n
        PROVE  back[k - i] = list[k]
    <3>1. k - i \in 1 .. n - (i + 1) + 1 /\ (i + 1) + (k - i) - 1 = k
      BY <1>1
    <3>2. QED
      BY <2>2, <3>1
  <2>5. QED
    BY <2>2, <2>3, <2>4
<1>4. ToSet(front \o back) = ToSet(front) \cup ToSet(back)
  BY <1>2, <1>3, ConcatFacts
<1>5. RemoveAt(list, i) = front \o back
  BY DEF RemoveAt
<1> HIDE DEF front, back, n
<1>6. DOMAIN front = 1 .. i - 1 /\ DOMAIN back = 1 .. n - i
  BY <1>2, <1>3, LenProperties
<1>7. ASSUME NEW k \in 1 .. n
      PROVE  list[k] \in ToSet(front) \cup ToSet(back) \cup {list[i]}
  <2>1. CASE k \in 1 .. i - 1
    <3>1. list[k] \in ToSet(front)
      BY <1>2, <1>6, <2>1 DEF ToSet
    <3>2. QED
      BY <3>1
  <2>2. CASE k \in i + 1 .. n
    <3>1. k - i \in DOMAIN back /\ back[k - i] = list[k]
      BY <1>1, <1>3, <1>6, <2>2
    <3>2. list[k] \in ToSet(back)
      BY <3>1 DEF ToSet
    <3>3. QED
      BY <3>2
  <2>3. CASE k = i
    BY <2>3
  <2>4. k \in 1 .. i - 1 \/ k \in i + 1 .. n \/ k = i
    BY <1>1
  <2>5. QED
    BY <2>1, <2>2, <2>3, <2>4
<1>8. QED
  BY <1>1, <1>4, <1>5, <1>7 DEF ToSet

\* A message on its way was asked, and has an address.
LEMMA OnItsWayFrom ==
  ASSUME Inv, NEW r \in Request, OnItsWay(r)
  PROVE  /\ asked[r] \in Conn /\ asked[r] # None
         /\ conn[asked[r]].at # "new" /\ From(r) \in Addr
<1>1. asked[r] # None
  BY DEF Inv, PlaceInv, PlaceOf
<1>2. asked[r] \in Conn /\ conn[asked[r]].at # "new"
  BY <1>1 DEF Inv, LinkType, AddrInv
<1>3. QED
  BY <1>1, <1>2 DEF From, Inv, AddrInv, NewInv

\* Nor has its address lost its row.
LEMMA HasRow ==
  ASSUME Inv, ServedInv, NEW r \in Request, Cond(r),
         NEW q \in Request, OnItsWay(q)
  PROVE  peers[From(q)] # None /\ odd = {}
<1>1. /\ asked[q] \in Conn /\ asked[q] # None /\ conn[asked[q]].at # "new"
  BY OnItsWayFrom
<1>2. QED
  BY <1>1 DEF Cond, ServedInv, From

\* An answer on its way to a connection that alone has its address is its own.
LEMMA OutIsOwn ==
  ASSUME Inv, NEW r \in Request, Cond(r), NEW c \in Conn, conn[c].out = r
  PROVE  c = asked[r]
<1>1. PlaceOf(r)
  BY DEF Inv, PlaceInv
<1>2. conn[c].addr = From(r)
  BY <1>1 DEF PlaceOf
<1>3. QED
  BY <1>2 DEF Cond

\* What holds of a request after a step held before it, unless it is the one
\* that is read.
Opens == \A c \in Conn : conn[c].at # "new" /\ conn'[c].at = "open" =>
                           conn[c].at = "open"

LEMMA CondBefore ==
  ASSUME Inv, Stable, Opens,
         pruned \subseteq pruned', faults' = 0 => faults = 0,
         \A q \in Request : asked[q] # None => asked'[q] = asked[q],
         NEW r \in Request, asked[r] # None, Cond(r)'
  PROVE  Cond(r)
<1>1. \A q \in Request : asked[q] # None =>
        asked[q] \in Conn /\ conn[asked[q]].at # "new"
  BY DEF Inv, LinkType, AddrInv
<1>2. \A q \in Request : asked[q] # None =>
        asked'[q] # None /\ From(q)' = From(q)
  BY <1>1 DEF Stable, From
<1>3. PICK c \in Conn : c = asked[r] /\ asked'[r] = c
  BY <1>1
<1>4. conn'[c].at = "open" /\ conn[c].at = "open" /\ faults = 0
  BY <1>1, <1>3 DEF Cond, Opens
<1>5. ASSUME NEW d \in Conn \ {c}
      PROVE  conn[d].addr # From(r)
  <2>1. conn'[d].addr # From(r)'
    BY <1>3, <1>5 DEF Cond
  <2>2. From(r) = conn[c].addr /\ From(r) \in Addr
    BY <1>1, <1>3 DEF From, Inv, AddrInv, NewInv
  <2>3. CASE conn[d].at = "new"
    BY <2>2, <2>3, NoneIsNone DEF Inv, AddrInv, NewInv
  <2>4. CASE conn[d].at # "new"
    BY <1>2, <2>1, <2>4 DEF Stable
  <2>5. QED
    BY <2>3, <2>4
<1>6. \A q \in Request : asked[q] # None => From(q) \notin pruned
  BY <1>2 DEF Cond
<1>7. QED
  BY <1>3, <1>4, <1>5, <1>6 DEF Cond

-----------------------------------------------------------------------------
\* Where nothing is taken out, everything stays on its way.
LEMMA StaysOnItsWay ==
  ASSUME NEW r \in Request, OnItsWay(r),
         r \in ToSet(shared) => r \in ToSet(shared'),
         r \in ToSet(inbound) => r \in ToSet(inbound'),
         \A w \in Worker : InWorker(w, r) => InWorker(w, r)',
         Leaving(r) => Leaving(r)'
  PROVE  OnItsWay(r)'
BY DEF OnItsWay

LEMMA ConnCarries ==
  ASSUME Inv, NEW r \in Request, Cond(r), Cond(r)', OnItsWay(r),
         NEW c \in Conn,
         Connect(c) \/ EndTasks(c) \/ Reset(c) \/ CloseWriter(c)
  PROVE  OnItsWay(r)'
<1>1. UNCHANGED <<shared, worker, inbound, outbound, asked>>
  BY DEF Connect, EndTasks, Reset, CloseWriter, pipeline, network
<1>2. conn[c] \in Connection /\ conn \in [Conn -> Connection]
  BY DEF Inv, LinkType
<1>3. \A d \in Conn \ {c} : conn'[d] = conn[d]
  BY <1>2 DEF Connect, EndTasks, Reset, CloseWriter, Cancelled
<1>4. conn[c].out = r => conn'[c].out = r
  <2>1. CASE Connect(c)
    BY <2>1, NoneIsNone DEF Connect, Inv, AddrInv, NewInv
  <2>2. CASE EndTasks(c) \/ Reset(c)
    <3>1. conn'[c].at # "open"
      BY <1>2, <2>2 DEF EndTasks, Reset, Cancelled, Connection
    <3>2. conn[c].out = r => c = asked[r]
      BY OutIsOwn
    <3>3. QED
      BY <1>1, <3>1, <3>2 DEF Cond
  <2>3. CASE CloseWriter(c)
    BY <1>2, <2>3 DEF CloseWriter, Connection
  <2>4. QED
    BY <2>1, <2>2, <2>3
<1>5. Leaving(r) => Leaving(r)'
  BY <1>1, <1>3, <1>4 DEF Leaving
<1>6. QED
  BY <1>1, <1>5, StaysOnItsWay DEF InWorker

LEMMA ReadCarries ==
  ASSUME Inv, NEW r \in Request, Cond(r), Cond(r)', OnItsWay(r),
         NEW c \in Conn, NEW q \in Request, Read(c, q)
  PROVE  OnItsWay(r)'
<1>1. UNCHANGED <<worker, inbound, outbound>> /\ asked'[r] = asked[r]
  <2>1. asked[q] = None /\ asked' = [asked EXCEPT ![q] = c]
    BY DEF Read
  <2>2. QED
    BY <2>1 DEF Read, Cond, Inv, LinkType
<1>2. CASE shared' = Append(shared, q) /\ UNCHANGED conn
  <2>1. r \in ToSet(shared) => r \in ToSet(shared')
    BY <1>2, AppendFacts DEF Inv, LinkType
  <2>2. QED
    BY <1>1, <1>2, <2>1, StaysOnItsWay DEF InWorker, Leaving
<1>3. CASE Cancelled(c, "ending") /\ UNCHANGED shared
  <2>1. /\ conn'[c].at # "open"
        /\ \A d \in Conn \ {c} : conn'[d] = conn[d]
    BY <1>3 DEF Cancelled, Inv, LinkType, Connection
  <2>2. c # asked[r]
    BY <1>1, <2>1 DEF Cond
  <2>3. conn[c].out # r
    BY <2>2, OutIsOwn
  <2>4. Leaving(r) => Leaving(r)'
    BY <1>1, <2>1, <2>3 DEF Leaving
  <2>5. QED
    BY <1>1, <1>3, <2>4, StaysOnItsWay DEF InWorker
<1>4. QED
  BY <1>2, <1>3 DEF Read

LEMMA WorkerCarries ==
  ASSUME Inv, ServedInv, NEW r \in Request, Cond(r), OnItsWay(r),
         NEW w \in Worker, Take(w) \/ Validate(w) \/ Flush(w)
  PROVE  OnItsWay(r)'
<1>1. /\ UNCHANGED <<conn, outbound>>
      /\ worker \in [Worker -> [batch : Seq(Request),
                                msg : Request \cup {None}]]
  BY DEF Take, Validate, Flush, WorkerStep, Inv, LinkType
<1>2. Leaving(r) => Leaving(r)'
  BY <1>1 DEF Leaving
<1> DEFINE batch == worker[w].batch
<1>3. batch \in Seq(Request)
  BY WorkerType
<1>4. CASE Take(w)
  <2> DEFINE q == Head(shared)
  <2>1. /\ shared # << >> /\ shared' = Tail(shared) /\ UNCHANGED inbound
        /\ worker[w].msg = None
    BY <1>4 DEF Take
  <2>2. q \in Request /\ ToSet(shared) = {q} \cup ToSet(shared')
    BY <2>1, TailFacts DEF Inv, LinkType
  <2>3. OnItsWay(q)
    BY <2>2 DEF OnItsWay
  <2>4. peers[From(q)] # None
    BY <2>2, <2>3, HasRow
  <2>5. \/ worker' = [worker EXCEPT ![w] = [worker[w] EXCEPT !.msg = q]]
        \/ worker' = [worker EXCEPT ![w] =
                        [worker[w] EXCEPT !.batch = Append(batch, q)]]
    BY <1>4, <2>4 DEF Take, WorkerStep
  <2> HIDE DEF q
  <2>6. /\ ToSet(Append(batch, q)) = ToSet(batch) \cup {q}
        /\ Append(batch, q) \in Seq(Request)
    BY <1>3, <2>2, AppendFacts
  <2>7. \A v \in Worker \ {w} : worker'[v] = worker[v]
    BY <1>1, <2>5
  <2>8. \A p \in Request : p = q \/ InWorker(w, p) => InWorker(w, p)'
    <3>1. CASE worker' = [worker EXCEPT ![w] = [worker[w] EXCEPT !.msg = q]]
      <4>1. worker'[w].msg = q /\ worker'[w].batch = batch
        BY <1>1, <3>1
      <4>2. QED
        BY <2>1, <4>1, NoneIsNone DEF InWorker
    <3>2. CASE worker' = [worker EXCEPT ![w] =
                            [worker[w] EXCEPT !.batch = Append(batch, q)]]
      <4> DEFINE longer == Append(batch, q)
      <4> HIDE DEF longer
      <4>1. worker' = [worker EXCEPT ![w] =
                         [worker[w] EXCEPT !.batch = longer]]
        BY <3>2 DEF longer
      <4>2. worker'[w].batch = longer
        BY <1>1, <4>1
      <4>3. QED
        BY <2>1, <2>6, <4>2, NoneIsNone DEF InWorker, longer
    <3>3. QED
      BY <2>5, <3>1, <3>2
  <2>9. \A v \in Worker : InWorker(v, r) => InWorker(v, r)'
    BY <2>7, <2>8 DEF InWorker
  <2>10. r \in ToSet(shared) => r \in ToSet(shared') \/ InWorker(w, r)'
    BY <2>2, <2>8
  <2>11. QED
    BY <1>2, <2>1, <2>9, <2>10 DEF OnItsWay
<1>5. CASE Validate(w)
  <2>1. /\ UNCHANGED <<shared, inbound>>
        /\ worker[w].msg # None
    BY <1>5 DEF Validate
  <2>2. PICK q \in Request : q = worker[w].msg
    BY <2>1, WorkerType
  <2>3. OnItsWay(q)
    BY <2>2 DEF OnItsWay, InWorker
  <2>4. peers[From(q)] # None /\ odd = {}
    BY <2>3, HasRow
  <2>5. worker' = [worker EXCEPT ![w] = [batch |-> Append(batch, q),
                                         msg |-> None]]
    BY <1>5, <2>2, <2>4 DEF Validate, WorkerStep, MayNotDecode
  <2>6. ToSet(Append(batch, q)) = ToSet(batch) \cup {q}
    BY <1>3, AppendFacts
  <2> DEFINE longer == Append(batch, q)
  <2> HIDE DEF longer
  <2>7. /\ worker'[w].batch = longer
        /\ \A v \in Worker \ {w} : worker'[v] = worker[v]
    BY <1>1, <2>5 DEF longer
  <2>8. \A v \in Worker : InWorker(v, r) => InWorker(v, r)'
    BY <2>2, <2>6, <2>7 DEF InWorker, longer
  <2>9. QED
    BY <1>2, <2>1, <2>8, StaysOnItsWay
<1>6. CASE Flush(w)
  <2>1. /\ worker[w].msg = None /\ UNCHANGED shared
        /\ worker' = [worker EXCEPT ![w] = [batch |-> << >>, msg |-> None]]
        /\ inbound' = inbound \o batch
    BY <1>6 DEF Flush, WorkerStep, SentOff
  <2>2. ToSet(inbound') = ToSet(inbound) \cup ToSet(batch)
    BY <1>3, <2>1, ConcatFacts DEF Inv, LinkType
  <2>3. \A v \in Worker \ {w} : worker'[v] = worker[v]
    BY <1>1, <2>1
  <2>4. InWorker(w, r) => r \in ToSet(inbound')
    BY <2>1, <2>2, NoneIsNone DEF InWorker
  <2>5. \A v \in Worker \ {w} : InWorker(v, r) => InWorker(v, r)'
    BY <2>3 DEF InWorker
  <2> HIDE DEF batch
  <2>6. QED
    BY <1>2, <2>1, <2>2, <2>4, <2>5 DEF OnItsWay
<1>7. QED
  BY <1>4, <1>5, <1>6

LEMMA HssCarries ==
  ASSUME Inv, ServedInv, NEW r \in Request, Cond(r), OnItsWay(r), HssAnswer
  PROVE  OnItsWay(r)'
<1>1. UNCHANGED <<conn, shared, worker>>
  BY DEF HssAnswer
<1>2. PICK i \in 1 .. Len(inbound) :
        /\ inbound' = RemoveAt(inbound, i)
        /\ outbound' = IF HasAnswer(inbound[i])
                       THEN Queued(outbound, From(inbound[i]), inbound[i])
                       ELSE outbound
  BY DEF HssAnswer, TakenOff
<1>3. inbound \in Seq(Request) /\ outbound \in [Addr -> Seq(Request)]
  BY DEF Inv, LinkType
<1>4. PICK q \in Request : q = inbound[i] /\ q \in ToSet(inbound)
  BY <1>2, <1>3, LenProperties DEF ToSet
<1>5. OnItsWay(q)
  BY <1>4 DEF OnItsWay
<1>6. From(q) \in Addr /\ odd = {}
  BY <1>5, OnItsWayFrom, HasRow
<1>7. PICK a \in Addr : a = From(q)
  BY <1>6
<1>8. outbound' = [outbound EXCEPT ![a] = Append(outbound[a], q)]
  BY <1>2, <1>4, <1>6, <1>7 DEF HasAnswer, Queued
<1>9. ToSet(Append(outbound[a], q)) = ToSet(outbound[a]) \cup {q}
  BY <1>3, AppendFacts
<1> DEFINE longer == Append(outbound[a], q)
<1> HIDE DEF longer
<1>10. /\ outbound'[a] = longer
       /\ \A b \in Addr \ {a} : outbound'[b] = outbound[b]
       /\ ToSet(longer) = ToSet(outbound[a]) \cup {q}
  BY <1>3, <1>8, <1>9 DEF longer
<1>11. ToSet(inbound) \subseteq ToSet(inbound') \cup {q}
  BY <1>2, <1>3, <1>4, LeftFacts
<1>12. Leaving(q)' /\ (Leaving(r) => Leaving(r)')
  BY <1>1, <1>10 DEF Leaving
<1>13. r \in ToSet(inbound) => r \in ToSet(inbound') \/ Leaving(r)'
  BY <1>11, <1>12
<1>14. \A w \in Worker : InWorker(w, r) => InWorker(w, r)'
  BY <1>1 DEF InWorker
<1>15. QED
  BY <1>1, <1>12, <1>13, <1>14 DEF OnItsWay

LEMMA OutCarries ==
  ASSUME Inv, NEW r \in Request, Cond(r), OnItsWay(r),
         \/ \E c \in Conn : Pop(c) \/ Write(c)
         \/ \E a \in Addr : Expire(a)
  PROVE  OnItsWay(r)' \/ answered'[r] # << >>
<1>1. UNCHANGED <<shared, worker, inbound>>
  BY DEF Pop, Write, Expire, pipeline
<1>2. outbound \in [Addr -> Seq(Request)] /\ conn \in [Conn -> Connection]
      /\ answered \in [Request -> Seq(Conn)] /\ PlaceOf(r)
  BY DEF Inv, LinkType, PlaceInv
<1>3. ASSUME NEW c \in Conn, Pop(c)
      PROVE  Leaving(r) => Leaving(r)'
  <2>1. conn[c].at = "open" /\ conn[c].out = None
    BY <1>3 DEF Pop
  <2>2. PICK a \in Addr : a = conn[c].addr
    BY <2>1 DEF Inv, AddrInv, NewInv
  <2>3. /\ outbound[a] # << >>
        /\ conn' = [conn EXCEPT ![c].out = Head(outbound[a])]
        /\ outbound' = [outbound EXCEPT ![a] = Tail(outbound[a])]
    BY <1>3, <2>2 DEF Pop
  <2>4. ToSet(outbound[a]) = {Head(outbound[a])} \cup ToSet(Tail(outbound[a]))
    BY <1>2, <2>3, TailFacts
  <2>5. /\ conn'[c].out = Head(outbound[a])
        /\ \A d \in Conn \ {c} : conn'[d] = conn[d]
        /\ outbound'[a] = Tail(outbound[a])
        /\ \A b \in Addr \ {a} : outbound'[b] = outbound[b]
    BY <1>2, <2>3 DEF Connection
  <2>6. QED
    BY <2>1, <2>4, <2>5, NoneIsNone DEF Leaving
<1>4. ASSUME NEW c \in Conn, Write(c)
      PROVE  (Leaving(r) => Leaving(r)') \/ answered'[r] # << >>
  <2>1. PICK q : q = conn[c].out
    OBVIOUS
  <2>2. /\ q # None /\ conn' = [conn EXCEPT ![c].out = None]
        /\ answered' = [answered EXCEPT ![q] = Append(answered[q], c)]
        /\ UNCHANGED outbound
    BY <1>4, <2>1 DEF Write
  <2>3. CASE q = r
    <3>1. Append(answered[r], c) # << >>
      BY <1>2, AppendProperties
    <3>2. answered'[r] = Append(answered[r], c)
      BY <1>2, <2>2, <2>3
    <3>3. QED
      BY <3>1, <3>2
  <2>4. CASE q # r
    BY <1>2, <2>1, <2>2, <2>4 DEF Leaving
  <2>5. QED
    BY <2>3, <2>4
<1>5. ASSUME NEW a \in Addr, Expire(a)
      PROVE  Leaving(r) => Leaving(r)'
  <2>1. /\ \A c \in Conn : conn[c].addr = a => conn[c].at # "open"
        /\ outbound' = [outbound EXCEPT ![a] = << >>]
        /\ UNCHANGED conn
    BY <1>5 DEF Expire
  <2>2. r \in ToSet(outbound[a]) => a = From(r)
    BY <1>2 DEF PlaceOf
  <2>3. conn[asked[r]].at = "open" /\ From(r) = conn[asked[r]].addr
        /\ asked[r] \in Conn
    BY DEF Cond, From, Inv, LinkType
  <2>4. r \notin ToSet(outbound[a])
    BY <2>1, <2>2, <2>3
  <2>5. \A b \in Addr \ {a} : outbound'[b] = outbound[b]
    BY <1>2, <2>1
  <2>6. QED
    BY <2>1, <2>4, <2>5 DEF Leaving
<1>6. (Leaving(r) => Leaving(r)') \/ answered'[r] # << >>
  BY <1>3, <1>4, <1>5
<1>7. QED
  BY <1>1, <1>6, StaysOnItsWay DEF InWorker

LEMMA NextCarries ==
  ASSUME Inv, ServedInv, NEW r \in Request, Cond(r), Cond(r)', OnItsWay(r),
         [Next]_vars, ~(HssDies \/ Restart)
  PROVE  OnItsWay(r)' \/ answered'[r] # << >>
<1>1. CASE UNCHANGED <<conn, pipeline, outbound>>
  BY <1>1, StaysOnItsWay DEF InWorker, Leaving, pipeline
<1>2. CASE Keep \/ UNCHANGED vars
  BY <1>1, <1>2 DEF Keep, Scan, Prune, StoreRow, KeeperStep, vars
<1>3. QED
  BY <1>2, ConnCarries, ReadCarries, WorkerCarries, HssCarries, OutCarries
  DEF Next, Serve

-----------------------------------------------------------------------------
\* What a step that is no fault leaves.
LEMMA FaultFacts ==
  ASSUME TableInv, [Next]_vars, faults' = 0
  PROVE  /\ faults = 0 /\ odd' = odd /\ ~(HssDies \/ Restart)
         /\ pruned \subseteq pruned'
<1>1. faults \in Nat
  BY DEF TableInv, TableType
<1>2. Fault => faults' = faults + 1
  BY DEF Fault
<1>3. ~Fault
  BY <1>1, <1>2
<1>4. ~(HssDies \/ Restart)
  BY <1>3 DEF HssDies, Restart
<1>5. CASE \E c \in Conn : \/ Connect(c) \/ EndTasks(c) \/ Reset(c)
                           \/ CloseWriter(c)
  BY <1>4, <1>5 DEF Connect, EndTasks, Reset, CloseWriter, table, network
<1>6. CASE \E c \in Conn, r \in Request : Read(c, r)
  BY <1>3, <1>4, <1>6 DEF Read, table
<1>7. CASE Serve
  BY <1>4, <1>7 DEF Serve, Take, Validate, Flush, WorkerStep, HssAnswer, Pop,
                    Write, Expire, table, network
<1>8. CASE Keep
  BY <1>4, <1>8 DEF Keep, Scan, Prune, StoreRow, KeeperStep, network
<1>9. CASE UNCHANGED vars
  BY <1>4, <1>9 DEF vars, table, network
<1>10. QED
  BY <1>4, <1>5, <1>6, <1>7, <1>8, <1>9 DEF Next

\* Without one, only a row that is pruned is lost, and a connection that opens
\* has one.
LEMMA RowsKept ==
  ASSUME Inv, TableInv, ServedInv, [Next]_vars, faults' = 0,
         NEW c \in Conn, conn'[c].at # "new", conn'[c].addr \notin pruned'
  PROVE  peers'[conn'[c].addr] # None
<1>1. /\ faults = 0 /\ ~(HssDies \/ Restart) /\ pruned \subseteq pruned'
  BY FaultFacts
<1>2. conn \in [Conn -> Connection] /\ peers \in [Addr -> Entry \cup {None}]
      /\ NewInv
  BY DEF Inv, LinkType, AddrInv, TableInv, TableType
<1>3. ASSUME NEW a \in Addr, peers[a] # None, a \notin pruned'
      PROVE  peers'[a] # None
  <2>1. peers[a] \in Entry
    BY <1>2, <1>3
  <2>2. ASSUME NEW b \in Addr, NEW row \in Entry,
               peers' = [peers EXCEPT ![b] = row]
        PROVE  peers'[a] # None
    BY <1>2, <1>3, <2>2, RowAssumption
  <2>3. CASE UNCHANGED peers
    BY <1>3, <2>3
  <2>4. ASSUME NEW d \in Conn, Connect(d)
        PROVE  peers'[a] # None
    <3>1. PICK b \in Addr : peers' = [peers EXCEPT ![b] = Connected(@, d)]
      BY <2>4 DEF Connect
    <3>2. Connected(peers[b], d) \in Entry
      BY <1>2 DEF Connected, Entry
    <3>3. QED
      BY <2>2, <3>1, <3>2
  <2>5. ASSUME NEW d \in Conn, CloseWriter(d)
        PROVE  peers'[a] # None
    <3>1. peers' = [peers EXCEPT ![conn[d].addr] = Down(peers[conn[d].addr])]
      BY <2>5 DEF CloseWriter
    <3>2. Down(peers[a]) \in Entry
      BY <1>3, <2>1 DEF Down, Entry
    <3>3. QED
      BY <1>2, <1>3, <3>1, <3>2, RowAssumption
  <2>6. ASSUME NEW w \in Worker, Validate(w)
        PROVE  peers'[a] # None
    <3>1. PICK q \in Request : q = worker[w].msg
      BY <2>6, WorkerType DEF Validate
    <3>2. OnItsWay(q)
      BY <3>1 DEF OnItsWay, InWorker
    <3>3. OriginHost(q) \in Host
      BY <3>2, OnItsWayFrom DEF OriginHost, TableInv, ConnsInv
    <3>4. \/ UNCHANGED peers
          \/ peers' = [peers EXCEPT ![From(q)] =
                         [peers[From(q)] EXCEPT !.host = OriginHost(q)]]
      BY <2>6, <3>1 DEF Validate
    <3>5. [peers[a] EXCEPT !.host = OriginHost(q)] \in Entry
      BY <2>1, <3>3 DEF Entry
    <3>6. QED
      BY <1>2, <1>3, <3>4, <3>5, RowAssumption
  <2>7. CASE Keep
    BY <1>2, <1>3, <2>7 DEF Keep, Scan, Prune, StoreRow
  <2>8. QED
    BY <1>1, <2>3, <2>4, <2>5, <2>6, <2>7
    DEF Next, Serve, EndTasks, Reset, Read, Take, Flush, HssAnswer, Pop, Write,
        Expire, vars, table
<1>4. CASE conn[c].at # "new"
  <2>1. conn'[c].addr = conn[c].addr /\ conn[c].addr \in Addr
    BY <1>2, <1>4, NextStep DEF Quiet, Reads, Writes, Stable, NewInv
  <2>2. peers[conn[c].addr] # None
    BY <1>1, <1>4, <2>1 DEF ServedInv
  <2>3. QED
    BY <1>3, <2>1, <2>2
<1>5. CASE conn[c].at = "new"
  <2>1. Connect(c)
    <3>1. ASSUME NEW d \in Conn, d # c, Connect(d)
          PROVE  FALSE
      BY <1>2, <1>5, <3>1 DEF Connect
    <3>2. ASSUME UNCHANGED conn
          PROVE  FALSE
      BY <1>5, <3>2
    <3>3. ASSUME NEW d \in Conn, conn[d].at # "new",
                 \A e \in Conn \ {d} : conn'[e] = conn[e]
          PROVE  FALSE
      BY <1>5, <3>3
    <3>4. ASSUME NEW d \in Conn, \/ EndTasks(d) \/ Reset(d) \/ CloseWriter(d)
                                 \/ Pop(d) \/ Write(d)
          PROVE  FALSE
      BY <1>2, <3>3, <3>4
      DEF EndTasks, Reset, CloseWriter, Pop, Write, Cancelled
    <3>5. ASSUME NEW d \in Conn, NEW r \in Request, Read(d, r)
          PROVE  FALSE
      BY <1>2, <3>2, <3>3, <3>5 DEF Read, Cancelled
    <3>6. QED
      BY <1>1, <3>1, <3>2, <3>4, <3>5
      DEF Next, Serve, Take, Validate, Flush, WorkerStep, HssAnswer, Expire,
          Keep, Scan, Prune, StoreRow, KeeperStep, vars
  <2>2. PICK a \in Addr : /\ conn'[c].addr = a
                          /\ peers'[a] = Connected(peers[a], c)
    BY <1>2, <2>1 DEF Connect
  <2>3. Connected(peers[a], c) \in Entry
    BY <1>2 DEF Connected, Entry
  <2>4. QED
    BY <2>2, <2>3, RowAssumption
<1>6. QED
  BY <1>4, <1>5

LEMMA StepOpens ==
  ASSUME Inv, [Next]_vars, ~(HssDies \/ Restart)
  PROVE  Opens
<1>1. conn \in [Conn -> Connection]
  BY DEF Inv, LinkType
<1>2. CASE UNCHANGED conn
  BY <1>2 DEF Opens
<1>3. ASSUME NEW c \in Conn, NEW next,
             conn' = [conn EXCEPT ![c] = next],
             \/ conn[c].at = "new" \/ conn[c].at = "open"
             \/ next.at # "open"
      PROVE  Opens
  BY <1>1, <1>3 DEF Opens
<1>4. ASSUME NEW c \in Conn, \/ Connect(c) \/ EndTasks(c) \/ Reset(c)
                             \/ CloseWriter(c) \/ Pop(c) \/ Write(c)
      PROVE  Opens
  <2>1. conn[c] \in Connection
    BY <1>1
  <2>2. CASE Connect(c) \/ Pop(c) \/ Write(c)
    BY <1>1, <1>3, <2>2 DEF Connect, Pop, Write, Opens
  <2>3. CASE EndTasks(c)
    BY <1>1, <2>1, <2>3 DEF EndTasks, Cancelled, Opens
  <2>4. CASE Reset(c) \/ CloseWriter(c)
    BY <1>1, <2>1, <2>4 DEF Reset, CloseWriter, Cancelled, Opens, Connection
  <2>5. QED
    BY <1>4, <2>2, <2>3, <2>4
<1>5. ASSUME NEW c \in Conn, NEW r \in Request, Read(c, r)
      PROVE  Opens
  BY <1>1, <1>5 DEF Read, Cancelled, Opens
<1>6. QED
  BY <1>2, <1>4, <1>5
  DEF Next, Serve, Take, Validate, Flush, WorkerStep, HssAnswer, Expire,
      Keep, Scan, Prune, StoreRow, KeeperStep, vars

\* A request is asked by being read, and once; its answers stay.
LEMMA AskedByRead ==
  ASSUME Inv, [Next]_vars, NEW r \in Request, asked[r] = None, asked'[r] # None
  PROVE  \E c \in Conn : Read(c, r)
<1>1. ASSUME NEW c \in Conn, NEW q \in Request, Read(c, q)
      PROVE  q = r
  BY <1>1 DEF Read, Inv, LinkType
<1>2. ASSUME UNCHANGED asked
      PROVE  FALSE
  BY <1>2
<1>3. QED
  BY <1>1, <1>2
  DEF Next, Serve, Connect, EndTasks, Reset, CloseWriter, Take, Validate,
      Flush, WorkerStep, HssAnswer, HssDies, Pop, Write, Expire, Restart, Keep,
      Scan, Prune, StoreRow, KeeperStep, network, vars

LEMMA AnsweredGrows ==
  ASSUME Inv, [Next]_vars, ~(HssDies \/ Restart)
  PROVE  /\ Stable
         /\ \A q \in Request : asked[q] # None => asked'[q] = asked[q]
         /\ \A q \in Request : answered[q] # << >> => answered'[q] # << >>
<1>1. CASE Quiet
  BY <1>1 DEF Quiet
<1>2. ASSUME NEW c \in Conn, NEW r \in Request, Reads(c, r)
      PROVE  /\ Stable
             /\ \A q \in Request : asked[q] # None => asked'[q] = asked[q]
             /\ \A q \in Request : answered[q] # << >> => answered'[q] # << >>
  BY <1>2 DEF Reads, Inv, LinkType
<1>3. ASSUME NEW c \in Conn, NEW r \in Request, Writes(c, r)
      PROVE  /\ Stable
             /\ \A q \in Request : asked[q] # None => asked'[q] = asked[q]
             /\ \A q \in Request : answered[q] # << >> => answered'[q] # << >>
  BY <1>3 DEF Writes, Inv, LinkType
<1>4. QED
  BY <1>1, <1>2, <1>3, NextStep

LEMMA NextServed ==
  ASSUME Inv, Inv', TableInv, ServedInv, [Next]_vars
  PROVE  ServedInv'
<1>1. faults' = 0 => odd' = {}
  BY FaultFacts DEF ServedInv
<1>2. ASSUME faults' = 0, NEW c \in Conn,
             conn'[c].at # "new", conn'[c].addr \notin pruned'
      PROVE  peers'[conn'[c].addr] # None
  BY <1>2, RowsKept
<1>3. ASSUME NEW r \in Request, Cond(r)'
      PROVE  OnItsWay(r)' \/ answered'[r] # << >>
  <2>1. faults' = 0
    BY <1>3 DEF Cond
  <2>2. /\ faults = 0 /\ ~(HssDies \/ Restart) /\ pruned \subseteq pruned'
    BY <2>1, FaultFacts
  <2>3. /\ Stable /\ Opens
        /\ \A q \in Request : asked[q] # None => asked'[q] = asked[q]
        /\ \A q \in Request : answered[q] # << >> => answered'[q] # << >>
    BY <2>2, NextStep, StepOpens, AnsweredGrows
  <2>4. CASE asked[r] # None
    <3>1. Cond(r)
      BY <1>3, <2>1, <2>2, <2>3, <2>4, CondBefore
    <3>2. OnItsWay(r) \/ answered[r] # << >>
      BY <3>1 DEF ServedInv
    <3>3. QED
      BY <1>3, <2>2, <2>3, <3>1, <3>2, NextCarries
  <2>5. CASE asked[r] = None
    <3>1. asked'[r] # None
      BY <1>3 DEF Cond
    <3>2. PICK c \in Conn : Read(c, r)
      BY <2>5, <3>1, AskedByRead
    <3>3. asked' = [asked EXCEPT ![r] = c]
      BY <3>2 DEF Read
    <3>4. asked'[r] = c
      BY <3>3 DEF Inv, LinkType
    <3>5. CASE HasRoom
      <4>1. shared' = Append(shared, r)
        BY <3>2, <3>5 DEF Read
      <4>2. r \in ToSet(shared')
        BY <4>1, AppendFacts DEF Inv, LinkType
      <4>3. QED
        BY <4>2 DEF OnItsWay
    <3>6. CASE ~HasRoom
      <4>1. conn'[c].at = "ending"
        BY <3>2, <3>6 DEF Read, Cancelled, Inv, LinkType, Connection
      <4>2. QED
        BY <1>3, <3>4, <4>1 DEF Cond
    <3>7. QED
      BY <3>5, <3>6
  <2>6. QED
    BY <2>4, <2>5
<1>4. QED
  BY <1>1, <1>2, <1>3 DEF ServedInv

LEMMA ServedHolds == Spec => []ServedInv
<1>1. Init => ServedInv
  BY DEF Init, ServedInv, Cond
<1>2. Inv /\ Inv' /\ TableInv /\ ServedInv /\ [Next]_vars => ServedInv'
  BY NextServed
<1>3. QED
  BY <1>1, <1>2, InvHolds, TableHolds, PTL DEF Spec

\* inboundDataWorker, handleQueue, writeOutboundData: without faults, a request
\* that is no longer on its way has been answered, once and on its connection,
\* if that one stays open, no other has had its address, and no row was pruned
\* that a message came from.
THEOREM RequestsServed == Spec => []Served
<1>1. Inv /\ ServedInv => Served
  <2> SUFFICES ASSUME Inv, ServedInv, NEW r \in Request, NEW c, c = asked[r],
                      c # None, r \notin Pending, faults = 0,
                      conn[c].at = "open",
                      \A d \in Conn \ {c} : conn[d].addr # conn[c].addr,
                      \A q \in Request :
                        asked[q] # None => From(q) \notin pruned
               PROVE  answered[r] = << c >>
    BY DEF Served
  <2>1. Cond(r)
    BY DEF Cond, From
  <2>2. answered[r] # << >>
    BY <2>1, PendingOnItsWay DEF ServedInv
  <2>3. PICK d \in Conn : answered[r] = << d >> /\ conn[d].addr = From(r)
    BY <2>2 DEF Inv, AddrInv
  <2>4. QED
    BY <2>3 DEF From
<1>2. QED
  BY <1>1, InvHolds, ServedHolds, PTL

=============================================================================
