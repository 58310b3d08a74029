------------------------ MODULE ViewerRegistryProofs ------------------------
(***************************************************************************)
(* Proofs about the viewer registry for any number of viewers, handlers    *)
(* and requests.  The inductive invariant is TypeOK with                   *)
(* OrderMatchesHandlers: without the assignment of handlers to the entries *)
(* of order, nothing says that promoting the head of order, or the next    *)
(* one, promotes a viewer that is still connected.                         *)
(***************************************************************************)
EXTENDS ViewerRegistry, TLAPS, SequenceTheorems, NaturalsInduction, WellFoundedInduction

\* The least element of a nonempty set of naturals is one of its elements.
LEMMA MinIsElement ==
    ASSUME NEW S \in SUBSET Nat, S # {}
    PROVE  Min(S) \in S /\ \A y \in S : Min(S) <= y
<1> DEFINE R == {ss \in Nat \X Nat : ss[1] < ss[2]}
<1>1. IsWellFoundedOn(R, Nat)
  BY NatLessThanWellFounded DEF OpToRel
<1>2. PICK x \in S : \A y \in S : ~(<<y, x>> \in R)
  <2> HIDE DEF R
  <2> QED BY <1>1, WFMin
<1>3. ASSUME NEW y \in S
      PROVE  x <= y
  <2>1. <<y, x>> \notin R
    BY <1>2
  <2>2. <<y, x>> \in Nat \X Nat /\ x \in Nat /\ y \in Nat
    OBVIOUS
  <2>3. ~(<<y, x>>[1] < <<y, x>>[2])
    BY <2>1, <2>2
  <2> QED BY <2>2, <2>3
<1> QED BY <1>3 DEF Min

\* The loop that looks an id up in order finds an entry equal to it exactly when
\* there is one.
LEMMA FirstMatch ==
    ASSUME NEW S, NEW s \in Seq(S), NEW e
    PROVE  LET i == SelectInSeq(s, LAMBDA v : v = e)
           IN  IF \E j \in 1..Len(s) : s[j] = e
                 THEN i \in 1..Len(s) /\ s[i] = e
                 ELSE i = 0
<1> DEFINE I == {j \in 1..Len(s) : s[j] = e}
<1>1. I # {} => Min(I) \in I
  <2>1. I \subseteq Nat
    OBVIOUS
  <2> HIDE DEF I
  <2> QED BY <2>1, MinIsElement
<1>2. SelectInSeq(s, LAMBDA v : v = e) = IF I # {} THEN Min(I) ELSE 0
  BY DEF SelectInSeq
<1> QED BY <1>1, <1>2

\* What slicing order around position i leaves: one entry less, the others in
\* their order.
LEMMA RemoveAtProperties ==
    ASSUME NEW S, NEW s \in Seq(S), NEW i \in 1..Len(s)
    PROVE  /\ RemoveAt(s, i) \in Seq(S)
           /\ Len(RemoveAt(s, i)) = Len(s) - 1
           /\ \A j \in 1..(Len(s) - 1) :
                RemoveAt(s, i)[j] = IF j < i THEN s[j] ELSE s[j + 1]
<1> DEFINE a == SubSeq(s, 1, i - 1)
           b == SubSeq(s, i + 1, Len(s))
<1>1. a \in Seq(S) /\ b \in Seq(S)
  OBVIOUS
<1>2. /\ Len(a) = i - 1
      /\ Len(b) = Len(s) - i
      /\ \A j \in 1..(i - 1) : a[j] = s[j]
      /\ \A j \in 1..(Len(s) - i) : b[j] = s[i + j]
  OBVIOUS
<1>3. RemoveAt(s, i) = a \o b
  BY DEF RemoveAt
<1> HIDE DEF a, b
<1>4. /\ a \o b \in Seq(S)
      /\ Len(a \o b) = Len(s) - 1
  <2>1. a \o b \in Seq(S) /\ Len(a \o b) = Len(a) + Len(b)
    BY <1>1, ConcatProperties
  <2>2. Len(s) \in Nat
    OBVIOUS
  <2> QED BY <2>1, <2>2, <1>2
<1>5. ASSUME NEW j \in 1..(Len(s) - 1)
      PROVE  (a \o b)[j] = IF j < i THEN s[j] ELSE s[j + 1]
  <2>1. CASE j < i
    BY <2>1, <1>1, <1>2
  <2>2. CASE ~(j < i)
    <3>1. (a \o b)[j] = b[j - (i - 1)] /\ j - (i - 1) \in 1..(Len(s) - i)
      BY <2>2, <1>1, <1>2
    <3> QED BY <3>1, <1>2, <2>2
  <2> QED BY <2>1, <2>2
<1> QED BY <1>3, <1>4, <1>5

\* Every other entry is still there after slicing position i out.
LEMMA RemoveAtKeepsOthers ==
    ASSUME NEW S, NEW s \in Seq(S), NEW i \in 1..Len(s),
           NEW w, w # s[i], \E j \in 1..Len(s) : s[j] = w
    PROVE  \E j \in 1..Len(RemoveAt(s, i)) : RemoveAt(s, i)[j] = w
<1>1. PICK j \in 1..Len(s) : s[j] = w
  OBVIOUS
<1>2. Len(s) \in Nat /\ j # i
  BY <1>1
<1>3. CASE j < i
  <2>1. j \in 1..(Len(s) - 1)
    BY <1>2, <1>3
  <2>2. RemoveAt(s, i)[j] = w /\ Len(RemoveAt(s, i)) = Len(s) - 1
    BY <1>1, <1>3, <2>1, RemoveAtProperties
  <2> QED BY <2>1, <2>2
<1>4. CASE j > i
  <2>1. j - 1 \in 1..(Len(s) - 1) /\ ~(j - 1 < i) /\ (j - 1) + 1 = j
    BY <1>2, <1>4
  <2>2. RemoveAt(s, i)[j - 1] = w /\ Len(RemoveAt(s, i)) = Len(s) - 1
    BY <1>1, <2>1, RemoveAtProperties
  <2> QED BY <2>1, <2>2
<1> QED BY <1>2, <1>3, <1>4

\* Remove's loop with its break takes out one entry equal to v, or nothing.
LEMMA RemoveFirstProperties ==
    ASSUME NEW S, NEW s \in Seq(S), NEW e
    PROVE  \/ (\A j \in 1..Len(s) : s[j] # e) /\ RemoveFirst(s, e) = s
           \/ \E i \in 1..Len(s) : s[i] = e /\ RemoveFirst(s, e) = RemoveAt(s, i)
<1>1. CASE \E j \in 1..Len(s) : s[j] = e
  BY <1>1, FirstMatch DEF RemoveFirst
<1>2. CASE ~ \E j \in 1..Len(s) : s[j] = e
  BY <1>2 DEF RemoveFirst
<1> QED BY <1>1, <1>2

\* The viewer ReleaseControl promotes is one of order other than the one that
\* releases, and nobody only when there is no other.
LEMMA NextInOrderProperties ==
    ASSUME NEW s \in Seq(Viewers), NEW v
    PROVE  \/ NextInOrder(s, v) = NoViewer /\ \A j \in 1..Len(s) : s[j] = v
           \/ \E i \in 1..Len(s) :
                /\ s[i] # v
                /\ \A j \in 1..(i - 1) : s[j] = v
                /\ NextInOrder(s, v) = s[i]
<1> DEFINE I == {j \in 1..Len(s) : s[j] # v}
<1>1. I # {} => Min(I) \in I /\ \A j \in I : Min(I) <= j
  <2>1. I \subseteq Nat
    OBVIOUS
  <2> HIDE DEF I
  <2> QED BY <2>1, MinIsElement
<1>2. SelectInSeq(s, LAMBDA w : w # v) = IF I # {} THEN Min(I) ELSE 0
  BY DEF SelectInSeq
<1> DEFINE i == SelectInSeq(s, LAMBDA w : w # v)
<1>3. NextInOrder(s, v) = IF i = 0 THEN NoViewer ELSE s[i]
  BY DEF NextInOrder
<1>4. i = IF I # {} THEN Min(I) ELSE 0
  BY <1>2
<1> HIDE DEF i
<1>5. CASE I = {}
  BY <1>3, <1>4, <1>5
<1>6. CASE I # {}
  <2>1. i \in I /\ i # 0 /\ \A j \in I : i <= j
    BY <1>1, <1>4, <1>6
  <2>2. ASSUME NEW j \in 1..(i - 1)
        PROVE  s[j] = v
    <3>1. j \in 1..Len(s) /\ ~(i <= j)
      BY <2>1
    <3> QED BY <2>1, <3>1
  <2> QED BY <1>3, <2>1, <2>2
<1> QED BY <1>5, <1>6
-----------------------------------------------------------------------------
\* Every reachable registry is well typed: controller and order only ever name
\* viewers.
THEOREM TypeCorrect == Spec => []TypeOK
<1> USE ViewersAssumption, RequestAssumption
<1>1. Init => TypeOK
  BY DEF Init, TypeOK
<1>2. TypeOK /\ [Next]_vars => TypeOK'
  <2> SUFFICES ASSUME TypeOK, [Next]_vars
               PROVE  TypeOK'
    OBVIOUS
  <2> USE DEF TypeOK, Request
  <2>1. ASSUME NEW c \in Conns, NEW v \in Viewers, Add(c, v)
        PROVE  TypeOK'
    BY <2>1 DEF Add
  <2>2. ASSUME NEW c \in Conns, RemoveViewer(c)
        PROVE  TypeOK'
    <3>1. order' \in Seq(Viewers)
      BY <2>2, RemoveFirstProperties, RemoveAtProperties DEF RemoveViewer
    <3>2. FirstInOrder(order') \in Viewers \cup {NoViewer}
      BY <3>1 DEF FirstInOrder
    <3> QED BY <2>2, <3>1, <3>2 DEF RemoveViewer
  <2>3. ASSUME NEW v \in Viewers, RequestControl(v)
        PROVE  TypeOK'
    BY <2>3 DEF RequestControl
  <2>4. CASE TimerFires
    BY <2>4 DEF TimerFires
  <2>5. ASSUME NEW r \in fired, TimeoutCallback(r)
        PROVE  TypeOK'
    BY <2>5 DEF TimeoutCallback
  <2>6. CASE AcceptControlRequest
    BY <2>6 DEF AcceptControlRequest
  <2>7. CASE AcceptGoneRequester
    BY <2>7 DEF AcceptGoneRequester
  <2>8. CASE DenyControlRequest
    BY <2>8 DEF DenyControlRequest
  <2>9. ASSUME NEW v \in Viewers, ReleaseControl(v)
        PROVE  TypeOK'
    <3>1. NextInOrder(order, v) \in Viewers \cup {NoViewer}
      BY NextInOrderProperties
    <3> QED BY <2>9, <3>1 DEF ReleaseControl
  <2>10. CASE UNCHANGED vars
    BY <2>10 DEF vars
  <2> QED BY <2>1, <2>2, <2>3, <2>4, <2>5, <2>6, <2>7, <2>8, <2>9, <2>10 DEF Next
<1> QED BY <1>1, <1>2, PTL DEF Spec
-----------------------------------------------------------------------------
\* The ids in order, by position.
LEMMA RangeOfOrder ==
    ASSUME NEW s \in Seq(Viewers)
    PROVE  Range(s) = {s[i] : i \in 1..Len(s)}
  BY DEF Range

\* Add's appended entry belongs to the handler that starts.
LEMMA AddAssigns ==
    ASSUME TypeOK, NEW f \in [1..Len(order) -> Conns], Assigns(f, order, conn),
           NEW c \in Conns, NEW v \in Viewers, conn[c] = NoViewer
    PROVE  \E g \in [1..Len(Append(order, v)) -> Conns] :
             Assigns(g, Append(order, v), [conn EXCEPT ![c] = v])
<1> DEFINE n == Len(order)
           o == Append(order, v)
           cn == [conn EXCEPT ![c] = v]
           g == [i \in 1..(n + 1) |-> IF i = n + 1 THEN c ELSE f[i]]
<1>1. n \in Nat /\ Len(o) = n + 1 /\ o[n + 1] = v /\ \A i \in 1..n : o[i] = order[i]
  BY DEF TypeOK
<1>2. \A i \in 1..n : order[i] # NoViewer /\ f[i] # c
  BY ViewersAssumption DEF TypeOK, Assigns
<1>3. cn[c] = v /\ \A d \in Conns : d # c => cn[d] = conn[d]
  BY DEF TypeOK
<1> HIDE DEF cn, o, n
<1>4. g \in [1..Len(o) -> Conns]
  BY <1>1 DEF Assigns, n
<1>5. \A i, j \in 1..Len(o) : g[i] = g[j] => i = j
  BY <1>1, <1>2 DEF Assigns, n
<1>6. \A i \in 1..Len(o) : cn[g[i]] = o[i]
  BY <1>1, <1>2, <1>3 DEF Assigns, n
<1>7. \A d \in Conns : cn[d] # NoViewer => \E i \in 1..Len(o) : g[i] = d
  <2> SUFFICES ASSUME NEW d \in Conns, cn[d] # NoViewer
               PROVE  \E i \in 1..Len(o) : g[i] = d
    OBVIOUS
  <2>1. CASE d = c
    BY <2>1, <1>1
  <2>2. CASE d # c
    <3>1. PICK i \in 1..n : f[i] = d
      BY <2>2, <1>3 DEF Assigns, n
    <3> QED BY <3>1, <1>1
  <2> QED BY <2>1, <2>2
<1>8. Assigns(g, o, cn)
  BY <1>4, <1>5, <1>6, <1>7 DEF Assigns
<1> QED BY <1>4, <1>8 DEF o, cn

\* After Remove took the first entry of its id out, the remaining entries still
\* belong to the remaining handlers, also when it took another handler's entry.
LEMMA RemoveAssigns ==
    ASSUME TypeOK, NEW f \in [1..Len(order) -> Conns], Assigns(f, order, conn),
           NEW c \in Conns, conn[c] # NoViewer
    PROVE  \E i \in 1..Len(order) :
             /\ order[i] = conn[c]
             /\ RemoveFirst(order, conn[c]) = RemoveAt(order, i)
             /\ \E g \in [1..Len(RemoveAt(order, i)) -> Conns] :
                  Assigns(g, RemoveAt(order, i), [conn EXCEPT ![c] = NoViewer])
<1>1. PICK k \in 1..Len(order) : f[k] = c
  BY DEF Assigns
<1>2. order[k] = conn[c]
  BY <1>1 DEF Assigns
<1>3. PICK i \in 1..Len(order) :
        order[i] = conn[c] /\ RemoveFirst(order, conn[c]) = RemoveAt(order, i)
  BY <1>2, RemoveFirstProperties DEF TypeOK
<1> DEFINE n == Len(order)
           o == RemoveAt(order, i)
           cn == [conn EXCEPT ![c] = NoViewer]
           old(j) == IF j < i THEN j ELSE j + 1
           h(j) == IF j = k THEN f[i] ELSE f[j]
           g == [j \in 1..(n - 1) |-> h(old(j))]
<1>4. n \in Nat /\ Len(o) = n - 1 /\ \A j \in 1..(n - 1) : o[j] = order[old(j)]
  BY RemoveAtProperties DEF TypeOK
<1>5. \A j \in 1..(n - 1) : old(j) \in 1..n /\ old(j) # i
  BY <1>4
<1>6. \A j \in 1..n : j # i => h(j) \in Conns /\ h(j) # c /\ conn[h(j)] = order[j]
  BY <1>1, <1>2, <1>3 DEF Assigns
<1>7. \A j, m \in 1..n : j # i /\ m # i /\ h(j) = h(m) => j = m
  BY <1>1 DEF Assigns
<1>8. \A d \in Conns : d # c => cn[d] = conn[d]
  BY DEF TypeOK
<1>9. cn[c] = NoViewer
  BY DEF TypeOK
<1>10. \A j, m \in 1..(n - 1) : old(j) = old(m) => j = m
  BY <1>4
<1>11. \A j \in 1..n : j # i => \E m \in 1..(n - 1) : old(m) = j
  <2> SUFFICES ASSUME NEW j \in 1..n, j # i
               PROVE  \E m \in 1..(n - 1) : old(m) = j
    OBVIOUS
  <2>1. CASE j < i
    <3>1. j \in 1..(n - 1) /\ old(j) = j
      BY <2>1, <1>4
    <3> QED BY <3>1
  <2>2. CASE j > i
    <3>1. j - 1 \in 1..(n - 1) /\ old(j - 1) = j
      BY <2>2, <1>4
    <3> QED BY <3>1
  <2> QED BY <2>1, <2>2, <1>4
<1> HIDE DEF cn, o, n, old, h
<1>12. g \in [1..Len(o) -> Conns]
  BY <1>4, <1>5, <1>6
<1>13. \A j, m \in 1..Len(o) : g[j] = g[m] => j = m
  BY <1>4, <1>5, <1>7, <1>10
<1>14. \A j \in 1..Len(o) : cn[g[j]] = o[j]
  BY <1>4, <1>5, <1>6, <1>8
<1>15. \A d \in Conns : cn[d] # NoViewer => \E j \in 1..Len(o) : g[j] = d
  <2> SUFFICES ASSUME NEW d \in Conns, cn[d] # NoViewer
               PROVE  \E j \in 1..Len(o) : g[j] = d
    OBVIOUS
  <2>1. d # c /\ conn[d] # NoViewer
    BY <1>8, <1>9
  <2>2. PICK m \in 1..n : f[m] = d
    BY <2>1 DEF Assigns, n
  <2>3. PICK p \in 1..n : p # i /\ h(p) = d
    <3>1. CASE m = i
      BY <3>1, <2>1, <2>2, <1>1 DEF h, n
    <3>2. CASE m # i
      BY <3>2, <2>1, <2>2, <1>1 DEF h
    <3> QED BY <3>1, <3>2
  <2>4. PICK q \in 1..(n - 1) : old(q) = p
    BY <2>3, <1>11
  <2> QED BY <2>3, <2>4, <1>4
<1>16. Assigns(g, o, cn)
  BY <1>12, <1>13, <1>14, <1>15 DEF Assigns
<1> QED BY <1>3, <1>12, <1>16 DEF o, cn
-----------------------------------------------------------------------------
\* OrderMatchesHandlers: order, viewers and controller agree with the handlers
\* that are running, through every interleaving of Add, Remove, requests and
\* timeouts.
THEOREM BookkeepingInvariant == Spec => []OrderMatchesHandlers
<1> USE ViewersAssumption
<1>1. Init => OrderMatchesHandlers
  <2> SUFFICES ASSUME Init PROVE OrderMatchesHandlers
    OBVIOUS
  <2>1. Len(order) = 0 /\ 1..Len(order) = {} /\ Range(order) = {}
    BY DEF Init, Range
  <2>2. Assigns([i \in 1..Len(order) |-> i], order, conn)
    BY <2>1 DEF Init, Assigns
  <2>3. [i \in 1..Len(order) |-> i] \in [1..Len(order) -> Conns]
    BY <2>1
  <2> QED BY <2>1, <2>2, <2>3 DEF Init, OrderMatchesHandlers
<1>2. TypeOK /\ TypeOK' /\ OrderMatchesHandlers /\ [Next]_vars => OrderMatchesHandlers'
  <2> SUFFICES ASSUME TypeOK, TypeOK', OrderMatchesHandlers, [Next]_vars
               PROVE  OrderMatchesHandlers'
    OBVIOUS
  <2> DEFINE In(v, s) == \E i \in 1..Len(s) : s[i] = v
  <2>a. /\ \A v \in viewers : In(v, order)
        /\ controller # NoViewer => In(controller, order)
        /\ \E f \in [1..Len(order) -> Conns] : Assigns(f, order, conn)
    BY RangeOfOrder DEF OrderMatchesHandlers, TypeOK
  <2>b. ASSUME /\ \A v \in viewers' : In(v, order')
               /\ controller' # NoViewer => In(controller', order')
               /\ \E f \in [1..Len(order') -> Conns] : Assigns(f, order', conn')
        PROVE  OrderMatchesHandlers'
    <3>1. Range(order') = {order'[i] : i \in 1..Len(order')}
      BY RangeOfOrder DEF TypeOK
    <3> QED BY <3>1, <2>b DEF OrderMatchesHandlers
  <2>1. ASSUME NEW c \in Conns, NEW v \in Viewers, Add(c, v)
        PROVE  OrderMatchesHandlers'
    <3>1. \A w : In(w, order') <=> w = v \/ In(w, order)
      BY <2>1 DEF Add, TypeOK
    <3>2. \E f \in [1..Len(order') -> Conns] : Assigns(f, order', conn')
      BY <2>1, <2>a, AddAssigns DEF Add
    <3> QED BY <2>1, <2>a, <2>b, <3>1, <3>2 DEF Add
  <2>2. ASSUME NEW c \in Conns, RemoveViewer(c)
        PROVE  OrderMatchesHandlers'
    <3>1. PICK i \in 1..Len(order) :
            /\ order[i] = conn[c]
            /\ order' = RemoveAt(order, i)
            /\ \E g \in [1..Len(order') -> Conns] : Assigns(g, order', conn')
      BY <2>2, <2>a, RemoveAssigns DEF RemoveViewer
    <3>2. ASSUME NEW w, w # conn[c], In(w, order)
          PROVE  In(w, order')
      <4>1. order \in Seq(Viewers) /\ w # order[i] /\ \E j \in 1..Len(order) : order[j] = w
        BY <3>1, <3>2 DEF TypeOK
      <4>2. \E j \in 1..Len(RemoveAt(order, i)) : RemoveAt(order, i)[j] = w
        BY <4>1, RemoveAtKeepsOthers
      <4> QED BY <3>1, <4>2
    <3>3. controller = conn[c] /\ controller' # NoViewer => In(controller', order')
      BY <2>2 DEF RemoveViewer, FirstInOrder, TypeOK
    <3>4. controller # conn[c] /\ controller' # NoViewer => In(controller', order')
      BY <2>2, <2>a, <3>2 DEF RemoveViewer
    <3> QED BY <2>2, <2>a, <2>b, <3>1, <3>2, <3>3, <3>4 DEF RemoveViewer
  <2>3. ASSUME NEW v \in Viewers, RequestControl(v)
        PROVE  OrderMatchesHandlers'
    BY <2>3 DEF RequestControl, OrderMatchesHandlers
  <2>4. CASE TimerFires
    BY <2>4 DEF TimerFires, OrderMatchesHandlers
  <2>5. ASSUME NEW r \in fired, TimeoutCallback(r)
        PROVE  OrderMatchesHandlers'
    BY <2>5 DEF TimeoutCallback, OrderMatchesHandlers
  <2>6. CASE AcceptControlRequest
    BY <2>6 DEF AcceptControlRequest, OrderMatchesHandlers
  <2>7. CASE AcceptGoneRequester
    BY <2>7 DEF AcceptGoneRequester, OrderMatchesHandlers
  <2>8. CASE DenyControlRequest
    BY <2>8 DEF DenyControlRequest, OrderMatchesHandlers
  <2>9. ASSUME NEW v \in Viewers, ReleaseControl(v)
        PROVE  OrderMatchesHandlers'
    <3>1. controller' # NoViewer => In(controller', order)
      BY <2>9, NextInOrderProperties DEF ReleaseControl, TypeOK
    <3> QED BY <2>9, <2>a, <2>b, <3>1 DEF ReleaseControl
  <2>10. CASE UNCHANGED vars
    BY <2>10 DEF vars, OrderMatchesHandlers
  <2> QED BY <2>1, <2>2, <2>3, <2>4, <2>5, <2>6, <2>7, <2>8, <2>9, <2>10 DEF Next
<1> QED BY <1>1, <1>2, TypeCorrect, PTL DEF Spec

\* ControllerIsConnected: input control is never left with a viewer that has gone.
THEOREM ControllerConnected == Spec => []ControllerIsConnected
<1>1. TypeOK /\ OrderMatchesHandlers => ControllerIsConnected
  <2> SUFFICES ASSUME TypeOK, OrderMatchesHandlers, controller # NoViewer
               PROVE  \E c \in Conns : conn[c] = controller
    BY DEF ControllerIsConnected
  <2>1. PICK f \in [1..Len(order) -> Conns] : Assigns(f, order, conn)
    BY DEF OrderMatchesHandlers
  <2>2. PICK i \in 1..Len(order) : order[i] = controller
    BY RangeOfOrder DEF OrderMatchesHandlers, TypeOK
  <2> QED BY <2>1, <2>2 DEF Assigns
<1> QED BY <1>1, TypeCorrect, BookkeepingInvariant, PTL

\* PendingRequestHasTimer: a pending request has its timer running or its callback
\* on the way.
THEOREM PendingTimer == Spec => []PendingRequestHasTimer
<1> USE RequestAssumption DEF PendingRequestHasTimer
<1>1. Init => PendingRequestHasTimer
  BY DEF Init
<1>2. TypeOK /\ PendingRequestHasTimer /\ [Next]_vars => PendingRequestHasTimer'
  BY DEF Next, vars, Add, RemoveViewer, RequestControl, TimerFires, TimeoutCallback,
         AcceptControlRequest, AcceptGoneRequester, DenyControlRequest, ReleaseControl
<1> QED BY <1>1, <1>2, TypeCorrect, PTL DEF Spec
-----------------------------------------------------------------------------
\* ImplementsControlToken: every step of the registry is a step of the abstract
\* control token, or leaves it alone.
THEOREM RefinesControlToken == Spec => ImplementsControlToken
<1> USE ViewersAssumption, RequestAssumption
<1>1. Init => Token!Init
  BY DEF Init, Token!Init
<1>2. TypeOK /\ TypeOK' /\ OrderMatchesHandlers /\ [Next]_vars
        => [Token!Next]_(Token!vars)
  <2> SUFFICES ASSUME TypeOK, TypeOK', OrderMatchesHandlers, [Next]_vars
               PROVE  Token!Next \/ UNCHANGED Token!vars
    OBVIOUS
  <2>a. /\ \A v \in viewers : \E i \in 1..Len(order) : order[i] = v
        /\ controller # NoViewer => \E i \in 1..Len(order) : order[i] = controller
        /\ order \in Seq(Viewers)
    <3>1. order \in Seq(Viewers)
      BY DEF TypeOK
    <3>2. Range(order) = {order[i] : i \in 1..Len(order)}
      BY <3>1, RangeOfOrder
    <3> QED BY <3>1, <3>2 DEF OrderMatchesHandlers
  <2>1. ASSUME NEW c \in Conns, NEW v \in Viewers, Add(c, v)
        PROVE  Token!Join(v)
    BY <2>1 DEF Add, Token!Join
  <2>2. ASSUME NEW c \in Conns, RemoveViewer(c)
        PROVE  conn[c] \in Viewers /\ Token!Leave(conn[c])
    <3>1. conn[c] \in Viewers
      BY <2>2 DEF RemoveViewer, TypeOK
    <3>2. \E i \in 1..Len(order) : order[i] = conn[c] /\ order' = RemoveAt(order, i)
      <4>1. PICK f \in [1..Len(order) -> Conns] : Assigns(f, order, conn)
        BY DEF OrderMatchesHandlers
      <4> QED BY <2>2, <4>1, RemoveAssigns DEF RemoveViewer
    <3>3. order' # <<>> => Head(order') = order'[1]
      BY DEF TypeOK
    <3>4. controller' = CASE controller # conn[c] -> controller
                          [] controller = conn[c] /\ order' = <<>> -> NoViewer
                          [] controller = conn[c] /\ order' # <<>> -> order'[1]
      BY <2>2, <3>3 DEF RemoveViewer, FirstInOrder
    <3> QED BY <2>2, <3>1, <3>2, <3>4 DEF RemoveViewer, Token!Leave, RemoveAt, Token!RemoveAt
  <2>3. ASSUME NEW v \in Viewers, RequestControl(v)
        PROVE  Token!Claim(v)
    BY <2>3, <2>a DEF RequestControl, Token!Claim, Token!InLine, TypeOK, Request
  <2>4. TimerFires => UNCHANGED Token!vars
    BY DEF TimerFires, Token!vars
  <2>5. ASSUME NEW r \in fired, TimeoutCallback(r)
        PROVE  Token!Grant \/ Token!Drop \/ UNCHANGED Token!vars
    BY <2>5, <2>a DEF TimeoutCallback, Token!Grant, Token!Drop, Token!InLine, Token!vars
  <2>6. AcceptControlRequest => Token!Grant
    BY <2>a DEF AcceptControlRequest, Token!Grant, Token!InLine
  <2>7. AcceptGoneRequester => Token!Drop
    BY DEF AcceptGoneRequester, Token!Drop
  <2>8. DenyControlRequest => Token!Drop
    BY DEF DenyControlRequest, Token!Drop
  <2>9. ASSUME NEW v \in Viewers, ReleaseControl(v)
        PROVE  Token!Surrender
    <3>1. controller = v /\ \E i \in 1..Len(order) : order[i] = controller
      BY <2>9, <2>a DEF ReleaseControl
    <3>2. \/ controller' = NoViewer /\ \A j \in 1..Len(order) : order[j] = v
          \/ \E i \in 1..Len(order) :
               /\ order[i] # v
               /\ \A j \in 1..(i - 1) : order[j] = v
               /\ controller' = order[i]
      BY <2>9, <2>a, NextInOrderProperties DEF ReleaseControl
    <3> QED BY <2>9, <3>1, <3>2 DEF ReleaseControl, Token!Surrender, Token!InLine
  <2>10. CASE UNCHANGED vars
    BY <2>10 DEF vars, Token!vars
  <2> QED BY <2>1, <2>2, <2>3, <2>4, <2>5, <2>6, <2>7, <2>8, <2>9, <2>10 DEF Next, Token!Next
<1> QED BY <1>1, <1>2, TypeCorrect, BookkeepingInvariant, PTL
        DEF Spec, ImplementsControlToken, Token!Spec
=============================================================================
