---------------------------- MODULE Server_proofs ----------------------------
(***************************************************************************)
(* Proofs about Server: for any number of workers, clients and descriptors,*)
(* every connection that waits is in the backlog once, a worker resumes    *)
(* only connections of its own, none has more than descriptors for, and    *)
(* none falls asleep over a request of a connection it has.                *)
(***************************************************************************)
EXTENDS Server, ListLemmas

\* The connections of a worker, or those that wait.
OwnedBy(o) == {c \in Conn : owner[c] = o}

\* What the invariant says of the kernel's queue, in the terms of ListLemmas.
LEMMA BacklogFacts ==
    ASSUME ServerIInv
    PROVE  /\ backlog \in Seq(Conn) /\ IsInjective(backlog)
           /\ ToSet(backlog) = OwnedBy("backlog")
           /\ Len(backlog) = Cardinality(OwnedBy("backlog"))
           /\ \A o \in Worker \cup {"backlog"} : IsFiniteSet(OwnedBy(o))
           /\ owner \in [Conn -> Worker \cup {"none", "backlog"}]
           /\ MaxFd \in Nat /\ "backlog" \notin Worker /\ "none" \notin Worker
<1>1. backlog \in Seq(Conn) /\ IsInjective(backlog)
  BY DEF ServerIInv, InBacklogOnce, IsInjective
<1>2. ToSet(backlog) = OwnedBy("backlog") /\ Len(backlog) = Cardinality(OwnedBy("backlog"))
  BY DEF ServerIInv, ServerTypeOK, OwnedBy, ToSet
<1>3. \A o \in Worker \cup {"backlog"} : IsFiniteSet(OwnedBy(o))
  BY DEF ServerIInv, OwnedBy
<1>4. MaxFd \in Nat /\ "backlog" \notin Worker /\ "none" \notin Worker
  BY ServerAssumption
<1> QED
  BY <1>1, <1>2, <1>3, <1>4 DEF ServerIInv, ServerTypeOK

\* It is enough to know of the next state what follows.
LEMMA NextFacts ==
    ASSUME /\ backlog' \in Seq(Conn) /\ IsInjective(backlog')
           /\ ToSet(backlog') = OwnedBy("backlog")'
           /\ Len(backlog') = Cardinality(OwnedBy("backlog")'),
           \A o \in Worker \cup {"backlog"} : IsFiniteSet(OwnedBy(o)'),
           \A w \in Worker : Cardinality(OwnedBy(w)') <= MaxFd,
           owner' \in [Conn -> Worker \cup {"none", "backlog"}],
           req' \in [Conn -> {"none", "request", "last"}],
           active' \subseteq Conn, stale' \subseteq Conn, sigio' \subseteq Worker,
           wpc' \in [Worker -> {"poll", "asleep", "accept", "pass", "gone"}],
           turn' \in [Worker -> SUBSET Conn],
           \A w \in Worker : turn'[w] \subseteq OwnedBy(w)'
    PROVE  ServerIInv'
<1>1. \A w \in Worker : Own(w)' = OwnedBy(w)'
  BY DEF Own, OwnedBy
<1>2. InBacklogOnce'
  BY DEF InBacklogOnce, IsInjective
<1>3. {backlog'[k] : k \in DOMAIN backlog'} = {c \in Conn : owner'[c] = "backlog"}
  BY DEF ToSet, OwnedBy
<1>4. Len(backlog') = Cardinality({c \in Conn : owner'[c] = "backlog"})
  BY DEF OwnedBy
<1>5. ServerTypeOK'
  BY <1>1, <1>3, <1>4 DEF ServerTypeOK
<1>6. \A o \in Worker \cup {"backlog"} : IsFiniteSet({c \in Conn : owner'[c] = o})
  BY DEF OwnedBy
<1> QED
  BY <1>2, <1>5, <1>6 DEF ServerIInv

\* A connection changes hands: one set grows by it, another one shrinks.
LEMMA OwnerFacts ==
    ASSUME ServerIInv, NEW c \in Conn, NEW o \in Worker \cup {"none", "backlog"},
           owner' = [owner EXCEPT ![c] = o], owner[c] # o
    PROVE  /\ owner' \in [Conn -> Worker \cup {"none", "backlog"}]
           /\ \A p : OwnedBy(p)' = IF p = o THEN OwnedBy(p) \cup {c}
                                   ELSE IF p = owner[c] THEN OwnedBy(p) \ {c} ELSE OwnedBy(p)
           /\ \A p \in Worker \cup {"backlog"} :
                 /\ IsFiniteSet(OwnedBy(p)')
                 /\ Cardinality(OwnedBy(p)') =
                       IF p = o THEN Cardinality(OwnedBy(p)) + 1
                       ELSE IF p = owner[c] THEN Cardinality(OwnedBy(p)) - 1
                       ELSE Cardinality(OwnedBy(p))
                 /\ Cardinality(OwnedBy(p)) \in Nat
<1>1. /\ owner' \in [Conn -> Worker \cup {"none", "backlog"}]
      /\ owner'[c] = o /\ \A d \in Conn : d # c => owner'[d] = owner[d]
  BY BacklogFacts
<1>2. ASSUME NEW p
      PROVE  OwnedBy(p)' = IF p = o THEN OwnedBy(p) \cup {c}
                           ELSE IF p = owner[c] THEN OwnedBy(p) \ {c} ELSE OwnedBy(p)
  BY <1>1 DEF OwnedBy
<1>3. ASSUME NEW p \in Worker \cup {"backlog"}
      PROVE  /\ IsFiniteSet(OwnedBy(p)')
             /\ Cardinality(OwnedBy(p)') =
                   IF p = o THEN Cardinality(OwnedBy(p)) + 1
                   ELSE IF p = owner[c] THEN Cardinality(OwnedBy(p)) - 1
                   ELSE Cardinality(OwnedBy(p))
             /\ Cardinality(OwnedBy(p)) \in Nat
  <2>1. IsFiniteSet(OwnedBy(p))
    BY BacklogFacts
  <2>2. c \in OwnedBy(p) <=> p = owner[c]
    BY DEF OwnedBy
  <2>3. /\ IsFiniteSet(OwnedBy(p) \cup {c}) /\ IsFiniteSet(OwnedBy(p) \ {c})
        /\ p # owner[c] => Cardinality(OwnedBy(p) \cup {c}) = Cardinality(OwnedBy(p)) + 1
        /\ p = owner[c] => Cardinality(OwnedBy(p) \ {c}) = Cardinality(OwnedBy(p)) - 1
        /\ Cardinality(OwnedBy(p)) \in Nat
    BY <2>1, <2>2, FS_AddElement, FS_RemoveElement, FS_CardinalityType
  <2> QED BY <1>2, <2>1, <2>3
<1> QED
  BY <1>1, <1>2, <1>3

\* A pass starts with the connections of the worker.
LEMMA StartPassFacts ==
    ASSUME wpc \in [Worker -> {"poll", "asleep", "accept", "pass", "gone"}], turn \in [Worker -> SUBSET Conn],
           NEW w \in Worker, StartPass(w)
    PROVE  /\ wpc' \in [Worker -> {"poll", "asleep", "accept", "pass", "gone"}]
           /\ turn' \in [Worker -> SUBSET Conn]
           /\ turn'[w] = OwnedBy(w)'
           /\ \A v \in Worker : v # w => turn'[v] = turn[v]
  BY DEF StartPass, Goto, OwnedBy

-----------------------------------------------------------------------------
LEMMA InitServerIInv == Init => ServerIInv
<1> SUFFICES ASSUME Init PROVE ServerIInv
  OBVIOUS
<1>1. /\ backlog = <<>> /\ sigio = {} /\ active = {} /\ stale = {}
      /\ owner = [c \in Conn |-> "none"] /\ req = [c \in Conn |-> "none"]
      /\ wpc = [w \in Worker |-> "poll"] /\ turn = [w \in Worker |-> {}]
      /\ MaxFd \in Nat
  BY ServerAssumption DEF Init
<1>2. \A o \in Worker \cup {"backlog"} : {c \in Conn : owner[c] = o} = {}
  BY <1>1, ServerAssumption
<1>3. \A w \in Worker : Own(w) = {}
  BY <1>2 DEF Own
<1>4. /\ IsFiniteSet({}) /\ Cardinality({}) = 0
      /\ backlog \in Seq(Conn) /\ Len(backlog) = 0 /\ DOMAIN backlog = {}
  BY <1>1, FS_EmptySet, EmptySeq
<1>5. {backlog[k] : k \in DOMAIN backlog} = {c \in Conn : owner[c] = "backlog"}
  BY <1>2, <1>4
<1>6. \A w \in Worker : turn[w] \subseteq Own(w) /\ Cardinality(Own(w)) <= MaxFd
  <2>1. 0 <= MaxFd
    BY <1>1
  <2>2. \A w \in Worker : turn[w] = {}
    BY <1>1
  <2> QED BY ONLY <1>3, <1>4, <2>1, <2>2
<1>7. Len(backlog) = Cardinality({c \in Conn : owner[c] = "backlog"})
  BY <1>2, <1>4
<1>8. ServerTypeOK
  BY <1>1, <1>5, <1>6, <1>7 DEF ServerTypeOK
<1> QED
  BY <1>1, <1>2, <1>4, <1>8 DEF ServerIInv, InBacklogOnce

\* Steps in which no connection changes hands.
LEMMA QuietSteps ==
    ASSUME ServerIInv, UNCHANGED <<owner, backlog>>,
           req' \in [Conn -> {"none", "request", "last"}],
           active' \subseteq Conn, stale' \subseteq Conn, sigio' \subseteq Worker,
           wpc' \in [Worker -> {"poll", "asleep", "accept", "pass", "gone"}],
           turn' \in [Worker -> SUBSET Conn],
           \A w \in Worker : turn'[w] \subseteq turn[w] \/ turn'[w] = OwnedBy(w)'
    PROVE  ServerIInv'
<1>1. \A o : OwnedBy(o)' = OwnedBy(o)
  BY DEF OwnedBy
<1>2. \A w \in Worker : turn[w] \subseteq OwnedBy(w) /\ Cardinality(OwnedBy(w)) <= MaxFd
  BY DEF ServerIInv, ServerTypeOK, Own, OwnedBy
<1>3. \A w \in Worker : turn'[w] \subseteq OwnedBy(w)' /\ Cardinality(OwnedBy(w)') <= MaxFd
  BY <1>1, <1>2
<1>4. \A o \in Worker \cup {"backlog"} : IsFiniteSet(OwnedBy(o)')
  BY <1>1, BacklogFacts
<1>5. /\ backlog' \in Seq(Conn) /\ IsInjective(backlog')
      /\ ToSet(backlog') = OwnedBy("backlog")' /\ Len(backlog') = Cardinality(OwnedBy("backlog")')
      /\ owner' \in [Conn -> Worker \cup {"none", "backlog"}]
  BY <1>1, BacklogFacts
<1> QED
  BY <1>3, <1>4, <1>5, NextFacts

-----------------------------------------------------------------------------
(***************************************************************************)
(* The steps.                                                              *)
(***************************************************************************)
Types == /\ req \in [Conn -> {"none", "request", "last"}]
         /\ active \subseteq Conn /\ stale \subseteq Conn /\ sigio \subseteq Worker
         /\ wpc \in [Worker -> {"poll", "asleep", "accept", "pass", "gone"}]
         /\ turn \in [Worker -> SUBSET Conn]

LEMMA TypesHold == ServerIInv => Types
  BY DEF ServerIInv, ServerTypeOK, Types

\* A worker looks at its connections, or for new ones, and gets none.
LEMMA PollServerIInv ==
    ASSUME ServerIInv, NEW w \in Worker,
           \/ PollReports(w) \/ AcceptNone(w) \/ PollNothing(w) \/ PollInterrupted(w)
           \/ FallAsleep(w) \/ PassEnds(w)
    PROVE  ServerIInv'
<1>1. Types
  BY TypesHold
<1>2. /\ UNCHANGED <<backlog, owner, req, active, stale>> /\ sigio' \subseteq Worker
      /\ \/ StartPass(w)
         \/ turn' = turn /\ \E l \in {"poll", "asleep", "accept"} : wpc' = [wpc EXCEPT ![w] = l]
  BY <1>1 DEF PollReports, AcceptNone, PollNothing, PollInterrupted, FallAsleep, PassEnds, Goto,
              kernelVars, connVars, Types
<1>3. CASE StartPass(w)
  <2>1. /\ wpc' \in [Worker -> {"poll", "asleep", "accept", "pass", "gone"}]
        /\ turn' \in [Worker -> SUBSET Conn]
        /\ \A v \in Worker : turn'[v] \subseteq turn[v] \/ turn'[v] = OwnedBy(v)'
    BY <1>1, <1>3, StartPassFacts DEF Types
  <2> QED BY <1>1, <1>2, <2>1, QuietSteps DEF Types
<1>4. CASE turn' = turn /\ \E l \in {"poll", "asleep", "accept"} : wpc' = [wpc EXCEPT ![w] = l]
  <2>1. wpc' \in [Worker -> {"poll", "asleep", "accept", "pass", "gone"}]
    BY <1>1, <1>4 DEF Types
  <2> QED BY <1>1, <1>2, <1>4, <2>1, QuietSteps DEF Types
<1> QED
  BY <1>2, <1>3, <1>4

\* The first connection that waits becomes one of the worker, which has a
\* descriptor for it.
LEMMA AcceptConnServerIInv == ASSUME ServerIInv, NEW w \in Worker, AcceptConn(w) PROVE ServerIInv'
<1> DEFINE h == Head(backlog)
<1>1. /\ backlog # <<>> /\ ~(Cardinality(OwnedBy(w)) >= MaxFd)
      /\ owner' = [owner EXCEPT ![h] = w]
      /\ active' = active \cup {h} /\ stale' = stale \ {h} /\ backlog' = Tail(backlog)
      /\ UNCHANGED <<req, sigio>> /\ StartPass(w)
  BY DEF AcceptConn, Full, Own, OwnedBy
<1>2. /\ backlog \in Seq(Conn) /\ IsInjective(backlog) /\ ToSet(backlog) = OwnedBy("backlog")
      /\ Len(backlog) = Cardinality(OwnedBy("backlog")) /\ MaxFd \in Nat
      /\ "backlog" \notin Worker
  BY BacklogFacts
<1>3. /\ h \in ToSet(backlog) /\ h \in Conn /\ Tail(backlog) \in Seq(Conn)
      /\ Len(Tail(backlog)) = Len(backlog) - 1
      /\ ToSet(Tail(backlog)) = ToSet(backlog) \ {h} /\ IsInjective(Tail(backlog))
  BY <1>1, <1>2, TailFacts
<1> HIDE DEF h
<1>4. owner[h] = "backlog" /\ owner[h] # w
  BY <1>2, <1>3 DEF OwnedBy
<1>5. /\ owner' \in [Conn -> Worker \cup {"none", "backlog"}]
      /\ \A p : OwnedBy(p)' = IF p = w THEN OwnedBy(p) \cup {h}
                              ELSE IF p = "backlog" THEN OwnedBy(p) \ {h} ELSE OwnedBy(p)
      /\ \A p \in Worker \cup {"backlog"} :
            /\ IsFiniteSet(OwnedBy(p)')
            /\ Cardinality(OwnedBy(p)') = IF p = w THEN Cardinality(OwnedBy(p)) + 1
                                          ELSE IF p = "backlog" THEN Cardinality(OwnedBy(p)) - 1
                                          ELSE Cardinality(OwnedBy(p))
            /\ Cardinality(OwnedBy(p)) \in Nat
  <2>1. /\ owner' \in [Conn -> Worker \cup {"none", "backlog"}]
        /\ \A p : OwnedBy(p)' = IF p = w THEN OwnedBy(p) \cup {h}
                                ELSE IF p = owner[h] THEN OwnedBy(p) \ {h} ELSE OwnedBy(p)
        /\ \A p \in Worker \cup {"backlog"} :
              /\ IsFiniteSet(OwnedBy(p)')
              /\ Cardinality(OwnedBy(p)') =
                    IF p = w THEN Cardinality(OwnedBy(p)) + 1
                    ELSE IF p = owner[h] THEN Cardinality(OwnedBy(p)) - 1
                    ELSE Cardinality(OwnedBy(p))
              /\ Cardinality(OwnedBy(p)) \in Nat
    <3>1. h \in Conn /\ owner[h] # w /\ w \in Worker \cup {"none", "backlog"}
          /\ owner' = [owner EXCEPT ![h] = w]
      BY <1>1, <1>3, <1>4
    <3> QED BY <3>1, OwnerFacts
  <2>2. owner[h] = "backlog"
    BY <1>4
  <2> QED BY <2>1, <2>2, Zenon
<1>6. ASSUME NEW v \in Worker PROVE Cardinality(OwnedBy(v)') <= MaxFd
  <2>1. Cardinality(OwnedBy(v)) <= MaxFd /\ Cardinality(OwnedBy(v)) \in Nat
    BY <1>5 DEF ServerIInv, ServerTypeOK, Own, OwnedBy
  <2>2. v # "backlog"
    BY <1>2
  <2>3. CASE v = w
    BY <1>1, <1>2, <1>5, <2>1, <2>3
  <2>4. CASE v # w
    BY <1>5, <2>1, <2>2, <2>4
  <2> QED BY <2>3, <2>4
<1>7. Types
  BY TypesHold
<1>8. /\ wpc' \in [Worker -> {"poll", "asleep", "accept", "pass", "gone"}] /\ turn' \in [Worker -> SUBSET Conn]
      /\ turn'[w] = OwnedBy(w)' /\ \A v \in Worker : v # w => turn'[v] = turn[v]
  BY <1>1, <1>7, StartPassFacts DEF Types
<1>9. \A v \in Worker : turn'[v] \subseteq OwnedBy(v)'
  <2>1. \A v \in Worker : turn[v] \subseteq OwnedBy(v)
    BY DEF ServerIInv, ServerTypeOK, Own, OwnedBy
  <2> QED BY <1>2, <1>5, <1>8, <2>1
<1>10. /\ backlog' \in Seq(Conn) /\ IsInjective(backlog')
       /\ ToSet(backlog') = OwnedBy("backlog")' /\ Len(backlog') = Cardinality(OwnedBy("backlog")')
  BY <1>1, <1>2, <1>3, <1>4, <1>5
<1>11. active' \subseteq Conn /\ stale' \subseteq Conn /\ req' = req /\ sigio' = sigio
  BY <1>1, <1>3, <1>7 DEF Types
<1>12. /\ \A o \in Worker \cup {"backlog"} : IsFiniteSet(OwnedBy(o)')
       /\ owner' \in [Conn -> Worker \cup {"none", "backlog"}]
  BY <1>5
<1> QED
  BY <1>6, <1>7, <1>8, <1>9, <1>10, <1>11, <1>12, NextFacts DEF Types

\* The worker resumes one of its connections, which may end with that.
LEMMA ServeServerIInv ==
    ASSUME ServerIInv, NEW w \in Worker, NEW c \in Conn, Serve(w, c) \/ FindNothing(w, c)
    PROVE  ServerIInv'
<1>1. Types
  BY TypesHold
<1>2. /\ c \in turn[w] /\ turn' = [turn EXCEPT ![w] = @ \ {c}] /\ UNCHANGED <<backlog, sigio, wpc>>
      /\ active' \subseteq Conn /\ stale' \subseteq Conn
      /\ req' \in [Conn -> {"none", "request", "last"}]
      /\ owner' = owner \/ owner' = [owner EXCEPT ![c] = "none"]
  BY <1>1 DEF Serve, FindNothing, kernelVars, Types
<1>3. /\ turn' \in [Worker -> SUBSET Conn] /\ turn'[w] = turn[w] \ {c}
      /\ \A v \in Worker : v # w => turn'[v] = turn[v]
  BY <1>1, <1>2 DEF Types
<1>4. CASE owner' = owner
  BY <1>1, <1>2, <1>3, <1>4, QuietSteps DEF Types
<1>5. CASE owner' = [owner EXCEPT ![c] = "none"]
  <2>1. \A v \in Worker : turn[v] \subseteq OwnedBy(v) /\ Cardinality(OwnedBy(v)) <= MaxFd
    BY DEF ServerIInv, ServerTypeOK, Own, OwnedBy
  <2>2. owner[c] = w /\ w \notin {"none", "backlog"}
    BY <1>2, <2>1, BacklogFacts DEF OwnedBy
  <2>3. /\ owner' \in [Conn -> Worker \cup {"none", "backlog"}]
        /\ \A p : OwnedBy(p)' = IF p = "none" THEN OwnedBy(p) \cup {c}
                                ELSE IF p = w THEN OwnedBy(p) \ {c} ELSE OwnedBy(p)
        /\ \A p \in Worker \cup {"backlog"} :
              /\ IsFiniteSet(OwnedBy(p)')
              /\ Cardinality(OwnedBy(p)') = IF p = "none" THEN Cardinality(OwnedBy(p)) + 1
                                            ELSE IF p = w THEN Cardinality(OwnedBy(p)) - 1
                                            ELSE Cardinality(OwnedBy(p))
              /\ Cardinality(OwnedBy(p)) \in Nat
    BY <1>5, <2>2, OwnerFacts
  <2>4. ASSUME NEW v \in Worker PROVE turn'[v] \subseteq OwnedBy(v)' /\ Cardinality(OwnedBy(v)') <= MaxFd
    <3>1. v # "none" /\ MaxFd \in Nat
      BY BacklogFacts
    <3>2. Cardinality(OwnedBy(v)) \in Nat /\ Cardinality(OwnedBy(v)) <= MaxFd
      BY <2>1, <2>3
    <3>3. Cardinality(OwnedBy(v)') \in {Cardinality(OwnedBy(v)), Cardinality(OwnedBy(v)) - 1}
      BY <2>3, <3>1
    <3>4. Cardinality(OwnedBy(v)') <= MaxFd
      BY <3>1, <3>2, <3>3
    <3>5. turn'[v] \subseteq OwnedBy(v)'
      BY <1>3, <2>1, <2>3, <3>1
    <3> QED BY <3>4, <3>5
  <2>5. OwnedBy("backlog")' = OwnedBy("backlog")
    BY <2>2, <2>3
  <2>6. /\ backlog' \in Seq(Conn) /\ IsInjective(backlog')
        /\ ToSet(backlog') = OwnedBy("backlog")' /\ Len(backlog') = Cardinality(OwnedBy("backlog")')
    BY <1>2, <2>5, BacklogFacts
  <2>7. \A o \in Worker \cup {"backlog"} : IsFiniteSet(OwnedBy(o)')
    BY <2>3
  <2> QED BY <1>1, <1>2, <1>3, <2>3, <2>4, <2>6, <2>7, NextFacts DEF Types
<1> QED
  BY <1>2, <1>4, <1>5

\* A worker that ends loses its connections; others lose none.
LEMMA ExitFacts ==
    ASSUME ServerIInv, NEW w \in Worker, NEW lost \in SUBSET Conn, Exits(w, lost),
           OwnedBy(w) \subseteq lost, lost \subseteq OwnedBy(w) \cup OwnedBy("backlog")
    PROVE  /\ owner' \in [Conn -> Worker \cup {"none", "backlog"}]
           /\ OwnedBy(w)' = {} /\ OwnedBy("backlog")' = OwnedBy("backlog") \ lost
           /\ \A v \in Worker : v # w => OwnedBy(v)' = OwnedBy(v)
           /\ \A v \in Worker : turn'[v] \subseteq OwnedBy(v)' /\ Cardinality(OwnedBy(v)') <= MaxFd
           /\ \A o \in Worker \cup {"backlog"} : IsFiniteSet(OwnedBy(o)')
           /\ req' \in [Conn -> {"none", "request", "last"}]
           /\ active' \subseteq Conn /\ stale' \subseteq Conn /\ sigio' \subseteq Worker
           /\ wpc' \in [Worker -> {"poll", "asleep", "accept", "pass", "gone"}]
           /\ turn' \in [Worker -> SUBSET Conn]
<1>1. Types
  BY TypesHold
<1>2. /\ owner \in [Conn -> Worker \cup {"none", "backlog"}] /\ MaxFd \in Nat
      /\ "backlog" \notin Worker /\ "none" \notin Worker
      /\ \A o \in Worker \cup {"backlog"} : IsFiniteSet(OwnedBy(o))
  BY BacklogFacts
<1>3. /\ owner' = [c \in Conn |-> IF c \in lost THEN "none" ELSE owner[c]]
      /\ req' = [c \in Conn |-> IF c \in lost THEN "none" ELSE req[c]]
      /\ active' = active \ lost /\ stale' = stale \ lost /\ sigio' = sigio \ {w}
      /\ wpc' = [wpc EXCEPT ![w] = "gone"] /\ turn' = [turn EXCEPT ![w] = {}]
  BY DEF Exits, Goto
<1>4. owner' \in [Conn -> Worker \cup {"none", "backlog"}]
  BY <1>2, <1>3
<1>5. \A o \in Worker \cup {"backlog"} : OwnedBy(o)' = OwnedBy(o) \ lost
  BY <1>2, <1>3 DEF OwnedBy
<1>6. OwnedBy(w)' = {}
  BY <1>5
<1>7. ASSUME NEW v \in Worker, v # w PROVE OwnedBy(v)' = OwnedBy(v)
  <2>1. OwnedBy(v) \cap lost = {}
    BY <1>2, <1>7 DEF OwnedBy
  <2> QED BY <1>5, <2>1
<1>8. \A o \in Worker \cup {"backlog"} : IsFiniteSet(OwnedBy(o)')
  <2> TAKE o \in Worker \cup {"backlog"}
  <2>1. IsFiniteSet(OwnedBy(o)) /\ OwnedBy(o)' \subseteq OwnedBy(o)
    BY <1>2, <1>5
  <2> QED BY <2>1, FS_Subset
<1>9. ASSUME NEW v \in Worker
      PROVE  turn'[v] \subseteq OwnedBy(v)' /\ Cardinality(OwnedBy(v)') <= MaxFd
  <2>1. CASE v = w
    <3>1. turn'[v] = {}
      BY <1>1, <1>3, <2>1 DEF Types
    <3>2. OwnedBy(v)' = {}
      BY <1>6, <2>1
    <3>3. Cardinality({}) = 0 /\ 0 <= MaxFd
      BY <1>2, FS_EmptySet
    <3> QED BY <3>1, <3>2, <3>3
  <2>2. CASE v # w
    <3>1. turn'[v] = turn[v]
      BY <1>1, <1>3, <2>2 DEF Types
    <3> QED BY <1>7, <2>2, <3>1 DEF ServerIInv, ServerTypeOK, Own, OwnedBy
  <2> QED BY <2>1, <2>2
<1> QED
  BY <1>1, <1>3, <1>4, <1>5, <1>6, <1>7, <1>8, <1>9 DEF Types

\* The two ways in which a worker ends; in the loop it takes the connection
\* with it that it has just accepted.
LEMMA ExitServerIInv ==
    ASSUME ServerIInv, NEW w \in Worker, CreateFails(w) \/ CoroutineDies(w)
    PROVE  ServerIInv'
<1>1. Own(w) = OwnedBy(w)
  BY DEF Own, OwnedBy
<1>2. /\ backlog \in Seq(Conn) /\ IsInjective(backlog) /\ ToSet(backlog) = OwnedBy("backlog")
      /\ Len(backlog) = Cardinality(OwnedBy("backlog")) /\ "backlog" \notin Worker
      /\ IsFiniteSet(OwnedBy("backlog"))
  BY BacklogFacts
<1>3. OwnedBy(w) \cap OwnedBy("backlog") = {}
  BY <1>2 DEF OwnedBy
<1>4. CASE CreateFails(w)
  <2> DEFINE h == Head(backlog)
             lost == OwnedBy(w) \cup {h}
  <2>1. backlog # <<>> /\ backlog' = Tail(backlog) /\ Exits(w, lost)
    BY <1>1, <1>4 DEF CreateFails
  <2>2. /\ h \in ToSet(backlog) /\ h \in Conn /\ Tail(backlog) \in Seq(Conn)
        /\ Len(Tail(backlog)) = Len(backlog) - 1
        /\ ToSet(Tail(backlog)) = ToSet(backlog) \ {h} /\ IsInjective(Tail(backlog))
    BY <1>2, <2>1, TailFacts
  <2> HIDE DEF h
  <2>3. lost \in SUBSET Conn /\ lost \subseteq OwnedBy(w) \cup OwnedBy("backlog")
    BY <1>2, <2>2 DEF OwnedBy
  <2> HIDE DEF lost
  <2>4. OwnedBy(w) \subseteq lost /\ OwnedBy("backlog") \ lost = OwnedBy("backlog") \ {h}
    BY <1>3 DEF lost
  <2>5. OwnedBy("backlog")' = OwnedBy("backlog") \ {h}
    BY <2>1, <2>3, <2>4, ExitFacts
  <2>6. Cardinality(OwnedBy("backlog") \ {h}) = Cardinality(OwnedBy("backlog")) - 1
    <3>1. IsFiniteSet(OwnedBy("backlog")) /\ h \in OwnedBy("backlog")
      BY <1>2, <2>2
    <3> QED BY <3>1, FS_RemoveElement
  <2>7. /\ backlog' \in Seq(Conn) /\ IsInjective(backlog')
        /\ ToSet(backlog') = OwnedBy("backlog")' /\ Len(backlog') = Cardinality(OwnedBy("backlog")')
    BY <1>2, <2>1, <2>2, <2>5, <2>6
  <2> QED BY <2>1, <2>3, <2>4, <2>7, ExitFacts, NextFacts
<1>5. CASE CoroutineDies(w)
  <2>1. backlog' = backlog /\ Exits(w, OwnedBy(w))
    BY <1>1, <1>5 DEF CoroutineDies
  <2>2. OwnedBy(w) \in SUBSET Conn
    BY DEF OwnedBy
  <2>3. OwnedBy("backlog")' = OwnedBy("backlog")
    BY <1>3, <2>1, <2>2, ExitFacts
  <2>4. /\ backlog' \in Seq(Conn) /\ IsInjective(backlog')
        /\ ToSet(backlog') = OwnedBy("backlog")' /\ Len(backlog') = Cardinality(OwnedBy("backlog")')
    BY <1>2, <2>1, <2>3
  <2> QED BY <2>1, <2>2, <2>4, ExitFacts, NextFacts
<1> QED
  BY <1>4, <1>5

\* A client that has no connection goes to the end of the backlog.
LEMMA ConnectServerIInv == ASSUME ServerIInv, NEW c \in Conn, Connect(c) PROVE ServerIInv'
<1>1. /\ owner[c] = "none" /\ owner' = [owner EXCEPT ![c] = "backlog"] /\ backlog' = Append(backlog, c)
      /\ UNCHANGED <<sigio, req, active, stale, wpc, turn>>
  BY DEF Connect
<1>2. /\ backlog \in Seq(Conn) /\ IsInjective(backlog) /\ ToSet(backlog) = OwnedBy("backlog")
      /\ Len(backlog) = Cardinality(OwnedBy("backlog")) /\ MaxFd \in Nat
      /\ "backlog" \notin Worker /\ "none" \notin Worker
  BY BacklogFacts
<1>3. /\ owner' \in [Conn -> Worker \cup {"none", "backlog"}]
      /\ \A p : OwnedBy(p)' = IF p = "backlog" THEN OwnedBy(p) \cup {c}
                              ELSE IF p = "none" THEN OwnedBy(p) \ {c} ELSE OwnedBy(p)
      /\ \A p \in Worker \cup {"backlog"} :
            /\ IsFiniteSet(OwnedBy(p)')
            /\ Cardinality(OwnedBy(p)') = IF p = "backlog" THEN Cardinality(OwnedBy(p)) + 1
                                          ELSE IF p = "none" THEN Cardinality(OwnedBy(p)) - 1
                                          ELSE Cardinality(OwnedBy(p))
            /\ Cardinality(OwnedBy(p)) \in Nat
  BY <1>1, OwnerFacts
<1>4. c \notin ToSet(backlog)
  BY <1>1, <1>2 DEF OwnedBy
<1>5. /\ backlog' \in Seq(Conn) /\ IsInjective(backlog') /\ Len(backlog') = Len(backlog) + 1
      /\ ToSet(backlog') = ToSet(backlog) \cup {c}
  BY <1>1, <1>2, <1>4, AppendFacts
<1>6. ToSet(backlog') = OwnedBy("backlog")' /\ Len(backlog') = Cardinality(OwnedBy("backlog")')
  BY <1>2, <1>3, <1>5
<1>7. \A v \in Worker : OwnedBy(v)' = OwnedBy(v)
  BY <1>2, <1>3
<1>8. \A v \in Worker : turn'[v] \subseteq OwnedBy(v)' /\ Cardinality(OwnedBy(v)') <= MaxFd
  BY <1>1, <1>7 DEF ServerIInv, ServerTypeOK, Own, OwnedBy
<1>9. \A o \in Worker \cup {"backlog"} : IsFiniteSet(OwnedBy(o)')
  BY <1>3
<1>10. Types
  BY TypesHold
<1> QED
  BY <1>1, <1>3, <1>5, <1>6, <1>8, <1>9, <1>10, NextFacts DEF Types

\* Requests, signals and the clock move no connection.
LEMMA RequestServerIInv ==
    ASSUME ServerIInv, NEW c \in Conn, Send(c) \/ GrowStale(c)
    PROVE  ServerIInv'
<1>1. Types
  BY TypesHold
<1>2. /\ UNCHANGED <<owner, backlog, active, wpc, turn>> /\ stale' \subseteq Conn
      /\ sigio' \subseteq Worker /\ req' \in [Conn -> {"none", "request", "last"}]
  BY <1>1 DEF Send, Signal, GrowStale, kernelVars, Types
<1> QED
  BY <1>1, <1>2, QuietSteps DEF Types

LEMMA NextServerIInv == ServerIInv /\ [Next]_vars => ServerIInv'
<1> SUFFICES ASSUME ServerIInv, [Next]_vars PROVE ServerIInv'
  OBVIOUS
<1>1. ASSUME NEW w \in Worker, Step(w) PROVE ServerIInv'
  BY <1>1, PollServerIInv, AcceptConnServerIInv, ServeServerIInv, ExitServerIInv DEF Step
<1>2. ASSUME NEW c \in Conn, Connect(c) \/ Send(c) \/ GrowStale(c) PROVE ServerIInv'
  BY <1>2, ConnectServerIInv, RequestServerIInv
<1>3. CASE UNCHANGED vars
  <2>1. UNCHANGED <<backlog, sigio, owner, req, active, stale, wpc, turn>>
    BY <1>3 DEF vars, kernelVars, connVars
  <2> QED BY <2>1, TypesHold, QuietSteps DEF Types
<1> QED
  BY <1>1, <1>2, <1>3 DEF Next

\* The invariant of the workers on their common socket.
THEOREM ServerInvariance == Spec => []ServerIInv
  BY InitServerIInv, NextServerIInv, PTL DEF Spec

\* A worker resumes only connections that it has accepted itself and not
\* closed, none has more than it has descriptors for, and the backlog holds
\* those connections that nobody has accepted.
THEOREM ServerTypes == Spec => []ServerTypeOK
<1>1. ServerIInv => ServerTypeOK
  BY DEF ServerIInv
<1> QED
  BY <1>1, ServerInvariance, PTL

-----------------------------------------------------------------------------
(***************************************************************************)
(* Nobody sleeps over a request.                                           *)
(***************************************************************************)

\* The part of the invariant for one worker.
NoticedBy(w) ==
    \A c \in Own(w) : c \notin active /\ req[c] # "none" =>
        wpc[w] \in {"asleep", "accept"} \/ w \in sigio \/ (wpc[w] = "pass" /\ c \in turn[w])

\* A worker notices still what it noticed before, if it loses nothing of it.
LEMMA StillNoticed ==
    ASSUME NEW w \in Worker, NoticedBy(w), Own(w)' \subseteq Own(w),
           UNCHANGED <<wpc[w], turn[w]>>, w \in sigio => w \in sigio',
           \A c \in Own(w)' : c \notin active' /\ req'[c] # "none" =>
                                  c \notin active /\ req[c] # "none"
    PROVE  NoticedBy(w)'
  BY DEF NoticedBy

\* A pass comes to everything.
LEMMA PassNotices ==
    ASSUME ServerIInv, NEW w \in Worker, StartPass(w)
    PROVE  /\ NoticedBy(w)'
           /\ \A v \in Worker : v # w => UNCHANGED <<wpc[v], turn[v]>>
<1>1. Types
  BY TypesHold
<1>2. wpc'[w] = "pass" /\ turn'[w] = Own(w)'
  BY <1>1 DEF StartPass, Goto, Own, Types
<1>3. \A v \in Worker : v # w => UNCHANGED <<wpc[v], turn[v]>>
  BY <1>1 DEF StartPass, Goto, Types
<1> QED
  BY <1>2, <1>3 DEF NoticedBy

\* The steps of a worker: others notice what they did, as it takes nothing
\* from them but the connection at the head of the backlog.
LEMMA StepNoticed ==
    ASSUME ServerIInv, RequestsNoticed, NEW w \in Worker, Step(w), NEW v \in Worker
    PROVE  NoticedBy(v)'
<1>1. Types /\ NoticedBy(v) /\ NoticedBy(w)
  BY TypesHold DEF RequestsNoticed, NoticedBy
<1>2. CASE PollReports(w)
  <2>1. /\ UNCHANGED <<backlog, sigio, owner, req, active, stale, turn>>
        /\ wpc' = [wpc EXCEPT ![w] = "accept"]
    BY <1>2 DEF PollReports, Goto, kernelVars, connVars
  <2> QED BY <1>1, <2>1 DEF NoticedBy, Own, Types
<1>3. CASE AcceptConn(w)
  <2>1. /\ owner' = [owner EXCEPT ![Head(backlog)] = w] /\ active \subseteq active'
        /\ UNCHANGED <<req, sigio>> /\ StartPass(w)
    BY <1>3 DEF AcceptConn
  <2>2. v # w => Own(v)' \subseteq Own(v)
    BY <1>1, <2>1 DEF Own, Types
  <2> QED BY <1>1, <2>1, <2>2, PassNotices, StillNoticed
<1>4. CASE AcceptNone(w) \/ PollNothing(w) \/ PollInterrupted(w)
  <2>1. /\ UNCHANGED <<owner, req, active>> /\ StartPass(w)
        /\ v # w => (v \in sigio => v \in sigio')
    BY <1>4 DEF AcceptNone, PollNothing, PollInterrupted, kernelVars, connVars
  <2>2. Own(v)' = Own(v)
    BY <2>1 DEF Own
  <2> QED BY <1>1, <2>1, <2>2, PassNotices, StillNoticed
<1>5. CASE FallAsleep(w)
  <2>1. /\ UNCHANGED <<backlog, sigio, owner, req, active, stale, turn>>
        /\ wpc' = [wpc EXCEPT ![w] = "asleep"]
    BY <1>5 DEF FallAsleep, Goto, kernelVars, connVars
  <2> QED BY <1>1, <2>1 DEF NoticedBy, Own, Types
<1>6. ASSUME NEW c \in Conn, Serve(w, c) PROVE NoticedBy(v)'
  <2>1. /\ turn' = [turn EXCEPT ![w] = @ \ {c}] /\ req' = [req EXCEPT ![c] = "none"]
        /\ UNCHANGED <<sigio, wpc>>
        /\ owner' \in {owner, [owner EXCEPT ![c] = "none"]}
        /\ active \ {c} \subseteq active'
    BY <1>6 DEF Serve, kernelVars
  <2>2. "none" \notin Worker /\ owner \in [Conn -> Worker \cup {"none", "backlog"}]
    BY BacklogFacts
  <2>3. Own(v)' \subseteq Own(v)
    <3>1. \A d \in Conn : owner'[d] = owner[d] \/ owner'[d] = "none"
      BY <2>1, <2>2
    <3> QED BY <2>2, <3>1 DEF Own
  <2>4. ASSUME NEW d \in Own(v)', d \notin active', req'[d] # "none"
        PROVE  d # c /\ d \in Own(v) /\ d \notin active /\ req[d] # "none"
    <3>1. d \in Conn /\ d \in Own(v)
      BY <2>3 DEF Own
    <3>2. d # c /\ req[d] # "none"
      BY <1>1, <2>1, <2>4, <3>1 DEF Types
    <3> QED BY <2>1, <2>4, <3>1, <3>2
  <2>5. turn[v] \ {c} \subseteq turn'[v] /\ wpc'[v] = wpc[v]
    BY <1>1, <2>1 DEF Types
  <2> QED BY <1>1, <2>1, <2>4, <2>5 DEF NoticedBy
<1>7. ASSUME NEW c \in Conn, FindNothing(w, c) PROVE NoticedBy(v)'
  <2>1. /\ turn' = [turn EXCEPT ![w] = @ \ {c}] /\ req[c] = "none"
        /\ UNCHANGED <<sigio, wpc, owner, req>>
        /\ active \ {c} \subseteq active'
    BY <1>7 DEF FindNothing, kernelVars
  <2>2. Own(v)' = Own(v)
    BY <2>1 DEF Own
  <2>3. turn[v] \ {c} \subseteq turn'[v] /\ wpc'[v] = wpc[v]
    BY <1>1, <2>1 DEF Types
  <2> QED BY <1>1, <2>1, <2>2, <2>3 DEF NoticedBy
<1>8. CASE PassEnds(w)
  <2>1. /\ wpc[w] = "pass" /\ turn[w] = {} /\ wpc' = [wpc EXCEPT ![w] = "poll"]
        /\ UNCHANGED <<backlog, sigio, owner, req, active, stale, turn>>
    BY <1>8 DEF PassEnds, Goto, kernelVars, connVars
  <2> QED BY <1>1, <2>1 DEF NoticedBy, Own, Types
<1>9. CASE CreateFails(w) \/ CoroutineDies(w)
  <2>1. PICK lost \in SUBSET Conn : Exits(w, lost) /\ Own(w) \subseteq lost
    <3>1. Own(w) \subseteq Conn
      BY DEF Own
    <3>2. CASE CreateFails(w)
      <4>1. backlog \in Seq(Conn) /\ backlog # <<>> /\ Exits(w, Own(w) \cup {Head(backlog)})
        BY <3>2, BacklogFacts DEF CreateFails
      <4>2. Head(backlog) \in Conn
        BY <4>1
      <4> QED BY <3>1, <4>1, <4>2
    <3>3. CASE CoroutineDies(w)
      BY <3>1, <3>3 DEF CoroutineDies
    <3> QED BY <1>9, <3>2, <3>3
  <2>2. /\ owner' = [c \in Conn |-> IF c \in lost THEN "none" ELSE owner[c]]
        /\ req' = [c \in Conn |-> IF c \in lost THEN "none" ELSE req[c]]
        /\ active' = active \ lost /\ sigio' = sigio \ {w}
        /\ wpc' = [wpc EXCEPT ![w] = "gone"] /\ turn' = [turn EXCEPT ![w] = {}]
    BY <2>1 DEF Exits, Goto
  <2>3. "none" \notin Worker
    BY ServerAssumption
  <2>4. Own(v)' = Own(v) \ lost
    BY <2>2, <2>3 DEF Own
  <2>5. CASE v = w
    <3>1. Own(v)' = {}
      BY <2>1, <2>4, <2>5
    <3> QED BY <3>1 DEF NoticedBy
  <2>6. CASE v # w
    <3>1. UNCHANGED <<wpc[v], turn[v]>> /\ (v \in sigio => v \in sigio')
      BY <1>1, <2>2, <2>6 DEF Types
    <3>2. \A c \in Own(v)' : c \notin active' /\ req'[c] # "none" => c \notin active /\ req[c] # "none"
      BY <2>2, <2>4 DEF Own
    <3> QED BY <1>1, <2>4, <3>1, <3>2, StillNoticed
  <2> QED BY <2>5, <2>6
<1> QED
  BY <1>2, <1>3, <1>4, <1>5, <1>6, <1>7, <1>8, <1>9 DEF Step

\* What clients and the clock do: SIGIO goes to the owner while it is awake.
LEMMA ClientNoticed ==
    ASSUME ServerIInv, RequestsNoticed, NEW c \in Conn, Connect(c) \/ Send(c) \/ GrowStale(c),
           NEW v \in Worker
    PROVE  NoticedBy(v)'
<1>1. Types /\ NoticedBy(v)
  BY TypesHold DEF RequestsNoticed, NoticedBy
<1>2. CASE Connect(c)
  <2>1. owner' = [owner EXCEPT ![c] = "backlog"] /\ UNCHANGED <<sigio, req, active, wpc, turn>>
    BY <1>2 DEF Connect
  <2>2. "backlog" \notin Worker
    BY ServerAssumption
  <2>3. Own(v)' \subseteq Own(v)
    BY <1>1, <2>1, <2>2 DEF Own, Types
  <2> QED BY <1>1, <2>1, <2>3, StillNoticed
<1>3. CASE Send(c)
  <2>1. /\ \E r : req' = [req EXCEPT ![c] = r]
        /\ sigio' = sigio \cup {w \in Worker : owner[c] = w /\ wpc[w] # "asleep"}
        /\ UNCHANGED <<owner, active, wpc, turn>>
    BY <1>3 DEF Send, Signal
  <2>2. Own(v)' = Own(v)
    BY <2>1 DEF Own
  <2>3. CASE owner[c] = v
    BY <2>1, <2>3 DEF NoticedBy
  <2>4. CASE owner[c] # v
    <3>1. \A d \in Own(v) : req'[d] = req[d]
      BY <1>1, <2>1, <2>4 DEF Own, Types
    <3> QED BY <1>1, <2>1, <2>2, <3>1, StillNoticed
  <2> QED BY <2>3, <2>4
<1>4. CASE GrowStale(c)
  <2>1. UNCHANGED <<sigio, owner, req, active, wpc, turn>>
    BY <1>4 DEF GrowStale, kernelVars
  <2> QED BY <1>1, <2>1, StillNoticed DEF Own
<1> QED
  BY <1>2, <1>3, <1>4

\* Every request is noticed in time.
THEOREM RequestsAreNoticed == Spec => []RequestsNoticed
<1>1. Init => RequestsNoticed
  <2> SUFFICES ASSUME Init, NEW w \in Worker PROVE Own(w) = {}
    BY DEF RequestsNoticed
  <2> QED BY ServerAssumption DEF Init, Own
<1>2. ServerIInv /\ RequestsNoticed /\ [Next]_vars => RequestsNoticed'
  <2> SUFFICES ASSUME ServerIInv, RequestsNoticed, [Next]_vars, NEW v \in Worker PROVE NoticedBy(v)'
    BY DEF RequestsNoticed, NoticedBy
  <2>1. CASE UNCHANGED vars
    <3>1. UNCHANGED <<sigio, owner, req, active, wpc, turn>>
      BY <2>1 DEF vars, kernelVars, connVars
    <3>2. NoticedBy(v)
      BY DEF RequestsNoticed, NoticedBy
    <3> QED BY <3>1, <3>2, StillNoticed DEF Own
  <2> QED BY <2>1, StepNoticed, ClientNoticed DEF Next
<1> QED
  BY <1>1, <1>2, ServerInvariance, PTL DEF Spec

\* No worker falls asleep while a connection of its own has a request.
THEOREM NoRequestSleptOver == Spec => NoneSleepsOverRequest
<1>1. ServerIInv /\ RequestsNoticed /\ [Next]_vars =>
        [\A w \in Worker : wpc[w] # "asleep" /\ wpc'[w] = "asleep" =>
                              \A c \in Own(w) : req[c] = "none"]_vars
  <2> SUFFICES ASSUME ServerIInv, RequestsNoticed, Next, NEW w \in Worker,
                      wpc[w] # "asleep", wpc'[w] = "asleep"
               PROVE  \A c \in Own(w) : req[c] = "none"
    OBVIOUS
  <2>1. Types
    BY TypesHold
  <2>2. PICK v \in Worker : Step(v)
    BY DEF Next, Connect, Send, GrowStale
  <2>3. FallAsleep(v)
    <3>1. ~(PollReports(v) \/ PassEnds(v))
      BY <2>1 DEF PollReports, PassEnds, Goto, Types
    <3>2. ~(AcceptConn(v) \/ AcceptNone(v) \/ PollNothing(v) \/ PollInterrupted(v))
      BY <2>1 DEF AcceptConn, AcceptNone, PollNothing, PollInterrupted, StartPass, Goto, Types
    <3>3. ~\E c \in Conn : Serve(v, c) \/ FindNothing(v, c)
      BY DEF Serve, FindNothing
    <3>4. ~(CreateFails(v) \/ CoroutineDies(v))
      BY <2>1 DEF CreateFails, CoroutineDies, Exits, Goto, Types
    <3> QED BY <2>2, <3>1, <3>2, <3>3, <3>4 DEF Step
  <2>4. wpc[w] = "poll" /\ active \cap Own(w) = {} /\ w \notin sigio
    BY <2>1, <2>3 DEF FallAsleep, Goto, Types
  <2> QED BY <2>4 DEF RequestsNoticed
<1> QED
  BY <1>1, ServerInvariance, RequestsAreNoticed, PTL DEF Spec, NoneSleepsOverRequest
=============================================================================
