------------------------- MODULE InflightGateProofs -------------------------
(***************************************************************************)
(* Proofs about InflightGate, for any number of threads, any limit and any *)
(* number of requests.                                                     *)
(***************************************************************************)
EXTENDS InflightGate, FiniteSetTheorems, TLAPS

\* Tokens are handed out in order, so that a new one is in nobody's hands.
TokensInOrder == started \subseteq 1..admitted_total

GateInv == TypeOK /\ GateExact /\ TokensInOrder

USE DEF Move

LEMMA HoldersAreFinite ==
  /\ IsFiniteSet(Holders) /\ Cardinality(Holders) \in Nat
  /\ \A w \in Workers :
       /\ w \notin Holders => Cardinality(Holders \cup {w}) = Cardinality(Holders) + 1
       /\ w \in Holders => Cardinality(Holders \ {w}) = Cardinality(Holders) - 1
<1>1. IsFiniteSet(Holders)
  BY FS_Subset, GateAssumption DEF Holders
<1> QED
  BY <1>1, FS_CardinalityType, FS_AddElement, FS_RemoveElement

LEMMA GateInit == Init => GateInv
<1> SUFFICES ASSUME Init PROVE GateInv
  OBVIOUS
<1>1. Limit \in Nat \ {0} /\ MaxBadBodies \in Nat
  BY GateAssumption
<1>2. TypeOK
  BY <1>1, FS_EmptySet DEF Init, TypeOK, Places
<1>3. GateExact
  <2>1. Holders = {} /\ Cardinality(Holders) = 0
    BY FS_EmptySet DEF Init, Holders, Holding
  <2> QED
    BY <2>1, FS_EmptySet DEF Init, GateExact, Holding
<1>4. TokensInOrder
  BY DEF Init, TokensInOrder
<1> QED
  BY <1>2, <1>3, <1>4 DEF GateInv

\* A thread that moves without touching the gate and keeps its token.
LEMMA GateMove ==
  ASSUME GateInv, NEW w \in Workers, NEW place \in Places,
         Move(w, place), UNCHANGED <<token, gateVars, bad_bodies>>,
         place \in {"admitted", "body", "leaving"} <=> Holding(w)
  PROVE  GateInv'
<1>1. TypeOK'
  BY DEF GateInv, TypeOK, gateVars
<1>2. \A u \in Workers : Holding(u)' = Holding(u)
  BY DEF GateInv, TypeOK, Holding
<1>3. GateExact'
  <2>1. Holders' = Holders
    BY <1>2 DEF Holders
  <2> QED
    BY <1>2, <2>1 DEF GateInv, GateExact, gateVars
<1>4. TokensInOrder'
  BY <1>2 DEF GateInv, TokensInOrder, gateVars
<1> QED
  BY <1>1, <1>3, <1>4 DEF GateInv

LEMMA GateRefuses ==
  ASSUME GateInv, NEW w \in Workers, TryEnter(w), Full
  PROVE  GateInv'
<1>1. /\ at[w] = "gate" /\ at' = [at EXCEPT ![w] = "refused"]
      /\ rejected_total' = rejected_total + 1
      /\ UNCHANGED <<in_flight, peak, admitted_total, started, token, bad_bodies>>
  BY DEF TryEnter
<1>2. TypeOK'
  BY <1>1 DEF GateInv, TypeOK, Places
<1>3. \A u \in Workers : Holding(u)' = Holding(u)
  BY <1>1 DEF GateInv, TypeOK, Holding
<1>4. GateExact'
  <2>1. Holders' = Holders
    BY <1>3 DEF Holders
  <2> QED
    BY <1>1, <1>3, <2>1 DEF GateInv, GateExact
<1>5. TokensInOrder'
  BY <1>1, <1>3 DEF GateInv, TokensInOrder
<1> QED
  BY <1>2, <1>4, <1>5 DEF GateInv

LEMMA GateAdmits ==
  ASSUME GateInv, NEW w \in Workers, TryEnter(w), ~Full
  PROVE  GateInv'
<1> DEFINE new == admitted_total + 1
<1>0. Limit \in Nat /\ in_flight < Limit
  BY GateAssumption DEF Full, GateInv, TypeOK
<1>1. /\ in_flight' = in_flight + 1 /\ admitted_total' = new
      /\ peak' = IF in_flight + 1 > peak THEN in_flight + 1 ELSE peak
      /\ token' = [token EXCEPT ![w] = new]
      /\ started' = started \cup {new}
      /\ at' = [at EXCEPT ![w] = "admitted"]
      /\ UNCHANGED <<rejected_total, bad_bodies>>
      /\ at[w] = "gate"
  BY DEF TryEnter
<1>2. new \in Nat /\ new \notin started
  BY DEF GateInv, TypeOK, TokensInOrder
<1>3. IsFiniteSet(started') /\ Cardinality(started') = Cardinality(started) + 1
  BY <1>1, <1>2, FS_AddElement DEF GateInv, TypeOK
<1>4. TypeOK'
  <2>1. in_flight' \in 0..Limit /\ peak' \in 0..Limit
    BY <1>0, <1>1 DEF GateInv, TypeOK
  <2>2. at' \in [Workers -> Places] /\ token' \in [Workers -> Nat]
    BY <1>1, <1>2 DEF GateInv, TypeOK, Places
  <2> QED
    BY <1>1, <1>2, <1>3, <2>1, <2>2 DEF GateInv, TypeOK
<1>5. \A u \in Workers : u # w =>
        /\ Holding(u)' = Holding(u)
        /\ token'[u] = token[u]
        /\ Holding(u) => token[u] \in started
  BY <1>1 DEF GateInv, TypeOK, GateExact, Holding
<1>6. Holding(w)' /\ token'[w] = new /\ ~Holding(w)
  BY <1>1 DEF GateInv, TypeOK, Holding
<1>7. GateExact'
  <2>1. in_flight' = Cardinality(started') /\ in_flight' <= peak'
    BY <1>0, <1>1, <1>3 DEF GateInv, GateExact, TypeOK
  <2>4. Holders' = Holders \cup {w} /\ w \notin Holders
    BY <1>5, <1>6 DEF Holders
  <2>5. in_flight' = Cardinality(Holders') + bad_bodies'
    BY <1>1, <2>4, HoldersAreFinite DEF GateInv, GateExact, TypeOK
  <2>2. \A u \in Workers : Holding(u)' => token'[u] \in started'
    BY <1>1, <1>5, <1>6
  <2>3. ASSUME NEW u \in Workers, NEW v \in Workers,
               Holding(u)', Holding(v)', token'[u] = token'[v]
        PROVE  u = v
    BY <1>2, <1>5, <1>6, <2>3 DEF GateInv, GateExact
  <2> QED
    BY <2>1, <2>2, <2>3, <2>5 DEF GateExact
<1>8. TokensInOrder'
  BY <1>1, <1>2 DEF GateInv, TypeOK, TokensInOrder
<1> QED
  BY <1>4, <1>7, <1>8 DEF GateInv

LEMMA GateLeaves ==
  ASSUME GateInv, NEW w \in Workers, Leave(w)
  PROVE  GateInv'
<1>1. Holding(w) /\ token[w] \in started
  BY DEF Leave, Holding, GateInv, GateExact
<1>2. /\ started' = started \ {token[w]}
      /\ in_flight' = in_flight - 1
      /\ token' = [token EXCEPT ![w] = 0]
      /\ at' = [at EXCEPT ![w] = "idle"]
      /\ UNCHANGED <<peak, admitted_total, rejected_total, bad_bodies>>
  BY <1>1 DEF Leave, ReleaseToken
<1>3. IsFiniteSet(started') /\ Cardinality(started') = Cardinality(started) - 1
  <2>1. IsFiniteSet(started)
    BY DEF GateInv, TypeOK
  <2>2. /\ IsFiniteSet(started \ {token[w]})
        /\ Cardinality(started \ {token[w]}) = Cardinality(started) - 1
    BY <1>1, <2>1, FS_RemoveElement
  <2> QED
    BY <1>2, <2>2
<1>4. Cardinality(started') \in Nat
  BY <1>3, FS_CardinalityType
<1>5. in_flight' = Cardinality(started')
  BY <1>2, <1>3 DEF GateInv, GateExact
<1>6. in_flight' \in 0..Limit /\ in_flight' <= peak'
  BY <1>2, <1>4, <1>5, GateAssumption DEF GateInv, GateExact, TypeOK
<1>7. TypeOK'
  BY <1>2, <1>3, <1>6 DEF GateInv, TypeOK, Places
<1>8. ~Holding(w)'
  BY <1>2 DEF GateInv, TypeOK, Holding
<1>9. \A u \in Workers : u # w =>
        Holding(u)' = Holding(u) /\ token'[u] = token[u]
  BY <1>2 DEF GateInv, TypeOK, Holding
<1>10. GateExact'
  <2>3. Holders' = Holders \ {w} /\ w \in Holders
    BY <1>1, <1>8, <1>9 DEF Holders
  <2>4. in_flight' = Cardinality(Holders') + bad_bodies'
    BY <1>2, <2>3, HoldersAreFinite DEF GateInv, GateExact, TypeOK
  <2>1. ASSUME NEW u \in Workers, Holding(u)'
        PROVE  token'[u] \in started'
    BY <1>1, <1>2, <1>8, <1>9, <2>1 DEF GateInv, GateExact
  <2>2. ASSUME NEW u \in Workers, NEW v \in Workers,
               Holding(u)', Holding(v)', token'[u] = token'[v]
        PROVE  u = v
    BY <1>8, <1>9, <2>2 DEF GateInv, GateExact
  <2> QED
    BY <1>5, <1>6, <2>1, <2>2, <2>4 DEF GateExact
<1>11. TokensInOrder'
  BY <1>2 DEF GateInv, TokensInOrder
<1> QED
  BY <1>7, <1>10, <1>11 DEF GateInv

\* The slot stays taken; its token is in nobody's hands from here on.
LEMMA GateLosesToken ==
  ASSUME GateInv, NEW w \in Workers, FormFails(w)
  PROVE  GateInv'
<1>1. /\ token' = [token EXCEPT ![w] = 0]
      /\ at' = [at EXCEPT ![w] = "idle"]
      /\ bad_bodies' = bad_bodies + 1 /\ bad_bodies < MaxBadBodies
      /\ UNCHANGED gateVars
  BY DEF FormFails
<1>2. TypeOK'
  BY <1>1, GateAssumption DEF GateInv, TypeOK, Places, gateVars
<1>3. \A u \in Workers : Holding(u)' =>
        Holding(u) /\ token'[u] = token[u]
  BY <1>1 DEF GateInv, TypeOK, Holding
<1>4. GateExact'
  <2>1. Holders' = Holders \ {w} /\ w \in Holders
    BY <1>1 DEF FormFails, Holders, Holding, GateInv, TypeOK
  <2>2. in_flight' = Cardinality(Holders') + bad_bodies'
    BY <1>1, <2>1, HoldersAreFinite DEF GateInv, GateExact, TypeOK, gateVars
  <2> QED
    BY <1>1, <1>3, <2>2 DEF GateInv, GateExact, gateVars
<1>5. TokensInOrder'
  BY <1>1 DEF GateInv, TokensInOrder, gateVars
<1> QED
  BY <1>2, <1>4, <1>5 DEF GateInv

LEMMA GateNext == GateInv /\ [Next]_vars => GateInv'
<1> SUFFICES ASSUME GateInv, [Next]_vars PROVE GateInv'
  OBVIOUS
<1>1. ASSUME NEW w \in Workers, Arrive(w) PROVE GateInv'
  <2>1. Move(w, "gate") /\ ~Holding(w) /\ UNCHANGED <<token, gateVars, bad_bodies>>
    BY <1>1 DEF Arrive, Holding
  <2> QED
    BY <2>1, GateMove DEF Places
<1>2. ASSUME NEW w \in Workers, TryEnter(w) PROVE GateInv'
  BY <1>2, GateRefuses, GateAdmits
<1>3. ASSUME NEW w \in Workers, Refuse(w) PROVE GateInv'
  <2>1. Move(w, "idle") /\ ~Holding(w) /\ UNCHANGED <<token, gateVars, bad_bodies>>
    BY <1>3 DEF Refuse, Holding
  <2> QED
    BY <2>1, GateMove DEF Places
<1>4. ASSUME NEW w \in Workers, ReadForm(w) PROVE GateInv'
  <2>1. Move(w, "body") /\ Holding(w) /\ UNCHANGED <<token, gateVars, bad_bodies>>
    BY <1>4 DEF ReadForm, Holding
  <2> QED
    BY <2>1, GateMove DEF Places
<1>5. ASSUME NEW w \in Workers, RunBody(w) PROVE GateInv'
  <2>1. Move(w, "leaving") /\ Holding(w) /\ UNCHANGED <<token, gateVars, bad_bodies>>
    BY <1>5 DEF RunBody, Holding
  <2> QED
    BY <2>1, GateMove DEF Places
<1>6. ASSUME UNCHANGED vars PROVE GateInv'
  BY <1>6 DEF vars, gateVars, GateInv, TypeOK, GateExact, TokensInOrder,
       Holding, Holders
<1> QED
  BY <1>1, <1>2, <1>3, <1>4, <1>5, <1>6, GateLeaves, GateLosesToken DEF Next, Serve

\* In every reachable state of the gate the strengthened invariant holds.
LEMMA GateInvariant == Spec => []GateInv
<1> QED
  BY GateInit, GateNext, PTL DEF Spec

\* The types hold, and at no time are, or were, more requests than the limit
\* in flight: try_enter compares and counts under one lock.
THEOREM GateTypeCorrect == Spec => []TypeOK
<1>1. GateInv => TypeOK
  BY DEF GateInv
<1> QED
  BY <1>1, GateInvariant, PTL

\* What the health endpoint reports as in flight is what is being processed and
\* one for every form that could not be read, and every request being processed
\* holds a token of its own.
THEOREM GateIsExact == Spec => []GateExact
<1>1. GateInv => GateExact
  BY DEF GateInv
<1> QED
  BY <1>1, GateInvariant, PTL

\* A request is turned away only while as many requests as the limit are being
\* processed or were lost to a form that could not be read.
THEOREM GateRefusesOnlyWhenFull == Spec => RefusedOnlyWhenFull
<1> DEFINE Justified == rejected_total' # rejected_total =>
                          Cardinality(Holders) + bad_bodies >= Limit
<1>1. GateInv /\ [Next]_vars => [Justified]_vars
  <2> SUFFICES ASSUME GateInv, [Next]_vars, rejected_total' # rejected_total
               PROVE  Cardinality(Holders) + bad_bodies >= Limit
    OBVIOUS
  <2>1. PICK w \in Workers : TryEnter(w)
    BY DEF Next, Serve, vars, gateVars, Arrive, Refuse, ReadForm, FormFails,
           RunBody, Leave
  <2>2. in_flight >= Limit
    BY <2>1 DEF TryEnter, Full
  <2> QED
    BY <2>2 DEF GateInv, GateExact
<1>2. Spec => [][Justified]_vars
  BY <1>1, GateInvariant, PTL DEF Spec
<1> QED
  BY <1>2 DEF RefusedOnlyWhenFull
=============================================================================
