-------------------------- MODULE LlmGatewayProofs --------------------------
(***************************************************************************)
(* The budget and the fallback of LlmGateway for any number of callers and   *)
(* providers, any limit and any dearest completion.  The overrun is bounded    *)
(* because a call in flight was let through while the budget held: what is     *)
(* spent, with what the calls in flight may still cost, never passes the limit  *)
(* by more than one completion per caller.                                    *)
(***************************************************************************)
EXTENDS LlmGateway, FiniteSetTheorems, TLAPS

Committed == spent + MaxCost * Cardinality(InFlight)

\* The providers before the one being called have failed, and only these.
InOrder == \A c \in Callers : calling[c] > 0 => failed[c] = 1..(calling[c] - 1)

\* A call in flight has no answer yet.
Quiet == \A c \in Callers : calling[c] > 0 => answer[c] = None

IInv ==
  /\ TypeOK
  /\ Committed <= Limit + MaxCost * Cardinality(Callers)
  /\ InOrder
  /\ Quiet
  /\ FallbackIsHonest

-----------------------------------------------------------------------------
LEMMA TimesMonotone ==
  ASSUME NEW m \in Nat, NEW a \in Nat, NEW b \in Nat, a <= b
  PROVE  m * a <= m * b
BY SMT

LEMMA TimesLess ==
  ASSUME NEW m \in Nat, NEW a \in Nat
  PROVE  m * (a + 1) = m * a + m
BY SMT

LEMMA NoProviders == NumProviders = 0 => Providers = {}
<1>1. \A n \in Int : n <= 0 => 1..n = {}
  OBVIOUS
<1> QED
  BY <1>1 DEF Providers

\* There are never more calls in flight than callers.
LEMMA CallersFinite ==
  ASSUME NEW S \in SUBSET Callers
  PROVE  /\ IsFiniteSet(S)
         /\ Cardinality(S) \in Nat /\ Cardinality(Callers) \in Nat
         /\ MaxCost * Cardinality(S) \in Nat /\ MaxCost * Cardinality(Callers) \in Nat
         /\ MaxCost * Cardinality(S) <= MaxCost * Cardinality(Callers)
<1>1. IsFiniteSet(S) /\ Cardinality(S) <= Cardinality(Callers)
  BY GatewayAssumption, FS_Subset
<1>2. Cardinality(S) \in Nat /\ Cardinality(Callers) \in Nat
  BY <1>1, GatewayAssumption, FS_CardinalityType
<1>3. \A n \in Nat : MaxCost * n \in Nat
  BY GatewayAssumption
<1> QED
  BY <1>1, <1>2, <1>3, TimesMonotone, GatewayAssumption

\* A call ends in a well-typed answer, and no other call is disturbed.
Ended(c, outcome, provider, fallback_from) ==
  /\ calling' \in [Callers -> 0..NumProviders]
  /\ answer' \in [Callers -> Answer \cup {None}]
  /\ calling'[c] = 0 /\ ~ (calling'[c] > 0)
  /\ \A b \in Callers \ {c} : calling'[b] = calling[b] /\ answer'[b] = answer[b]
  /\ answer'[c].outcome = outcome
  /\ answer'[c].provider = provider
  /\ answer'[c].fallback_from = fallback_from

LEMMA EndsType ==
  ASSUME TypeOK, NEW c \in Callers, NEW outcome \in Outcomes,
         NEW provider \in Providers \cup {None}, NEW fallback_from \in Providers \cup {None},
         Ends(c, outcome, provider, fallback_from)
  PROVE  Ended(c, outcome, provider, fallback_from)
<1>1. [outcome |-> outcome, provider |-> provider, fallback_from |-> fallback_from] \in Answer
  BY DEF Answer
<1>2. answer' \in [Callers -> Answer \cup {None}]
  BY <1>1 DEF Ends, TypeOK
<1>3. 0 \in 0..NumProviders
  BY GatewayAssumption
<1>4. calling' \in [Callers -> 0..NumProviders]
  BY <1>3 DEF Ends, TypeOK
<1>5. answer'[c] = [outcome |-> outcome, provider |-> provider, fallback_from |-> fallback_from]
  BY DEF Ends, TypeOK
<1>6. calling'[c] = 0 /\ \A b \in Callers \ {c} : calling'[b] = calling[b] /\ answer'[b] = answer[b]
  BY DEF Ends, TypeOK
<1>7. ~ (calling'[c] > 0)
  <2>1. calling'[c] = 0
    BY <1>6
  <2> QED
    BY <2>1, SMT
<1> QED
  BY <1>2, <1>4, <1>5, <1>6, <1>7 DEF Ended

LEMMA InitEstablishes == Init => IInv
<1> SUFFICES ASSUME Init PROVE IInv
  OBVIOUS
<1>1. TypeOK
  BY GatewayAssumption DEF Init, TypeOK
<1>2. Committed <= Limit + MaxCost * Cardinality(Callers)
  <2>1. InFlight = {}
    BY DEF Init, InFlight
  <2>2. Cardinality(InFlight) = 0
    BY <2>1, FS_EmptySet
  <2>3. MaxCost * Cardinality(Callers) \in Nat /\ MaxCost * 0 = 0
    BY CallersFinite, GatewayAssumption
  <2> QED
    BY <2>2, <2>3, GatewayAssumption DEF Init, Committed
<1>3. InOrder /\ Quiet /\ FallbackIsHonest
  BY DEF Init, InOrder, Quiet, FallbackIsHonest
<1> QED
  BY <1>1, <1>2, <1>3 DEF IInv

\* The budget holds when a call is let through, whoever else is in flight.
LEMMA BeginPreserves ==
  ASSUME IInv, NEW c \in Callers, Begin(c)
  PROVE  IInv'
<1>1. TypeOK /\ InOrder /\ Quiet /\ FallbackIsHonest /\ Committed <= Limit + MaxCost * Cardinality(Callers)
  BY DEF IInv
<1>2. failed' = [failed EXCEPT ![c] = {}] /\ UNCHANGED <<spent, errors>>
  BY DEF Begin
<1>3. CASE \E outcome \in {"over budget", "all failed"} :
             Ends(c, outcome, None, None) /\ (outcome = "all failed" => NumProviders = 0)
  <2>1. PICK outcome \in {"over budget", "all failed"} :
          Ends(c, outcome, None, None) /\ (outcome = "all failed" => NumProviders = 0)
    BY <1>3
  <2>2. Ended(c, outcome, None, None)
    <3>1. outcome \in Outcomes /\ None \in Providers \cup {None}
      BY DEF Outcomes
    <3> QED
      BY <1>1, <2>1, <3>1, EndsType
  <2>3. TypeOK'
    BY <1>1, <1>2, <2>2 DEF TypeOK, Ended
  <2>4. calling[c] = 0
    BY DEF Begin
  <2>5. InFlight' = InFlight
    BY <1>1, <2>2, <2>4, GatewayAssumption DEF TypeOK, InFlight, Ended
  <2>6. InOrder'
    <3>1. \A b \in Callers \ {c} : failed'[b] = failed[b] /\ calling'[b] = calling[b]
      BY <1>1, <1>2, <2>2 DEF TypeOK, Ended
    <3>2. ~ (calling'[c] > 0)
      BY <2>2 DEF Ended
    <3>3. ASSUME NEW b \in Callers, calling'[b] > 0 PROVE failed'[b] = 1..(calling'[b] - 1)
      <4>1. b # c
        BY <3>2, <3>3
      <4>2. calling[b] > 0 => failed[b] = 1..(calling[b] - 1)
        BY <1>1 DEF InOrder
      <4> QED
        BY <3>1, <3>3, <4>1, <4>2
    <3> QED
      BY <3>3 DEF InOrder
  <2>7. FallbackIsHonest'
    <3>1. failed'[c] = {} /\ \A b \in Callers \ {c} : failed'[b] = failed[b]
      BY <1>1, <1>2 DEF TypeOK
    <3>2. outcome = "all failed" => Providers = {}
      BY <2>1, NoProviders
    <3>3. /\ answer'[c].provider = None /\ answer'[c].outcome = outcome
          /\ \A b \in Callers \ {c} : answer'[b] = answer[b]
      BY <2>2 DEF Ended
    <3> QED
      BY <1>1, <3>1, <3>2, <3>3 DEF FallbackIsHonest
  <2>8. Quiet'
    <3>1. ~ (calling'[c] > 0) /\ \A b \in Callers \ {c} : calling'[b] = calling[b] /\ answer'[b] = answer[b]
      BY <2>2 DEF Ended
    <3> QED
      BY <1>1, <3>1 DEF Quiet
  <2> QED
    BY <1>1, <1>2, <2>3, <2>5, <2>6, <2>7, <2>8 DEF IInv, Committed
<1>4. CASE /\ Affordable(0) /\ NumProviders > 0
           /\ calling' = [calling EXCEPT ![c] = 1] /\ answer' = [answer EXCEPT ![c] = None]
  <2>1. TypeOK'
    BY <1>1, <1>2, <1>4, GatewayAssumption DEF TypeOK
  <2>2. Committed' <= Limit + MaxCost * Cardinality(Callers)
    <3>1. spent' <= Limit /\ spent' \in Nat
      BY <1>1, <1>2, <1>4 DEF Affordable, TypeOK
    <3>2. InFlight' \in SUBSET Callers
      BY DEF InFlight
    <3>3. /\ MaxCost * Cardinality(InFlight') <= MaxCost * Cardinality(Callers)
          /\ MaxCost * Cardinality(InFlight') \in Nat /\ MaxCost * Cardinality(Callers) \in Nat
      BY <3>2, CallersFinite
    <3> QED
      BY <3>1, <3>3, GatewayAssumption DEF Committed
  <2>3. InOrder'
    BY <1>1, <1>2, <1>4 DEF TypeOK, InOrder
  <2>4. FallbackIsHonest'
    BY <1>1, <1>2, <1>4 DEF TypeOK, FallbackIsHonest
  <2>5. Quiet'
    BY <1>1, <1>4 DEF TypeOK, Quiet
  <2> QED
    BY <2>1, <2>2, <2>3, <2>4, <2>5 DEF IInv
<1> QED
  BY <1>3, <1>4 DEF Begin

\* A call that leaves complete() frees what it might have cost.
LEMMA CallEnds ==
  ASSUME TypeOK, NEW c \in Callers, calling[c] > 0, calling'[c] = 0,
         \A b \in Callers \ {c} : calling'[b] = calling[b]
  PROVE  /\ MaxCost * Cardinality(InFlight') \in Nat
         /\ MaxCost * Cardinality(InFlight) = MaxCost * Cardinality(InFlight') + MaxCost
<1>1. InFlight' = InFlight \ {c} /\ c \in InFlight
  BY DEF TypeOK, InFlight
<1>2. InFlight \in SUBSET Callers /\ InFlight' \in SUBSET Callers
  BY <1>1 DEF InFlight
<1>3. IsFiniteSet(InFlight) /\ Cardinality(InFlight) \in Nat /\ Cardinality(InFlight') \in Nat
      /\ MaxCost * Cardinality(InFlight') \in Nat
  BY <1>2, CallersFinite
<1>4. Cardinality(InFlight') = Cardinality(InFlight) - 1
  BY <1>1, <1>3, FS_RemoveElement
<1>5. Cardinality(InFlight) = Cardinality(InFlight') + 1
  BY <1>3, <1>4
<1> QED
  BY <1>3, <1>5, TimesLess, GatewayAssumption

LEMMA AnswersPreserves ==
  ASSUME IInv, NEW c \in Callers, Answers(c)
  PROVE  IInv'
<1>0. TypeOK /\ InOrder /\ Quiet /\ FallbackIsHonest /\ Committed <= Limit + MaxCost * Cardinality(Callers)
  BY DEF IInv
<1>1. PICK cost \in 0..MaxCost : spent' = spent + cost
  BY DEF Answers
<1>2. PICK outcome \in {"completion", "lost"} :
        Ends(c, outcome, calling[c], IF calling[c] > 1 THEN 1 ELSE None)
  BY DEF Answers
<1>3. calling[c] \in Providers /\ calling[c] > 0
  BY <1>0 DEF Answers, TypeOK, Providers
<1> DEFINE fallback == IF calling[c] > 1 THEN 1 ELSE None
<1>4. fallback \in Providers \cup {None}
  <2>1. 1 \in Providers
    BY <1>3, GatewayAssumption DEF Providers
  <2> QED
    BY <2>1
<1>5. Ended(c, outcome, calling[c], fallback)
  <2>1. outcome \in Outcomes /\ calling[c] \in Providers \cup {None}
    BY <1>3 DEF Outcomes
  <2> QED
    BY <1>0, <1>2, <1>4, <2>1, EndsType
<1>6. UNCHANGED <<errors, failed>>
  BY DEF Answers
<1>7. TypeOK'
  BY <1>0, <1>1, <1>5, <1>6, GatewayAssumption DEF TypeOK, Ended
<1>8. Committed' <= Limit + MaxCost * Cardinality(Callers)
  <2>1. /\ MaxCost * Cardinality(InFlight') \in Nat
        /\ MaxCost * Cardinality(InFlight) = MaxCost * Cardinality(InFlight') + MaxCost
    BY <1>0, <1>3, <1>5, CallEnds DEF Ended
  <2>2. MaxCost * Cardinality(Callers) \in Nat
    BY CallersFinite
  <2> QED
    BY <1>0, <1>1, <2>1, <2>2, GatewayAssumption DEF Committed, TypeOK
<1>9. InOrder'
  BY <1>0, <1>5, <1>6, GatewayAssumption DEF InOrder, TypeOK, Ended
<1>10. FallbackIsHonest'
  <2>1. failed[c] = 1..(calling[c] - 1)
    BY <1>0, <1>3 DEF InOrder
  <2>2. failed[c] = {} <=> calling[c] = 1
    BY <1>3, <2>1 DEF Providers
  <2>3. calling[c] > 1 <=> calling[c] # 1
    BY <1>3 DEF Providers
  <2>4. fallback = IF failed[c] = {} THEN None ELSE 1
    BY <2>2, <2>3
  <2> HIDE DEF fallback
  <2> QED
    <3>1. answer'[c].provider = calling[c] /\ answer'[c].fallback_from = fallback
          /\ answer'[c].outcome # "all failed"
          /\ \A b \in Callers \ {c} : answer'[b] = answer[b]
      BY <1>5 DEF Ended
    <3>2. failed' = failed
      BY <1>6
    <3> QED
      BY <1>0, <2>1, <2>4, <3>1, <3>2 DEF FallbackIsHonest
<1>11. Quiet'
  <2>1. ~ (calling'[c] > 0) /\ \A b \in Callers \ {c} : calling'[b] = calling[b] /\ answer'[b] = answer[b]
    BY <1>5 DEF Ended
  <2> QED
    BY <1>0, <2>1 DEF Quiet
<1> QED
  BY <1>7, <1>8, <1>9, <1>10, <1>11 DEF IInv

\* A call that moves on to the next provider costs nothing more; a call that
\* gives up has tried them all.
LEMMA FallsBackPreserves ==
  ASSUME IInv, NEW c \in Callers, FallsBack(c)
  PROVE  IInv'
<1>0. TypeOK /\ InOrder /\ Quiet /\ FallbackIsHonest /\ Committed <= Limit + MaxCost * Cardinality(Callers)
  BY DEF IInv
<1>1. calling[c] \in Providers /\ calling[c] > 0 /\ calling[c] \in Nat
  <2>1. calling[c] \in 0..NumProviders
    BY <1>0 DEF TypeOK
  <2>2. calling[c] > 0
    BY DEF FallsBack
  <2>3. NumProviders \in Nat
    BY GatewayAssumption
  <2> QED
    BY <2>1, <2>2, <2>3 DEF Providers
<1>2. errors' = errors \cup {calling[c]} /\ failed' = [failed EXCEPT ![c] = @ \cup {calling[c]}]
      /\ UNCHANGED spent
  BY DEF FallsBack
<1>3. failed[c] = 1..(calling[c] - 1)
  BY <1>0, <1>1 DEF InOrder
<1>4. failed'[c] = 1..calling[c] /\ \A b \in Callers \ {c} : failed'[b] = failed[b]
  <2>1. 1..(calling[c] - 1) \cup {calling[c]} = 1..calling[c]
    BY <1>1
  <2>2. failed'[c] = failed[c] \cup {calling[c]} /\ \A b \in Callers \ {c} : failed'[b] = failed[b]
    BY <1>0, <1>2 DEF TypeOK
  <2> QED
    BY <1>3, <2>1, <2>2
<1>5. errors' \subseteq Providers /\ failed' \in [Callers -> SUBSET Providers] /\ spent' \in Nat
  BY <1>0, <1>1, <1>2 DEF TypeOK
<1>6. CASE /\ calling[c] < NumProviders
           /\ calling' = [calling EXCEPT ![c] = @ + 1] /\ UNCHANGED answer
  <2>1. calling'[c] = calling[c] + 1 /\ \A b \in Callers \ {c} : calling'[b] = calling[b]
    BY <1>0, <1>6 DEF TypeOK
  <2>2. TypeOK'
    <3>1. calling' \in [Callers -> 0..NumProviders]
      BY <1>0, <1>1, <1>6, GatewayAssumption DEF TypeOK
    <3> QED
      BY <1>0, <1>5, <1>6, <3>1 DEF TypeOK
  <2>3. InFlight' = InFlight
    BY <1>0, <1>1, <2>1, GatewayAssumption DEF InFlight
  <2>4. InOrder'
    <3>1. ASSUME NEW b \in Callers, b # c, calling'[b] > 0 PROVE failed'[b] = 1..(calling'[b] - 1)
      BY <1>0, <1>4, <2>1, <3>1 DEF InOrder
    <3>2. failed'[c] = 1..(calling'[c] - 1)
      <4>1. calling'[c] - 1 = calling[c]
        BY <1>1, <2>1
      <4> QED
        BY <1>4, <4>1
    <3> QED
      BY <3>1, <3>2 DEF InOrder
  <2>5. FallbackIsHonest'
    <3>1. answer[c] = None
      BY <1>0, <1>1 DEF Quiet
    <3> QED
      BY <1>0, <1>4, <1>6, <3>1 DEF FallbackIsHonest
  <2>6. Quiet'
    BY <1>0, <1>1, <1>6, <2>1 DEF Quiet
  <2> QED
    BY <1>0, <1>2, <2>2, <2>3, <2>4, <2>5, <2>6 DEF IInv, Committed
<1>7. CASE ~ (calling[c] < NumProviders) /\ Ends(c, "all failed", None, None)
  <2>1. Ended(c, "all failed", None, None)
    BY <1>0, <1>7, EndsType DEF Outcomes
  <2>2. TypeOK'
    BY <1>5, <2>1 DEF TypeOK, Ended
  <2>3. Committed' <= Limit + MaxCost * Cardinality(Callers)
    <3>1. /\ MaxCost * Cardinality(InFlight') \in Nat
          /\ MaxCost * Cardinality(InFlight) = MaxCost * Cardinality(InFlight') + MaxCost
      BY <1>0, <1>1, <2>1, CallEnds DEF Ended
    <3>2. MaxCost * Cardinality(Callers) \in Nat
      BY CallersFinite
    <3> QED
      BY <1>0, <1>2, <3>1, <3>2, GatewayAssumption DEF Committed, TypeOK
  <2>4. ~ (calling'[c] > 0) /\ \A b \in Callers \ {c} : calling'[b] = calling[b] /\ answer'[b] = answer[b]
    BY <2>1 DEF Ended
  <2>5. InOrder' /\ Quiet'
    <3>1. ASSUME NEW b \in Callers, calling'[b] > 0
          PROVE  answer'[b] = None /\ failed'[b] = 1..(calling'[b] - 1)
      <4>1. b # c
        BY <2>4, <3>1
      <4>2. calling[b] > 0 => answer[b] = None /\ failed[b] = 1..(calling[b] - 1)
        BY <1>0 DEF InOrder, Quiet
      <4> QED
        BY <1>4, <2>4, <3>1, <4>1, <4>2
    <3> QED
      BY <3>1 DEF InOrder, Quiet
  <2>6. FallbackIsHonest'
    <3>1. failed'[c] = Providers
      <4>1. calling[c] = NumProviders
        <5>1. NumProviders \in Nat /\ calling[c] \in 1..NumProviders
          BY <1>1, GatewayAssumption DEF Providers
        <5>2. ~ (calling[c] < NumProviders)
          BY <1>7
        <5> QED
          BY <5>1, <5>2
      <4> QED
        BY <1>4, <4>1 DEF Providers
    <3>2. answer'[c].provider = None
      BY <2>1 DEF Ended
    <3> QED
      BY <1>0, <1>4, <2>4, <3>1, <3>2 DEF FallbackIsHonest
  <2> QED
    BY <2>2, <2>3, <2>5, <2>6 DEF IInv
<1> QED
  BY <1>6, <1>7 DEF FallsBack

LEMMA RaisesPreserves ==
  ASSUME IInv, NEW c \in Callers, Raises(c)
  PROVE  IInv'
<1>0. TypeOK /\ InOrder /\ Quiet /\ FallbackIsHonest /\ Committed <= Limit + MaxCost * Cardinality(Callers)
  BY DEF IInv
<1>1. calling[c] > 0 /\ UNCHANGED <<spent, errors, failed>>
  BY DEF Raises
<1>2. Ended(c, "raised", None, None)
  BY <1>0, EndsType DEF Raises, Outcomes
<1>3. TypeOK'
  BY <1>0, <1>1, <1>2 DEF TypeOK, Ended
<1>4. Committed' <= Limit + MaxCost * Cardinality(Callers)
  <2>1. /\ MaxCost * Cardinality(InFlight') \in Nat
        /\ MaxCost * Cardinality(InFlight) = MaxCost * Cardinality(InFlight') + MaxCost
    BY <1>0, <1>1, <1>2, CallEnds DEF Ended
  <2>2. MaxCost * Cardinality(Callers) \in Nat
    BY CallersFinite
  <2> QED
    BY <1>0, <1>1, <2>1, <2>2, GatewayAssumption DEF Committed, TypeOK
<1>5. ~ (calling'[c] > 0) /\ \A b \in Callers \ {c} : calling'[b] = calling[b] /\ answer'[b] = answer[b]
  BY <1>2 DEF Ended
<1>6. InOrder' /\ Quiet'
  <2>1. ASSUME NEW b \in Callers, calling'[b] > 0
        PROVE  answer'[b] = None /\ failed'[b] = 1..(calling'[b] - 1)
    <3>1. b # c
      BY <1>5, <2>1
    <3>2. calling[b] > 0 => answer[b] = None /\ failed[b] = 1..(calling[b] - 1)
      BY <1>0 DEF InOrder, Quiet
    <3> QED
      BY <1>1, <1>5, <2>1, <3>1, <3>2
  <2> QED
    BY <2>1 DEF InOrder, Quiet
<1>7. FallbackIsHonest'
  <2>1. answer'[c].provider = None /\ answer'[c].outcome # "all failed"
    BY <1>2 DEF Ended
  <2> QED
    BY <1>0, <1>1, <1>5, <2>1 DEF FallbackIsHonest
<1> QED
  BY <1>3, <1>4, <1>6, <1>7 DEF IInv

LEMMA NextPreserves == IInv /\ [Next]_vars => IInv'
<1> SUFFICES ASSUME IInv, [Next]_vars PROVE IInv'
  OBVIOUS
<1>1. CASE UNCHANGED vars
  BY <1>1 DEF IInv, TypeOK, Committed, InFlight, InOrder, Quiet, FallbackIsHonest, vars
<1>2. ASSUME NEW c \in Callers, Begin(c) \/ Answers(c) \/ FallsBack(c) \/ Raises(c)
      PROVE  IInv'
  BY <1>2, BeginPreserves, AnswersPreserves, FallsBackPreserves, RaisesPreserves
<1> QED
  BY <1>1, <1>2 DEF Next

\* IInv is invariant.
THEOREM Invariance == Spec => []IInv
<1>1. Init => IInv
  BY InitEstablishes
<1>2. IInv /\ [Next]_vars => IInv'
  BY NextPreserves
<1> QED
  BY <1>1, <1>2, PTL DEF Spec

\* The budget is overrun by at most one completion per caller.
THEOREM OverrunIsBounded == Spec => []OverrunBounded
<1>1. IInv => OverrunBounded
  <2> SUFFICES ASSUME IInv PROVE OverrunBounded
    OBVIOUS
  <2>1. InFlight \in SUBSET Callers
    BY DEF InFlight
  <2>2. MaxCost * Cardinality(InFlight) \in Nat /\ MaxCost * Cardinality(Callers) \in Nat
    BY <2>1, CallersFinite
  <2> QED
    BY <2>2, GatewayAssumption DEF IInv, TypeOK, Committed, OverrunBounded
<1> QED
  BY <1>1, Invariance, PTL

\* A completion tells truly whether and from whom it is a fallback.
THEOREM FallbacksAreHonest == Spec => []FallbackIsHonest
<1>1. IInv => FallbackIsHonest
  BY DEF IInv
<1> QED
  BY <1>1, Invariance, PTL
\* Every variable keeps its type.
THEOREM TypeCorrect == Spec => []TypeOK
<1>1. IInv => TypeOK
  BY DEF IInv
<1> QED
  BY <1>1, Invariance, PTL

\* What failed in a call in flight has a line among the errors.
HaveLines == \A c \in InFlight : failed[c] \subseteq errors

LEMMA LinesStay == TypeOK /\ HaveLines /\ [Next]_vars => HaveLines'
<1> SUFFICES ASSUME TypeOK, HaveLines, [Next]_vars PROVE HaveLines'
  OBVIOUS
<1>1. CASE UNCHANGED vars
  BY <1>1 DEF HaveLines, InFlight, vars
<1>2. ASSUME NEW c \in Callers, Begin(c) PROVE HaveLines'
  <2> SUFFICES ASSUME NEW b \in Callers, calling'[b] > 0 PROVE failed'[b] \subseteq errors'
    BY DEF HaveLines, InFlight
  <2>1. failed' = [failed EXCEPT ![c] = {}] /\ errors' = errors
    BY <1>2 DEF Begin
  <2>2. CASE b = c
    <3>1. failed'[b] = {}
      BY <2>1, <2>2 DEF TypeOK
    <3> QED
      BY <3>1
  <2>3. CASE b # c
    <3>1. calling'[b] = calling[b]
      BY <1>2, <2>3 DEF Begin, Ends, TypeOK
    <3>2. failed'[b] = failed[b]
      BY <2>1, <2>3 DEF TypeOK
    <3> QED
      BY <2>1, <3>1, <3>2 DEF HaveLines, InFlight
  <2> QED
    BY <2>2, <2>3
<1>3. ASSUME NEW c \in Callers, FallsBack(c) PROVE HaveLines'
  <2> SUFFICES ASSUME NEW b \in Callers, calling'[b] > 0 PROVE failed'[b] \subseteq errors'
    BY DEF HaveLines, InFlight
  <2>1. failed' = [failed EXCEPT ![c] = @ \cup {calling[c]}] /\ errors' = errors \cup {calling[c]}
    BY <1>3 DEF FallsBack
  <2>2. calling[b] > 0
    <3>1. CASE b = c
      BY <1>3, <3>1 DEF FallsBack
    <3>2. CASE b # c
      BY <1>3, <3>2 DEF FallsBack, Ends, TypeOK
    <3> QED
      BY <3>1, <3>2
  <2>3. failed[b] \subseteq errors
    BY <2>2 DEF HaveLines, InFlight
  <2>4. failed'[b] \subseteq failed[b] \cup {calling[c]}
    BY <2>1 DEF TypeOK
  <2> QED
    BY <2>1, <2>3, <2>4
<1>4. ASSUME NEW c \in Callers, Answers(c) \/ Raises(c) PROVE HaveLines'
  <2> SUFFICES ASSUME NEW b \in Callers, calling'[b] > 0 PROVE failed'[b] \subseteq errors'
    BY DEF HaveLines, InFlight
  <2>1. UNCHANGED <<errors, failed>> /\ calling' = [calling EXCEPT ![c] = 0]
    BY <1>4 DEF Answers, Raises, Ends
  <2>2. calling'[c] = 0
    BY <2>1 DEF TypeOK
  <2>3. b # c
    BY <2>2
  <2>4. calling'[b] = calling[b]
    BY <2>1, <2>3 DEF TypeOK
  <2> QED
    BY <2>1, <2>4 DEF HaveLines, InFlight
<1> QED
  BY <1>1, <1>2, <1>3, <1>4 DEF Next

\* The shared errors are only added to, a call forgets its failures when it begins, and
\* a failure is entered into both: a call that gives up can name all that failed in it.
THEOREM MessagesAreComplete == Spec => MessageIsComplete
<1>1. Init => HaveLines
  BY DEF Init, HaveLines, InFlight
<1>2. TypeOK /\ HaveLines /\ [Next]_vars => HaveLines'
  BY LinesStay
<1>3. ASSUME TypeOK, HaveLines, [Next]_vars, NEW c \in Callers, calling[c] > 0, calling'[c] = 0,
             answer'[c].outcome = "all failed"
      PROVE  failed'[c] \subseteq errors'
  <2>1. failed[c] \subseteq errors
    BY <1>3 DEF HaveLines, InFlight
  <2>2. CASE UNCHANGED vars
    BY <2>1, <2>2 DEF vars
  <2>3. ASSUME NEW b \in Callers, FallsBack(b) PROVE failed'[c] \subseteq errors'
    <3>1. failed' = [failed EXCEPT ![b] = @ \cup {calling[b]}] /\ errors' = errors \cup {calling[b]}
      BY <2>3 DEF FallsBack
    <3>2. failed'[c] \subseteq failed[c] \cup {calling[b]}
      BY <1>3, <3>1 DEF TypeOK
    <3> QED
      BY <2>1, <3>1, <3>2
  <2>4. ASSUME NEW b \in Callers, Answers(b) \/ Raises(b) PROVE failed'[c] \subseteq errors'
    BY <2>1, <2>4 DEF Answers, Raises
  <2>5. ASSUME NEW b \in Callers, Begin(b) PROVE failed'[c] \subseteq errors'
    <3>1. failed' = [failed EXCEPT ![b] = {}] /\ errors' = errors
      BY <2>5 DEF Begin
    <3>2. failed'[c] \subseteq failed[c]
      BY <1>3, <3>1 DEF TypeOK
    <3> QED
      BY <2>1, <3>1, <3>2
  <2> QED
    BY <1>3, <2>2, <2>3, <2>4, <2>5 DEF Next
<1>4. TypeOK /\ HaveLines /\ [Next]_vars =>
        [\A c \in Callers :
           /\ calling[c] > 0 /\ calling'[c] = 0
           /\ answer'[c].outcome = "all failed"
           => failed'[c] \subseteq errors']_vars
  BY <1>3
<1> QED
  BY <1>1, <1>2, <1>4, TypeCorrect, PTL DEF Spec, MessageIsComplete
=============================================================================
