----------------------------- MODULE LlmGateway -----------------------------
(***************************************************************************)
(* services/llm_gateway/gateway.py: one LlmGateway and one BudgetGuard, used *)
(* by the callers of a process.  complete() checks the budget before anyone   *)
(* knows what the completion will cost, tries the providers in order and      *)
(* records the cost afterwards; callers overlap while they wait for a         *)
(* provider.  The providers are external: they answer, raise ProviderError or *)
(* raise something else.  The += of record() is one step: it makes no call, and *)
(* the threads of the Python the project asks for, 3.11 with its global lock,    *)
(* are switched at calls and at backward jumps only.                          *)
(***************************************************************************)
EXTENDS Integers, FiniteSets

CONSTANTS
  Callers,       \* what runs complete(): one, or one per thread or task
  NumProviders,  \* length of the list of providers
  MaxCost,       \* the dearest completion a provider bills
  Limit,         \* BudgetGuard.monthly_limit_usd
  None

Providers == 1..NumProviders

ASSUME GatewayAssumption ==
  /\ IsFiniteSet(Callers)
  /\ NumProviders \in Nat /\ MaxCost \in Nat /\ Limit \in Nat
  /\ None \notin Int

VARIABLES
  spent,    \* BudgetGuard.spent_usd
  errors,   \* the providers LlmGateway._errors has lines of; it is never cleared
  calling,  \* Callers -> the provider being called, 0 outside complete()
  failed,   \* history: Callers -> providers that failed in the last call
  answer    \* Callers -> how the last call ended, None while one runs

vars == <<spent, errors, calling, failed, answer>>

Outcomes == {"completion", "lost", "over budget", "all failed", "raised"}
Answer == [outcome : Outcomes, provider : Providers \cup {None}, fallback_from : Providers \cup {None}]

TypeOK ==
  /\ spent \in Nat
  /\ errors \subseteq Providers
  /\ calling \in [Callers -> 0..NumProviders]
  /\ failed \in [Callers -> SUBSET Providers]
  /\ answer \in [Callers -> Answer \cup {None}]

\* A guard may be created with what was spent already.
Init ==
  /\ spent \in 0..Limit
  /\ errors = {}
  /\ calling = [c \in Callers |-> 0]
  /\ failed = [c \in Callers |-> {}]
  /\ answer = [c \in Callers |-> None]

Ends(c, outcome, provider, fallback_from) ==
  /\ calling' = [calling EXCEPT ![c] = 0]
  /\ answer' = [answer EXCEPT ![c] =
       [outcome |-> outcome, provider |-> provider, fallback_from |-> fallback_from]]

\* Mutant: the budget is checked against the cap alone.
AffordableAlways(projected) == projected <= Limit

\* BudgetGuard.check(projected_usd): complete() projects nothing.
Affordable(projected) == spent + projected <= Limit

\* Mutant: a call clears the errors of the one before, so that the list stays short.
BeginClearing(c) ==
  /\ calling[c] = 0
  /\ failed' = [failed EXCEPT ![c] = {}]
  /\ \/ ~Affordable(0) /\ Ends(c, "over budget", None, None)
     \/ Affordable(0) /\ calling' = [calling EXCEPT ![c] = 1] /\ answer' = [answer EXCEPT ![c] = None]
  /\ errors' = {}
  /\ UNCHANGED spent

\* complete() up to the first call of a provider
Begin(c) ==
  /\ calling[c] = 0
  /\ failed' = [failed EXCEPT ![c] = {}]
  /\ \/ /\ ~Affordable(0)
        /\ Ends(c, "over budget", None, None)
     \/ /\ Affordable(0) /\ NumProviders = 0
        /\ Ends(c, "all failed", None, None)
     \/ /\ Affordable(0) /\ NumProviders > 0
        /\ calling' = [calling EXCEPT ![c] = 1]
        /\ answer' = [answer EXCEPT ![c] = None]
  /\ UNCHANGED <<spent, errors>>

\* Mutant: the provider before the one that answered is named.
AnswersNamingPrevious(c) ==
  /\ calling[c] > 0
  /\ \E cost \in 0..MaxCost : spent' = spent + cost
  /\ Ends(c, "completion", calling[c], IF calling[c] > 1 THEN calling[c] - 1 ELSE None)
  /\ UNCHANGED <<errors, failed>>

\* The provider answers: its cost is recorded, and then on_call may raise and
\* lose the completion.
Answers(c) ==
  /\ calling[c] > 0
  /\ \E cost \in 0..MaxCost : spent' = spent + cost
  /\ \E outcome \in {"completion", "lost"} :
       Ends(c, outcome, calling[c], IF calling[c] > 1 THEN 1 ELSE None)
  /\ UNCHANGED <<errors, failed>>

\* Mutant: the end of the list of providers is met one too late.
FallsOff(c) ==
  /\ calling[c] > 0
  /\ errors' = errors \cup {calling[c]}
  /\ failed' = [failed EXCEPT ![c] = @ \cup {calling[c]}]
  /\ IF calling[c] <= NumProviders
     THEN calling' = [calling EXCEPT ![c] = @ + 1] /\ UNCHANGED answer
     ELSE Ends(c, "all failed", None, None)
  /\ UNCHANGED spent

\* ProviderError: the next provider is tried, if there is one.
FallsBack(c) ==
  /\ calling[c] > 0
  /\ errors' = errors \cup {calling[c]}
  /\ failed' = [failed EXCEPT ![c] = @ \cup {calling[c]}]
  /\ IF calling[c] < NumProviders
     THEN calling' = [calling EXCEPT ![c] = @ + 1] /\ UNCHANGED answer
     ELSE Ends(c, "all failed", None, None)
  /\ UNCHANGED spent

\* Any other exception leaves complete() at once.
Raises(c) ==
  /\ calling[c] > 0
  /\ Ends(c, "raised", None, None)
  /\ UNCHANGED <<spent, errors, failed>>

Next == \E c \in Callers : Begin(c) \/ Answers(c) \/ FallsBack(c) \/ Raises(c)

Spec == Init /\ [][Next]_vars

(***************************************************************************)
(* Properties.                                                              *)
(***************************************************************************)
InFlight == {c \in Callers : calling[c] > 0}

\* The budget is overrun by no more than what was let through while it still
\* held: one completion per caller, however the calls overlap and fall back.
OverrunBounded == spent <= Limit + MaxCost * Cardinality(Callers)

\* A completion that is not the first provider's says so, naming the first, and
\* every provider before it failed in that very call; nothing is skipped, and a
\* call that gives up has tried them all.
FallbackIsHonest ==
  \A c \in Callers : answer[c] # None =>
    /\ answer[c].provider # None =>
         /\ failed[c] = 1..(answer[c].provider - 1)
         /\ answer[c].fallback_from = IF failed[c] = {} THEN None ELSE 1
    /\ answer[c].outcome = "all failed" => failed[c] = Providers

\* The message of a call that gives up is made of the errors all callers share: at that
\* moment they have a line of every provider that failed in that call, however many
\* other calls began, failed and ended in between (lines of theirs may be there too).
MessageIsComplete ==
  [][\A c \in Callers :
       /\ calling[c] > 0 /\ calling'[c] = 0
       /\ answer'[c].outcome = "all failed"
       => failed'[c] \subseteq errors']_vars
=============================================================================
