----------------------------- MODULE ModelRouter -----------------------------
(***************************************************************************)
(* The model router: the single entry point of all LLM calls, with its     *)
(* provider health, sliding-window rate limiter and cost ledger.           *)
(*                                                                         *)
(* A request suspends only while a provider works on it, so everything     *)
(* between two such waits is one step; unregistering a provider suspends   *)
(* while the provider shuts down, and so does shutting the router down,    *)
(* provider after provider.  Only enabled configurations are         *)
(* modelled (a disabled one is never selected), a name keeps its priority  *)
(* and limits when it is registered again, and the window's minute is an   *)
(* Expire step for its oldest entry.                                       *)
(***************************************************************************)
EXTENDS Integers, FiniteSets, Sequences

CONSTANTS
  Providers,     \* provider names
  Priority,      \* ProviderConfig.priority; ties follow registration order
  Callers,       \* the coroutines inside complete() or stream()
  MaxRequests, MaxTokens,            \* the limits of each provider's window
  Tokens,        \* what a completion may use
  Costs,         \* what it may cost
  MaxEntries,    \* CostLedger's max_entries
  DegradedAfter, UnhealthyAfter,     \* 2 and 5 failures in a row
  Removable,     \* the providers that are ever unregistered
  MaxClosing     \* bound: unregistrations of one name that wait at once

ASSUME LimitsAssumption ==
  /\ {MaxRequests, MaxEntries, DegradedAfter, UnhealthyAfter, MaxClosing} \subseteq Nat \ {0}
  /\ MaxTokens \in Nat /\ Tokens \subseteq Nat /\ Costs \subseteq Nat
  /\ DegradedAfter < UnhealthyAfter
ASSUME ProvidersAssumption ==
  /\ Removable \subseteq Providers /\ IsFiniteSet(Providers) /\ IsFiniteSet(Callers)
  /\ Priority \in [Providers -> Nat]
  /\ \A p, q \in Providers : Priority[p] = Priority[q] => p = q

VARIABLES
  held,      \* the names in _providers
  offered,   \* the names in _configs and _health
  closing,   \* of each name, the unregistrations that wait for shutdown()
  shutting,  \* the size of _providers when Shutdown began to iterate over it, or 0
  health,    \* ProviderHealthState.status
  failures,  \* ProviderHealthState.consecutive_failures
  recent,    \* RateLimitState._recent_requests: the tokens of each request
  call,      \* what each caller does
  entries,   \* CostLedger._entries
  spent,     \* CostLedger._by_provider
  total      \* CostLedger._total_cost

regVars == <<held, offered, closing, shutting>>
healthVars == <<health, failures>>
ledgerVars == <<entries, spent, total>>
routerVars == <<regVars, healthVars, recent, call, ledgerVars>>

Idle == [kind |-> "idle"]

\* left: the selected providers not yet tried; detached: the health object the
\* call holds is not the registered one any more.
Waiting == [kind : {"complete", "stream"}, on : Providers,
            left : SUBSET Providers, detached : BOOLEAN]

LedgerEntry == [provider : Providers, cost : Costs]

RouterTypeOK ==
  /\ held \subseteq Providers /\ offered \subseteq Providers
  /\ closing \in [Providers -> 0 .. MaxClosing] /\ shutting \in Nat
  /\ health \in [Providers -> {"healthy", "degraded", "unhealthy"}]
  /\ failures \in [Providers -> Nat]
  /\ recent \in [Providers -> Seq(Tokens)]
  /\ call \in [Callers -> Waiting \cup {Idle}]
  /\ entries \in Seq(LedgerEntry) /\ Len(entries) <= MaxEntries
  /\ spent \in [Providers -> Int] /\ total \in Int

RouterInit ==
  /\ held = {} /\ offered = {} /\ closing = [p \in Providers |-> 0] /\ shutting = 0
  /\ health = [p \in Providers |-> "healthy"]
  /\ failures = [p \in Providers |-> 0]
  /\ recent = [p \in Providers |-> <<>>]
  /\ call = [c \in Callers |-> Idle]
  /\ entries = <<>> /\ spent = [p \in Providers |-> 0] /\ total = 0

-----------------------------------------------------------------------------
(* Registration. *)

\* The calls under way on the providers of S keep a health object nobody reads.
Detach(S) ==
  call' = [c \in Callers |-> IF call[c] # Idle /\ call[c].on \in S
                               THEN [call[c] EXCEPT !.detached = TRUE] ELSE call[c]]

\* The step after initialize(); one that raises registers nothing.  A name
\* registered already gets a new provider, configuration, health and window.
RegisterProvider(p) ==
  /\ held' = held \cup {p} /\ offered' = offered \cup {p}
  /\ health' = [health EXCEPT ![p] = "healthy"]
  /\ failures' = [failures EXCEPT ![p] = 0]
  /\ recent' = [recent EXCEPT ![p] = <<>>]
  /\ Detach({p})
  /\ UNCHANGED <<closing, shutting, ledgerVars>>

UnregisterProvider(p) ==
  /\ p \in held \cap Removable /\ closing[p] < MaxClosing
  /\ held' = held \ {p}
  /\ closing' = [closing EXCEPT ![p] = @ + 1]
  /\ UNCHANGED <<offered, shutting, healthVars, recent, call, ledgerVars>>

\* shutdown() returns; whatever is registered under the name goes.
Unregistered(p) ==
  /\ closing[p] > 0
  /\ closing' = [closing EXCEPT ![p] = @ - 1]
  /\ offered' = offered \ {p}
  /\ Detach({p})
  /\ UNCHANGED <<held, shutting, healthVars, recent, ledgerVars>>

\* shutdown() raises, or the caller is cancelled while it waits: the
\* configuration and the health stay behind.
UnregisterFailed(p) ==
  /\ closing[p] > 0
  /\ closing' = [closing EXCEPT ![p] = @ - 1]
  /\ UNCHANGED <<held, offered, shutting, healthVars, recent, call, ledgerVars>>

\* Shut the providers down one after the other.
Shutdown ==
  /\ shutting = 0 /\ held # {}
  /\ shutting' = Cardinality(held)
  /\ UNCHANGED <<held, offered, closing, healthVars, recent, call, ledgerVars>>

\* The last one has shut down, or there was none.
ShutdownDone ==
  /\ shutting = Cardinality(held)
  /\ held' = {} /\ offered' = {} /\ shutting' = 0
  /\ Detach(Providers)
  /\ UNCHANGED <<closing, healthVars, recent, ledgerVars>>

\* The dictionary was changed during the iteration, which raises, or the caller
\* is cancelled: nothing is cleared.
ShutdownFailed ==
  /\ shutting > 0
  /\ shutting' = 0
  /\ UNCHANGED <<held, offered, closing, healthVars, recent, call, ledgerVars>>

-----------------------------------------------------------------------------
(* Requests. *)

Sum(s) ==
  LET upTo[i \in 0 .. Len(s)] == IF i = 0 THEN 0 ELSE upTo[i - 1] + s[i]
  IN  upTo[Len(s)]

\* Mutant: off by one.
CanRequestAtLimit(p) == Len(recent[p]) <= MaxRequests /\ Sum(recent[p]) <= MaxTokens

CanRequest(p) == Len(recent[p]) < MaxRequests /\ Sum(recent[p]) <= MaxTokens

Selected(hint) == {p \in offered \cap hint : health[p] # "unhealthy"}

Ranked(S) == CHOOSE p \in S : \A q \in S : Priority[p] <= Priority[q]

\* Mutant: the provider that failed stays among those to try.
TryAgain(c, kind, S) ==
  LET skipped == {p \in S \cap held \cap offered :
                    health[p] = "unhealthy" \/ ~CanRequest(p)}
      p == Ranked(S \ skipped)
  IN  call' = [call EXCEPT ![c] =
        IF S \subseteq skipped \/ p \notin held \cap offered THEN Idle
        ELSE [kind |-> kind, on |-> p, detached |-> FALSE, left |-> S]]

\* The loop over the selected providers up to its next wait: it skips those
\* that are unhealthy or limited by now, ends the request when none is left,
\* and dies of a KeyError on one that was unregistered meanwhile.
Try(c, kind, S) ==
  LET skipped == {p \in S \cap held \cap offered :
                    health[p] = "unhealthy" \/ ~CanRequest(p)}
      p == Ranked(S \ skipped)
  IN  call' = [call EXCEPT ![c] =
        IF S \subseteq skipped \/ p \notin held \cap offered THEN Idle
        ELSE [kind |-> kind, on |-> p, detached |-> FALSE,
              left |-> {q \in S : Priority[q] > Priority[p]}]]

\* hint: all providers, or the one of provider_hint.
Request(c, kind, hint) ==
  /\ call[c] = Idle
  /\ Try(c, kind, Selected(hint))
  /\ UNCHANGED <<regVars, healthVars, recent, ledgerVars>>

\* Mutants: one entry too many; the dropped entry's provider keeps its cost.
RecordedLate(e) ==
  LET over == Len(entries) > MaxEntries
      old  == Head(entries)
      kept == IF over THEN [spent EXCEPT ![old.provider] = @ - old.cost] ELSE spent
  IN  /\ entries' = Append(IF over THEN Tail(entries) ELSE entries, e)
      /\ spent' = [kept EXCEPT ![e.provider] = @ + e.cost]
      /\ total' = total + e.cost - (IF over THEN old.cost ELSE 0)

RecordedTotal(e) ==
  LET over == Len(entries) = MaxEntries
  IN  /\ entries' = Append(IF over THEN Tail(entries) ELSE entries, e)
      /\ spent' = [spent EXCEPT ![e.provider] = @ + e.cost]
      /\ total' = total + e.cost - (IF over THEN Head(entries).cost ELSE 0)

\* Costs are whole numbers here; the totals by task and by user are left out.
Recorded(e) ==
  LET over == Len(entries) = MaxEntries
      old  == Head(entries)
      kept == IF over THEN [spent EXCEPT ![old.provider] = @ - old.cost] ELSE spent
  IN  /\ entries' = Append(IF over THEN Tail(entries) ELSE entries, e)
      /\ spent' = [kept EXCEPT ![e.provider] = @ + e.cost]
      /\ total' = total + e.cost - (IF over THEN old.cost ELSE 0)

RecordSuccess(p) ==
  /\ failures' = [failures EXCEPT ![p] = 0]
  /\ health' = [health EXCEPT ![p] = IF @ = "unhealthy" THEN "healthy" ELSE @]

RecordFailure(p) ==
  /\ failures' = [failures EXCEPT ![p] = IF @ < UnhealthyAfter THEN @ + 1 ELSE @]
  /\ health' = [health EXCEPT ![p] =
       IF failures[p] + 1 >= UnhealthyAfter THEN "unhealthy"
       ELSE IF failures[p] + 1 >= DegradedAfter THEN "degraded" ELSE @]

\* The provider answers.  A stream takes no room in the window and costs nothing.
Succeed(c, tokens, cost) ==
  LET p == call[c].on
  IN  /\ call[c] # Idle
      /\ IF call[c].detached THEN UNCHANGED healthVars ELSE RecordSuccess(p)
      /\ IF call[c].kind = "complete"
           THEN /\ recent' = [recent EXCEPT ![p] = Append(@, tokens)]
                /\ Recorded([provider |-> p, cost |-> cost])
           ELSE UNCHANGED <<recent, ledgerVars>>
      /\ call' = [call EXCEPT ![c] = Idle]
      /\ UNCHANGED regVars

\* The provider raises: a completion gives up on an error that is not
\* retryable; any other failure is passed on to the next provider.
Fail(c, retryable) ==
  /\ call[c] # Idle
  /\ IF call[c].detached THEN UNCHANGED healthVars ELSE RecordFailure(call[c].on)
  /\ IF retryable \/ call[c].kind = "stream"
       THEN Try(c, call[c].kind, call[c].left)
       ELSE call' = [call EXCEPT ![c] = Idle]
  /\ UNCHANGED <<regVars, recent, ledgerVars>>

\* The caller is cancelled, or stops reading the stream.
Abandon(c) ==
  /\ call[c] # Idle
  /\ call' = [call EXCEPT ![c] = Idle]
  /\ UNCHANGED <<regVars, healthVars, recent, ledgerVars>>

Expire(p) ==
  /\ recent[p] # <<>>
  /\ recent' = [recent EXCEPT ![p] = Tail(@)]
  /\ UNCHANGED <<regVars, healthVars, call, ledgerVars>>

-----------------------------------------------------------------------------
Hints == {Providers} \cup {{p} : p \in Providers}

Answer(c) == \/ \E t \in Tokens, u \in Costs : Succeed(c, t, u)
             \/ \E r \in BOOLEAN : Fail(c, r)

RouterNext ==
  \/ \E p \in Providers : \/ RegisterProvider(p) \/ UnregisterProvider(p)
                          \/ Unregistered(p) \/ UnregisterFailed(p) \/ Expire(p)
  \/ Shutdown \/ ShutdownDone \/ ShutdownFailed
  \/ \E c \in Callers :
       \/ \E k \in {"complete", "stream"}, h \in Hints : Request(c, k, h)
       \/ Answer(c) \/ Abandon(c)

\* A provider's HTTP client has a timeout, so its complete() returns.  A stream
\* waits for its reader, of whom nothing is assumed.
Returns(c) == call[c].kind = "complete" /\ Answer(c)

RouterSpec == RouterInit /\ [][RouterNext]_routerVars /\ \A c \in Callers : WF_routerVars(Returns(c))

-----------------------------------------------------------------------------
InFlight(p) == {c \in Callers : call[c] # Idle /\ call[c].kind = "complete" /\ call[c].on = p}

(***************************************************************************)
(* The window is checked before the wait and filled after it.  So the      *)
(* completions that a window holds overrun the limit, but by no more than  *)
(* the callers that can be between the two at once.  (Streams pass the     *)
(* same check and are never recorded: nothing bounds them.)                *)
(***************************************************************************)
OverrunBounded ==
  \A p \in Providers :
    Len(recent[p]) + Cardinality(InFlight(p)) <= MaxRequests - 1 + Cardinality(Callers)

(***************************************************************************)
(* The ledger balances: the total and the cost of each provider are those  *)
(* of the entries kept, also after the oldest were dropped.  (Exactly, as  *)
(* long as adding costs is exact: the code's are floats.)                  *)
(***************************************************************************)
LedgerBalances ==
  LET CostOf(S) == Sum([i \in 1..Len(entries) |->
                          IF entries[i].provider \in S THEN entries[i].cost ELSE 0])
  IN  total = CostOf(Providers) /\ \A p \in Providers : spent[p] = CostOf({p})

(***************************************************************************)
(* Every completion ends, with an answer or an error: failover never       *)
(* returns to a provider it has left, although providers come, go and are  *)
(* replaced meanwhile.                                                     *)
(***************************************************************************)
RequestsEnd == \A c \in Callers : call[c].kind = "complete" ~> call[c].kind # "complete"
=============================================================================
