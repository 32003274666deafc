------------------------------ MODULE PriceHistory ------------------------------
(***************************************************************************)
(* The client of the price history service                                 *)
(* (packages/shared/src/pyth-benchmarks.ts): bars are asked for by asset   *)
(* and time window; what was fetched is cached by that window, requests    *)
(* for one window are shared, requests are spaced, failed ones retried,    *)
(* and a rate limit silences new ones for a while.                         *)
(*                                                                         *)
(* Bars are the tick they were fetched at.  Timers are punctual: time does *)
(* not pass a wait that is over.  The service answers when it likes.       *)
(***************************************************************************)
EXTENDS Naturals, FiniteSets, FiniteSetsExt, NoValue

CONSTANTS
  BarReaders,                  \* callers: scanner, evaluator, chart routes, Grills
  BarAssets,
  WindowSpan,                  \* ticks a window is the most recent one
  CacheTtl, StaleTtl,          \* how long bars are fresh, and may stand in
  RateLimitCooldown, RequestSpacing,
  MaxAttempts,
  MaxRetryAfter,               \* the longest wait before another attempt
  LastBarTick                  \* bound on the clock

VARIABLES
  barClock,
  barCache,                    \* of each window: nothing, or its bars and until when they do
  inFlight,                    \* of each window: nothing, or the reader whose call fetches it
  requests,                    \* of each reader: nothing, or the call it has started
  readers,                     \* what each reader is doing
  nextRequestAt, rateLimitedUntil

historyVars == <<barClock, barCache, inFlight, requests, readers, nextRequestAt, rateLimitedUntil>>

ASSUME HistoryAssumption ==
  /\ \A n \in {WindowSpan, RequestSpacing, MaxAttempts} : n \in Nat \ {0}
  /\ \A n \in {CacheTtl, StaleTtl, RateLimitCooldown, MaxRetryAfter, LastBarTick} : n \in Nat
  /\ CacheTtl <= StaleTtl
  /\ NOTHING \notin BarReaders

\* cacheKey: the asset and the window.
BarKeys == BarAssets \X (0 .. LastBarTick \div WindowSpan)

ReaderIdle == [at |-> "idle"]

PriceHistoryInit ==
  /\ barClock = 0
  /\ barCache = [k \in BarKeys |-> NOTHING]
  /\ inFlight = [k \in BarKeys |-> NOTHING]
  /\ requests = [r \in BarReaders |-> NOTHING]
  /\ readers  = [r \in BarReaders |-> ReaderIdle]
  /\ nextRequestAt = 0
  /\ rateLimitedUntil = 0

--------------------------------------------------------------------------------
\* A turn is reserved from now, whatever others are waiting for.
MutantWaitForRequestTurn(r, key, attempt) ==
  LET turn == Max({barClock, nextRequestAt})
  IN  /\ requests' = [requests EXCEPT ![r] = [key |-> key, attempt |-> attempt, at |-> "turn", until |-> turn]]
      /\ nextRequestAt' = barClock + RequestSpacing

\* waitForRequestTurn: the next free turn is reserved before the wait for it.
WaitForRequestTurn(r, key, attempt) ==
  LET turn == Max({barClock, nextRequestAt})
  IN  /\ requests' = [requests EXCEPT ![r] = [key |-> key, attempt |-> attempt, at |-> "turn", until |-> turn]]
      /\ nextRequestAt' = turn + RequestSpacing

Serve(r, bars) == readers' = [readers EXCEPT ![r] = [at |-> "served", bars |-> bars, since |-> barClock]]

Fresh(key)       == barCache[key] # NOTHING /\ barCache[key].expires > barClock
StandsIn(key)    == barCache[key] # NOTHING /\ barCache[key].staleUntil > barClock
RateLimited      == rateLimitedUntil > barClock

\* fetchPythBenchmarkBars up to its first wait, for the window that getRecentBars names.
\* While rate limited and with nothing to stand in it throws, which changes nothing.
GetRecentBars(r, asset) ==
  LET key == <<asset, barClock \div WindowSpan>>
  IN  /\ readers[r] = ReaderIdle
      /\ \/ /\ Fresh(key) \/ (RateLimited /\ StandsIn(key))
            /\ Serve(r, barCache[key].bars)
            /\ UNCHANGED <<inFlight, requests, nextRequestAt>>
         \/ /\ ~ Fresh(key) /\ ~ RateLimited
            /\ readers' = [readers EXCEPT ![r] = [at |-> "waiting", key |-> key]]
            /\ IF inFlight[key] # NOTHING
               THEN UNCHANGED <<inFlight, requests, nextRequestAt>>
               ELSE /\ inFlight' = [inFlight EXCEPT ![key] = r]
                    /\ WaitForRequestTurn(r, key, 1)
      /\ UNCHANGED <<barClock, barCache, rateLimitedUntil>>

\* fetchImpl is called when the turn has come.
SendRequest(r) ==
  /\ requests[r] # NOTHING /\ requests[r].at = "turn" /\ requests[r].until <= barClock
  /\ requests' = [requests EXCEPT ![r].at = "sent"]
  /\ UNCHANGED <<barClock, barCache, inFlight, readers, nextRequestAt, rateLimitedUntil>>

\* The call of a window is over: whoever waits for it is answered.
Settle(r, answer) ==
  LET key == requests[r].key
  IN  /\ requests' = [requests EXCEPT ![r] = NOTHING]
      /\ inFlight' = [inFlight EXCEPT ![key] = NOTHING]
      /\ readers'  = [q \in BarReaders |->
                        IF readers[q].at = "waiting" /\ readers[q].key = key THEN answer ELSE readers[q]]

\* fetchBars has bars, or the empty list of a window without data.
HandleBars(r) ==
  /\ requests[r] # NOTHING /\ requests[r].at = "sent"
  /\ barCache' = [barCache EXCEPT ![requests[r].key] =
                    [bars |-> barClock, expires |-> barClock + CacheTtl, staleUntil |-> barClock + StaleTtl]]
  /\ Settle(r, [at |-> "served", bars |-> barClock, since |-> barClock])
  /\ UNCHANGED <<barClock, nextRequestAt, rateLimitedUntil>>

\* fetchBars gives up: a status that is not retried or the last attempt ("status", or
\* "limited" for 429), an error in the body ("body"), or no response at all ("transport"),
\* the one failure for which old bars do not stand in.
HandleFailure(r, failure) ==
  LET key == requests[r].key
  IN  /\ requests[r] # NOTHING /\ requests[r].at = "sent"
      /\ failure = "limited" => requests[r].attempt = MaxAttempts
      /\ rateLimitedUntil' = IF failure = "limited"
                             THEN Max({rateLimitedUntil, barClock + RateLimitCooldown})
                             ELSE rateLimitedUntil
      /\ Settle(r, IF failure # "transport" /\ StandsIn(key)
                   THEN [at |-> "served", bars |-> barCache[key].bars, since |-> barClock]
                   ELSE ReaderIdle)
      /\ UNCHANGED <<barClock, barCache, nextRequestAt>>

\* A 429 or a gateway error is tried again after what the service asked for, capped.
HandleRetry(r, delay) ==
  /\ requests[r] # NOTHING /\ requests[r].at = "sent" /\ requests[r].attempt < MaxAttempts
  /\ requests' = [requests EXCEPT ![r].at = "backoff", ![r].until = barClock + delay]
  /\ UNCHANGED <<barClock, barCache, inFlight, readers, nextRequestAt, rateLimitedUntil>>

NextAttempt(r) ==
  /\ requests[r] # NOTHING /\ requests[r].at = "backoff" /\ requests[r].until <= barClock
  /\ WaitForRequestTurn(r, requests[r].key, requests[r].attempt + 1)
  /\ UNCHANGED <<barClock, barCache, inFlight, readers, rateLimitedUntil>>

\* The reader uses the bars and may ask again.
UseBars(r) ==
  /\ readers[r].at = "served"
  /\ readers' = [readers EXCEPT ![r] = ReaderIdle]
  /\ UNCHANGED <<barClock, barCache, inFlight, requests, nextRequestAt, rateLimitedUntil>>

BarTick ==
  /\ barClock < LastBarTick
  /\ \A r \in BarReaders : (requests[r] # NOTHING /\ requests[r].at \in {"turn", "backoff"})
                              => requests[r].until > barClock
  /\ barClock' = barClock + 1
  /\ UNCHANGED <<barCache, inFlight, requests, readers, nextRequestAt, rateLimitedUntil>>

PriceHistoryNext ==
  \/ \E r \in BarReaders :
       \/ \E asset \in BarAssets : GetRecentBars(r, asset)
       \/ SendRequest(r)
       \/ HandleBars(r)
       \/ \E failure \in {"status", "limited", "body", "transport"} : HandleFailure(r, failure)
       \/ \E delay \in 0 .. MaxRetryAfter : HandleRetry(r, delay)
       \/ NextAttempt(r)
       \/ UseBars(r)
  \/ BarTick

PriceHistorySpec == PriceHistoryInit /\ [][PriceHistoryNext]_historyVars

--------------------------------------------------------------------------------
PriceHistoryTypeOK ==
  /\ barClock \in 0 .. LastBarTick
  /\ DOMAIN barCache = BarKeys
  /\ inFlight \in [BarKeys -> BarReaders \cup {NOTHING}]
  /\ DOMAIN requests = BarReaders /\ DOMAIN readers = BarReaders
  /\ \A r \in BarReaders :
       /\ requests[r] # NOTHING =>
            /\ requests[r].key \in BarKeys /\ requests[r].attempt \in 1 .. MaxAttempts
            /\ requests[r].at \in {"turn", "sent", "backoff"} /\ requests[r].until \in Nat
       /\ readers[r].at \in {"idle", "waiting", "served"}
  /\ nextRequestAt \in Nat /\ rateLimitedUntil \in Nat

Reserved == {r \in BarReaders : requests[r] # NOTHING /\ requests[r].at \in {"turn", "sent"}}

\* However many callers ask at once and however their retries fall, the service is
\* never sent two requests closer than the spacing, and never two for one window, and
\* what a caller gets was fetched less than the stale time before.
HistoryIsPacedAndCurrent ==
  /\ \A r, q \in Reserved : r # q =>
       \/ requests[r].until >= requests[q].until + RequestSpacing
       \/ requests[q].until >= requests[r].until + RequestSpacing
  /\ \A r, q \in BarReaders :
       (r # q /\ requests[r] # NOTHING /\ requests[q] # NOTHING) => requests[r].key # requests[q].key
  /\ \A r \in BarReaders : readers[r].at = "served" =>
       readers[r].since = readers[r].bars \/ readers[r].since < readers[r].bars + StaleTtl

================================================================================
