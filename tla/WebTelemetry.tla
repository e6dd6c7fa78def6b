---------------------------- MODULE WebTelemetry ----------------------------
(***************************************************************************)
(* The page's own telemetry (sovereign-config-web: telemetry).  Finished   *)
(* calls leave a log record, finished actions their spans; both wait in    *)
(* bounded buffers for a flush, of which at most one is scheduled or       *)
(* running.  A flush uses the page's access token but never refreshes it,  *)
(* and a page on its way out sends what fits without waiting.              *)
(*                                                                         *)
(* An item is its size.  Delays are left out: a timer fires at some time,  *)
(* unless the browser refuses to set it.                                   *)
(***************************************************************************)
EXTENDS Integers, Sequences, SequencesExt

CONSTANTS
  TelSizes,             \* encoded sizes of items
  MAX_BUFFERED_ITEMS, MAX_BUFFERED_BYTES,
  MAX_BATCH_ITEMS, MAX_BATCH_BYTES, MAX_UNLOAD_BATCH_BYTES,
  MAX_RETRIES, MAX_ABANDONED_BATCHES, MAX_CALLS_PER_ACTION,
  TelMaxItems           \* bound: items and answers in a behaviour

VARIABLES
  tel,        \* the Exporter, with its Policy
  telTimers,  \* flushes scheduled
  telSending, \* <<>>, or the batch a running flush awaits: <<signal, items, token>>
  telToken,   \* TOKENS: [state, number]
  telAction,  \* the user action in progress: [open, calls, spans]
  telExit,    \* what the page-hide flush last sent
  telRefused, \* history: the last timer asked for could not be set
  telCount    \* items recorded and answers received so far

telVars == <<tel, telTimers, telSending, telToken, telAction, telExit, telRefused, telCount>>

Signals == <<"logs", "traces">>

total_bytes(items) == FoldLeft(+, 0, items)

TelInit ==
  /\ tel = [buffer |-> [s \in {"logs", "traces"} |-> <<>>], pending |-> <<>>, health |-> "working",
            refreshed_after_401 |-> FALSE, retries |-> 0, abandoned |-> 0, flushing |-> FALSE]
  /\ telTimers = 0
  /\ telSending = <<>>
  /\ telToken = [state |-> "current", number |-> 1]
  /\ telAction = [open |-> 0, calls |-> 0, spans |-> 0]
  /\ telExit = <<>>
  /\ telRefused = FALSE
  /\ telCount = 0

\* The slot is empty both after logout and while a call refreshes the tokens.
logged_in == telToken.state \notin {"none", "taken"}
enabled == tel.health # "stopped"

----------------------------------------------------------------------------
\* Buffer.

\* The longest run of newest items that both bounds allow: the oldest go first, and
\* an item larger than the whole buffer is not taken at all.
push(items, item) ==
  IF item > MAX_BUFFERED_BYTES THEN items
  ELSE LET all == Append(items, item)
           Fits(n) == /\ Len(all) - n < MAX_BUFFERED_ITEMS
                      /\ total_bytes(SubSeq(all, n, Len(all))) <= MAX_BUFFERED_BYTES
           first == CHOOSE n \in 1..Len(all) : Fits(n) /\ \A m \in 1..(n - 1) : ~Fits(m)
       IN SubSeq(all, first, Len(all))

\* How many of the oldest items one batch takes: at least one if there is any.
batch_length(items, most, bytes) ==
  IF items = <<>> THEN 0
  ELSE CHOOSE n \in 1..Len(items) :
         /\ n = 1 \/ (n <= most /\ total_bytes(SubSeq(items, 1, n)) <= bytes)
         /\ n = Len(items) \/ n = most \/ total_bytes(SubSeq(items, 1, n + 1)) > bytes

take_batch(items, most, bytes) == SubSeq(items, 1, batch_length(items, most, bytes))
AfterBatch(items, most, bytes) == SubSeq(items, batch_length(items, most, bytes) + 1, Len(items))

Cleared(exporter) == [exporter EXCEPT !.buffer = [s \in {"logs", "traces"} |-> <<>>], !.pending = <<>>]

----------------------------------------------------------------------------
\* Recording.

\* What a flush may come to: the exporter, the timers, the batch now awaited, and
\* whether a timer was refused.
Outcome(exporter, timers, sending) ==
  [tel |-> exporter, timers |-> timers, sending |-> sending, refused |-> FALSE]

stop_flushing(exporter, timers) ==
  Outcome([exporter EXCEPT !.flushing = FALSE], timers, <<>>)

\* schedule_flush: a timer that cannot be set leaves what waits without a flush.
schedule_flush(exporter, timers) ==
  {Outcome(exporter, timers + 1, <<>>),
   [stop_flushing(exporter, timers) EXCEPT !.refused = TRUE]}

Flushed(outcome) ==
  /\ tel' = outcome.tel
  /\ telTimers' = outcome.timers
  /\ telSending' = outcome.sending
  /\ telRefused' = outcome.refused

\* The buffered items, with a flush on its way.
Buffered(signal, items) ==
  [tel EXCEPT !.buffer[signal] = FoldLeft(push, @, items), !.flushing = TRUE]

\* Mutant: every item schedules a flush.
EagerEnqueue(signal, items) ==
  \E outcome \in schedule_flush(Buffered(signal, items), telTimers) :
    Flushed([outcome EXCEPT !.sending = telSending])

\* The first item schedules a flush; while one is scheduled or running there is no
\* other.
enqueue(signal, items) ==
  IF tel.flushing
  THEN tel' = Buffered(signal, items) /\ UNCHANGED <<telTimers, telSending, telRefused>>
  ELSE \E outcome \in schedule_flush(Buffered(signal, items), telTimers) : Flushed(outcome)

\* Before a login nothing is recorded.
emit(size) ==
  /\ telCount < TelMaxItems
  /\ telCount' = telCount + 1
  /\ IF logged_in THEN enqueue("logs", <<size>>) ELSE UNCHANGED <<tel, telTimers, telSending, telRefused>>

begin_call ==
  /\ telAction.open = 0
  /\ telCount < TelMaxItems
  /\ telAction' = [telAction EXCEPT !.open = 1]
  /\ UNCHANGED <<tel, telTimers, telSending, telToken, telExit, telRefused, telCount>>

\* The first few calls of an action have a span of their own.
reserve_span == telAction.spans < MAX_CALLS_PER_ACTION

\* A finished call is a record now, and its span leaves when the action ends.
end_call(size) ==
  /\ telAction.open = 1
  /\ telAction' = [open |-> 0, calls |-> 1,
                   spans |-> IF reserve_span THEN telAction.spans + 1 ELSE telAction.spans]
  /\ IF enabled THEN emit(size) ELSE UNCHANGED <<tel, telTimers, telSending, telRefused, telCount>>
  /\ UNCHANGED <<telToken, telExit>>

\* Action::finish: the root span and the calls', or nothing for an action without any.
finish_action(size) == [i \in 1..(telAction.spans + 1) |-> size]

\* The action's last future is gone: its spans leave together.
end_action(size) ==
  /\ telAction.open = 0 /\ telAction.calls > 0
  /\ telAction' = [open |-> 0, calls |-> 0, spans |-> 0]
  /\ IF enabled /\ logged_in
     THEN enqueue("traces", finish_action(size))
     ELSE UNCHANGED <<tel, telTimers, telSending, telRefused>>
  /\ UNCHANGED <<telToken, telExit, telCount>>

----------------------------------------------------------------------------
\* Flushing.

\* park: the batch waits for a flush of its own.
park(exporter, timers, batch) == schedule_flush([exporter EXCEPT !.pending = batch], timers)

send(exporter, timers, batch) == Outcome(exporter, timers, Append(batch, telToken.number))

\* A token is used as it is, and never refreshed for an export.
current_token == telToken.state = "current"

\* The next batch: the parked one, or the oldest logs, or the oldest spans.
next_signal(exporter) == IF exporter.buffer["logs"] # <<>> THEN "logs" ELSE "traces"

\* One turn of the loop, which may come to one thing, or be parked.
Turn(exporter, timers) ==
  LET signal == next_signal(exporter)
      items == exporter.buffer[signal]
      next == IF exporter.pending # <<>> THEN exporter.pending
              ELSE <<signal, take_batch(items, MAX_BATCH_ITEMS, MAX_BATCH_BYTES)>>
      taken == IF exporter.pending # <<>> THEN [exporter EXCEPT !.pending = <<>>]
               ELSE [exporter EXCEPT !.buffer[signal] = AfterBatch(items, MAX_BATCH_ITEMS, MAX_BATCH_BYTES)]
  IN IF exporter.health = "stopped" THEN {stop_flushing(Cleared(exporter), timers)}
     ELSE IF next[2] = <<>> THEN {stop_flushing(exporter, timers)}
     ELSE IF current_token THEN {send(taken, timers, next)}
     ELSE IF logged_in THEN park(taken, timers, next)
     ELSE {stop_flushing(Cleared(taken), timers)}

\* While items are still arriving the timer is set again, but not for a parked batch.
gather_wait ==
  /\ telTimers > 0
  /\ tel.pending = <<>>
  /\ \E outcome \in schedule_flush(tel, telTimers - 1) : Flushed(outcome)
  /\ UNCHANGED <<telToken, telAction, telExit, telCount>>

flush ==
  /\ telTimers > 0
  /\ \E outcome \in Turn(tel, telTimers - 1) : Flushed(outcome)
  /\ UNCHANGED <<telToken, telAction, telExit, telCount>>

\* Policy: what an answer does to the exporter, and to the batch.
stop_policy(exporter) == [next |-> "stop", tel |-> [exporter EXCEPT !.health = "stopped"]]
fail(exporter) == [exporter EXCEPT !.health = "failing"]

abandon ==
  LET given == [tel EXCEPT !.retries = 0, !.abandoned = @ + 1]
  IN IF given.abandoned >= MAX_ABANDONED_BATCHES THEN stop_policy(given)
     ELSE [next |-> "drop", tel |-> fail(given)]

retry_policy ==
  IF tel.retries >= MAX_RETRIES THEN abandon
  ELSE [next |-> "retry", tel |-> fail([tel EXCEPT !.retries = @ + 1])]

decide(outcome) ==
  CASE ~enabled -> stop_policy(tel)
    [] enabled /\ outcome = "accepted" ->
         [next |-> "done", tel |-> [tel EXCEPT !.health = "working", !.refreshed_after_401 = FALSE,
                                               !.retries = 0, !.abandoned = 0]]
    [] enabled /\ outcome = "401" ->
         IF tel.refreshed_after_401 THEN stop_policy(tel)
         ELSE [next |-> "refresh", tel |-> fail([tel EXCEPT !.refreshed_after_401 = TRUE])]
    [] enabled /\ outcome = "unavailable" -> retry_policy
    [] OTHER -> abandon

\* Only the token that was refused is aged: the page may have refreshed since.
mark_token_stale ==
  telToken' = IF telToken.state = "current" /\ telToken.number = telSending[3]
              THEN [telToken EXCEPT !.state = "stale"] ELSE telToken

\* The answer to a batch: on to the next one, or park this one for a later flush.
answered_batch(outcome) ==
  /\ telSending # <<>>
  /\ telCount < TelMaxItems
  /\ telCount' = telCount + 1
  /\ LET decision == decide(outcome)
         outcomes ==
           CASE decision.next \in {"done", "drop"} -> Turn(decision.tel, telTimers)
             [] decision.next \in {"retry", "refresh"} ->
                  park(decision.tel, telTimers, SubSeq(telSending, 1, 2))
             [] OTHER -> {stop_flushing(Cleared(decision.tel), telTimers)}
     IN /\ \E turn \in outcomes : Flushed(turn)
        /\ IF decision.next = "refresh" THEN mark_token_stale ELSE UNCHANGED telToken
  /\ UNCHANGED <<telAction, telExit>>

----------------------------------------------------------------------------
\* unload_batches: one budget for everything, the retried batch first if it fits.
unload_batches ==
  LET held == IF tel.pending # <<>> THEN tel.pending[2] ELSE <<>>
      fits == tel.pending # <<>> /\ total_bytes(held) <= MAX_UNLOAD_BATCH_BYTES
      Start == [tel |-> IF fits THEN [tel EXCEPT !.pending = <<>>] ELSE tel,
                budget |-> MAX_UNLOAD_BATCH_BYTES - (IF fits THEN total_bytes(held) ELSE 0),
                out |-> [s \in {"logs", "traces"} |-> IF fits /\ tel.pending[1] = s THEN held ELSE <<>>]]
      Take(acc, s) ==
        LET items == acc.tel.buffer[s]
            most == MAX_BATCH_ITEMS - Len(acc.out[s])
        IN IF acc.budget = 0 \/ most <= 0 \/ items = <<>> \/ Head(items) > acc.budget THEN acc
           ELSE [tel |-> [acc.tel EXCEPT !.buffer[s] = AfterBatch(items, most, acc.budget)],
                 budget |-> acc.budget - total_bytes(take_batch(items, most, acc.budget)),
                 out |-> [acc.out EXCEPT ![s] = @ \o take_batch(items, most, acc.budget)]]
  IN FoldLeft(Take, Start, Signals)

\* The page is hidden: it may go, or come back.
flush_on_exit ==
  /\ current_token /\ enabled
  /\ tel' = unload_batches.tel
  /\ telExit' = <<unload_batches.out["logs"], unload_batches.out["traces"]>>
  /\ UNCHANGED <<telTimers, telSending, telToken, telAction, telRefused, telCount>>

----------------------------------------------------------------------------
\* The session around it: WebSession says when its tokens change, and that a refresh
\* answered after logout fills the slot again.

discard ==
  /\ telToken' = [telToken EXCEPT !.state = "none"]
  /\ telToken.state # "none"
  /\ tel' = Cleared(tel)
  /\ UNCHANGED <<telTimers, telSending, telAction, telExit, telRefused, telCount>>

TokenMoves(from, to) ==
  /\ telToken.state = from
  /\ telToken' = [telToken EXCEPT !.state = to, !.number = IF to = "current" /\ @ < 2 THEN @ + 1 ELSE @]
  /\ UNCHANGED <<tel, telTimers, telSending, telAction, telExit, telRefused, telCount>>

TelNext ==
  \/ begin_call
  \/ \E size \in TelSizes : end_call(size)
  \/ \E size \in TelSizes : end_action(size)
  \/ gather_wait
  \/ flush
  \/ \E outcome \in {"accepted", "401", "unavailable", "refused"} : answered_batch(outcome)
  \/ flush_on_exit
  \/ discard
  \/ \E move \in {<<"current", "stale">>, <<"stale", "taken">>, <<"taken", "current">>, <<"taken", "stale">>,
                     <<"none", "current">>} :
       TokenMoves(move[1], move[2])

----------------------------------------------------------------------------
\* Exporter.flushing: "A flush is scheduled or running; at most one of either
\* exists".  Whatever is buffered or parked therefore has a flush to come, unless
\* the browser refused the timer of it (schedule_flush: then it waits for the next
\* item or for the page to be hidden); the buffers stay within their bounds, no batch is parked over another, and what a
\* page sends as it leaves stays within one budget.
TelemetryIsNeverStranded ==
  /\ telTimers + (IF telSending = <<>> THEN 0 ELSE 1) = IF tel.flushing THEN 1 ELSE 0
  /\ tel.pending # <<>> \/ (\E s \in DOMAIN tel.buffer : tel.buffer[s] # <<>>)
       => tel.flushing \/ telRefused
  /\ telSending # <<>> => tel.pending = <<>>
  /\ \A s \in DOMAIN tel.buffer : /\ Len(tel.buffer[s]) <= MAX_BUFFERED_ITEMS
                                  /\ total_bytes(tel.buffer[s]) <= MAX_BUFFERED_BYTES
  /\ tel.retries <= MAX_RETRIES
  /\ total_bytes(FlattenSeq(telExit)) <= MAX_UNLOAD_BATCH_BYTES
  /\ \A i \in DOMAIN telExit : Len(telExit[i]) <= MAX_BATCH_ITEMS
=============================================================================
