---------------------------- MODULE ProcessOutput ----------------------------
(***************************************************************************)
(* The sessions of the process manager (src/src/process-manager.ts) and    *)
(* their output (src/src/process-output-buffer.ts): admission, the indexed *)
(* buffer of each session, the budgets per session and in total, and the   *)
(* clients that page through the output or wait for it.                    *)
(*                                                                         *)
(* Everything here runs on the one Node thread, so an action is a whole    *)
(* callback. A client that a callback wakes continues in a microtask:      *)
(* before any other callback (Settled). A unit of size stands for 8 KiB.   *)
(***************************************************************************)
EXTENDS Integers, Sequences, SequencesExt

CONSTANTS
  Sessions,      \* sessions the server may start
  Followed,      \* the sessions that a client reads
  ChunkSize,     \* OUTPUT_CHUNK_BYTES
  MaxRetained,   \* maxRetainedOutputBytes
  MaxTotal,      \* maxTotalRetainedOutputBytes
  MaxProcesses,  \* maxProcesses
  MaxRunning,    \* maxRunningProcesses
  MaxRead,       \* maxReadOutputBytes
  ReadSizes,     \* the maxOutputBytes that clients ask for
  CompactHead,   \* COMPACT_HEAD_THRESHOLD
  EventSizes,    \* sizes of the "data" events
  MaxEvents      \* bound: "data" events

ASSUME OutputAssumption ==
  /\ Followed \subseteq Sessions
  /\ ChunkSize \in Nat \ {0} /\ CompactHead \in Nat \ {0}
  /\ MaxRetained \in Nat /\ MaxTotal \in Nat
  /\ MaxProcesses \in Nat \ {0} /\ MaxRunning \in 1..MaxProcesses
  /\ MaxRead \in Nat /\ ReadSizes \subseteq Nat
  /\ EventSizes \subseteq Nat \ {0} /\ MaxEvents \in Nat

VARIABLES
  status,   \* of each session: not started, in #processes, forgotten
  ended,    \* the managed sessions with an endedAt, in its order
  running,  \* #runningProcesses
  store,    \* the buffers, #retainedOutputBytes and #outputRecency
  pending,  \* pendingOutput: what may still become a UTF-8 sequence
  total,    \* totalOutputBytes
  fired,    \* the "error" and "close" events of each child
  waiter,   \* what the client of each session waits for
  cursor,   \* the nextSeq it was last answered
  seen,     \* the chunks it was sent since it last started at 0 (history)
  touched,  \* sessions by the last callback about their output (history)
  events    \* "data" events so far

vars == <<status, ended, running, store, pending, total, fired,
          waiter, cursor, seen, touched, events>>

Streams == {"stdout", "stderr"}

Managed      == {s \in Sessions : status[s] = "managed"}
IsRunning(s) == s \in Managed /\ ~ Contains(ended, s)

Minus(a, b) == Max({0, a - b})

\* The elements of seq at the positions of a set, and those outside another.
Kept(seq, positions) ==
  LET kept[i \in 0..Len(seq)] ==
        IF i = 0 THEN <<>>
        ELSE IF i \in positions THEN Append(kept[i - 1], seq[i]) ELSE kept[i - 1]
  IN  kept[Len(seq)]

Without(seq, gone) == Kept(seq, {i \in 1..Len(seq) : seq[i] \notin gone})

SizeOf(chunks) ==
  LET sum[i \in 0..Len(chunks)] == IF i = 0 THEN 0 ELSE sum[i - 1] + chunks[i].size
  IN  sum[Len(chunks)]

(***************************************************************************)
(* IndexedProcessOutputBuffer                                              *)
(***************************************************************************)
EmptyBuffer == [chunks |-> <<>>, head |-> 0, base |-> 1, next |-> 1, retained |-> 0, dropped |-> 0]

Appended(b, sizes) ==
  LET new == [i \in DOMAIN sizes |-> [seq |-> b.next + i - 1, size |-> sizes[i]]]
  IN  [b EXCEPT !.chunks = @ \o new, !.next = @ + Len(new), !.retained = @ + SizeOf(new)]

Live(b) == SubSeq(b.chunks, b.head + 1, Len(b.chunks))

Compacted(b) ==
  IF b.head = 0 THEN b
  ELSE IF b.head = Len(b.chunks) THEN [b EXCEPT !.chunks = <<>>, !.head = 0, !.base = b.next]
  ELSE IF b.head >= CompactHead \/ b.head * 2 >= Len(b.chunks)
       THEN [b EXCEPT !.chunks = Live(b), !.head = 0]
       ELSE b

\* Drops chunks from the head until at most limit is retained.
TrimTo(b, limit) ==
  LET size(k) == SizeOf(SubSeq(Live(b), 1, k))
      k       == Min({j \in 0..Len(Live(b)) : b.retained - size(j) <= limit \/ j = Len(Live(b))})
  IN  Compacted([b EXCEPT !.head = @ + k,
                          !.base = IF k = 0 THEN @ ELSE Live(b)[k].seq + 1,
                          !.retained = @ - size(k), !.dropped = @ + size(k)])

NothingAfter(after) == [chunks |-> <<>>, nextSeq |-> after, hasMore |-> FALSE]

SelectAfter(b, after, limit) ==
  LET requested == Max({after + 1, b.base})
      rest      == SubSeq(b.chunks, b.head + (requested - b.base) + 1, Len(b.chunks))
      n         == Max({j \in 0..Len(rest) : SizeOf(SubSeq(rest, 1, j)) <= limit})
  IN  IF b.head >= Len(b.chunks) \/ b.next <= after + 1 \/ requested >= b.next
      THEN NothingAfter(after)
      ELSE [chunks |-> SubSeq(rest, 1, n), hasMore |-> n < Len(rest),
            nextSeq |-> IF n = 0 THEN after ELSE rest[n].seq]

(***************************************************************************)
(* The accounting of ProcessManager over all buffers: functions of store.  *)
(***************************************************************************)
\* Mutant: an event is stored as one chunk.
Split(n) ==
  [i \in 1..((n + ChunkSize - 1) \div ChunkSize) |-> Min({ChunkSize, n - (i - 1) * ChunkSize})]

Touched(st, s) ==
  [st EXCEPT !.recency = LET others == Without(@, {s})
                         IN  IF st.buffer[s].retained > 0 THEN Append(others, s) ELSE others]

Stored(st, s, sizes) ==
  LET b == Appended(st.buffer[s], sizes)
  IN  Touched([st EXCEPT !.buffer[s] = b, !.retained = @ + (b.retained - st.buffer[s].retained)], s)

Trimmed(st, s, limit) ==
  LET b == TrimTo(st.buffer[s], limit)
  IN  Touched([st EXCEPT !.buffer[s] = b,
                         !.retained = Minus(@, st.buffer[s].retained - b.retained)], s)

\* One session of the loop over the least recent.
TrimmedToTotal(st, s) ==
  IF st.retained <= MaxTotal THEN st
  ELSE Trimmed(st, s, Minus(st.buffer[s].retained, st.retained - MaxTotal))

\* The loop ends with the first session it trims in part: each is met once.
TrimTotal(st) ==
  LET trim[i \in 0..Len(st.recency)] ==
        IF i = 0 THEN st ELSE TrimmedToTotal(trim[i - 1], st.recency[i])
  IN  trim[Len(st.recency)]

TrimRetained(st, s) == TrimTotal(Trimmed(st, s, MaxRetained))

FlushPending(st, s) ==
  LET out == Stored(st, s, Split(pending[s].stdout))
      err == Stored(IF pending[s].stdout = 0 THEN st ELSE out, s, Split(pending[s].stderr))
  IN  TrimRetained(IF pending[s].stderr > 0 THEN err
                   ELSE IF pending[s].stdout > 0 THEN out ELSE st, s)

RetainedBy(st, S) == SumFunctionOnSet([s \in S |-> st.buffer[s].retained], S)

\* Mutant: the total still counts the output of a forgotten session.
MutantKeepsTotal(st, gone) ==
  [buffer   |-> [s \in Sessions |-> IF s \in gone THEN EmptyBuffer ELSE st.buffer[s]],
   retained |-> st.retained,
   recency  |-> Without(st.recency, gone)]

ForgetOutput(st, gone) ==
  [buffer   |-> [s \in Sessions |-> IF s \in gone THEN EmptyBuffer ELSE st.buffer[s]],
   retained |-> Minus(st.retained, RetainedBy(st, gone)),
   recency  |-> Without(st.recency, gone)]

(***************************************************************************)
(* Sessions                                                                *)
(***************************************************************************)
Idle == "idle"

Init ==
  /\ status = [s \in Sessions |-> "new"]
  /\ ended = <<>> /\ running = 0
  /\ store = [buffer |-> [s \in Sessions |-> EmptyBuffer], retained |-> 0, recency |-> <<>>]
  /\ pending = [s \in Sessions |-> [stdout |-> 0, stderr |-> 0]]
  /\ total = [s \in Sessions |-> 0]
  /\ fired = [s \in Sessions |-> {}]
  /\ waiter = [s \in Sessions |-> Idle]
  /\ cursor = [s \in Sessions |-> 0]
  /\ seen = [s \in Sessions |-> {}]
  /\ touched = <<>> /\ events = 0

Settled == \A s \in Sessions : waiter[s] # "woken"

\* A client whose session is forgotten is answered process_session_unknown.
Forget(gone) ==
  /\ ended' = Without(ended, gone)
  /\ store' = ForgetOutput(store, gone)
  /\ pending' = [s \in Sessions |-> IF s \in gone THEN [stdout |-> 0, stderr |-> 0] ELSE pending[s]]
  /\ total' = [s \in Sessions |-> IF s \in gone THEN 0 ELSE total[s]]
  /\ fired' = [s \in Sessions |-> IF s \in gone THEN {} ELSE fired[s]]
  /\ cursor' = [s \in Sessions |-> IF s \in gone THEN 0 ELSE cursor[s]]
  /\ seen' = [s \in Sessions |-> IF s \in gone THEN {} ELSE seen[s]]
  /\ touched' = Without(touched, gone)

Oldest(n) == {ended[i] : i \in 1..n}

\* prune() forgets the expired, makeCapacity() the oldest until one more fits.
Evicted(expired) ==
  LET needed == Minus(Cardinality(Managed) + 1, MaxProcesses)
  IN  Oldest(Min({Len(ended), Max({expired, needed})}))

Admitted(gone) ==
  /\ Cardinality(Managed \ gone) < MaxProcesses
  /\ running < MaxRunning

\* A refused start has evicted all the same.
Start(s) ==
  /\ Settled
  /\ status[s] = "new"
  /\ \E expired \in 0..Len(ended) :
       LET gone == Evicted(expired)
       IN  /\ Forget(gone)
           /\ status' = [t \in Sessions |-> IF t \in gone THEN "forgotten"
                                            ELSE IF t = s /\ Admitted(gone) THEN "managed"
                                            ELSE status[t]]
           /\ running' = IF Admitted(gone) THEN running + 1 ELSE running
  /\ UNCHANGED <<waiter, events>>

\* The retention timers and the cleanup interval.
Prune ==
  /\ Settled
  /\ \E expired \in 1..Len(ended) :
       /\ Forget(Oldest(expired))
       /\ status' = [t \in Sessions |-> IF t \in Oldest(expired) THEN "forgotten" ELSE status[t]]
  /\ UNCHANGED <<running, waiter, events>>

\* Mutant: the end of a session does not run its exitWaiters.
MutantNoExitWaiters(s, waits) ==
  IF waiter[s] \in waits \ {"terminal"} THEN [waiter EXCEPT ![s] = "woken"] ELSE waiter

Woken(s, waits) == IF waiter[s] \in waits THEN [waiter EXCEPT ![s] = "woken"] ELSE waiter

TouchedLast(s) == Append(Without(touched, {s}), s)

\* A "data" event; its last unit may be an incomplete UTF-8 sequence.
Data(s, stream, size) ==
  /\ Settled
  /\ s \in Managed /\ fired[s] = {} /\ events < MaxEvents
  /\ events' = events + 1
  /\ total' = [total EXCEPT ![s] = @ + size]
  /\ \E tail \in {0, 1} :
       /\ pending' = [pending EXCEPT ![s][stream] = tail]
       /\ store' = TrimRetained(Stored(store, s, Split(pending[s][stream] + size - tail)), s)
  /\ touched' = TouchedLast(s)
  /\ waiter' = Woken(s, {"output"})
  /\ UNCHANGED <<status, ended, running, fired, cursor, seen>>

StdinError(s) ==
  /\ Settled
  /\ waiter[s] = "output"
  /\ waiter' = Woken(s, {"output"})
  /\ UNCHANGED <<status, ended, running, store, pending, total, fired, cursor, seen, touched, events>>

\* Mutant: a "close" after an "error" ends the session again.
AlreadyEnded(s) == Contains(ended, s)

\* #finish: on "error" when the spawn failed, and on "close".
Finish(s, event) ==
  /\ Settled
  /\ s \in Managed /\ event \notin fired[s] /\ "close" \notin fired[s]
  /\ fired' = [fired EXCEPT ![s] = @ \cup {event}]
  /\ IF AlreadyEnded(s)
     THEN UNCHANGED <<ended, running, store, pending, touched, waiter>>
     ELSE /\ store' = FlushPending(store, s)
          /\ pending' = [pending EXCEPT ![s] = [stdout |-> 0, stderr |-> 0]]
          /\ ended' = Append(ended, s)
          /\ running' = Minus(running, 1)
          /\ touched' = TouchedLast(s)
          /\ waiter' = Woken(s, {"output", "terminal"})
  /\ UNCHANGED <<status, total, cursor, seen, events>>

(***************************************************************************)
(* read(): a client of the session pages through its output.               *)
(***************************************************************************)
\* Mutant: a page may be smaller than a chunk.
MutantSmallPages(asked) == Min({asked, MaxRead})

PageLimit(asked) == Max({ChunkSize, Min({asked, MaxRead})})

SeqsOf(chunks) == {c.seq : c \in ToSet(chunks)}

\* Mutant: every page answers the latest sequence number.
MutantAnswersLatest(s, after, sent) ==
  \E asked \in ReadSizes :
    LET page == SelectAfter(store.buffer[s], after, PageLimit(asked))
    IN  /\ cursor' = [cursor EXCEPT ![s] = store.buffer[s].next - 1]
        /\ seen' = [seen EXCEPT ![s] = sent \cup SeqsOf(page.chunks)]

Deliver(s, after, sent) ==
  \E asked \in ReadSizes :
    LET page == SelectAfter(store.buffer[s], after, PageLimit(asked))
    IN  /\ cursor' = [cursor EXCEPT ![s] = page.nextSeq]
        /\ seen' = [seen EXCEPT ![s] = sent \cup SeqsOf(page.chunks)]

MustWait(s, after, mode) ==
  CASE mode = "output"   -> IsRunning(s) /\ store.buffer[s].next - 1 <= after
    [] mode = "terminal" -> IsRunning(s)
    [] OTHER             -> FALSE

\* A client goes on from its nextSeq, or reads again from 0.
Read(s, restart, mode) ==
  /\ Settled
  /\ s \in Managed \cap Followed /\ waiter[s] = Idle
  /\ LET after == IF restart THEN 0 ELSE cursor[s]
         sent  == IF restart THEN {} ELSE seen[s]
     IN  IF MustWait(s, after, mode)
         THEN /\ waiter' = [waiter EXCEPT ![s] = mode]
              /\ cursor' = [cursor EXCEPT ![s] = after]
              /\ seen' = [seen EXCEPT ![s] = sent]
         ELSE Deliver(s, after, sent) /\ UNCHANGED waiter
  /\ UNCHANGED <<status, ended, running, store, pending, total, fired, touched, events>>

\* The wait is over: an event, or waitMs has passed.
Resume(s) ==
  /\ IF waiter[s] = "woken" THEN TRUE ELSE Settled /\ waiter[s] # Idle
  /\ waiter' = [waiter EXCEPT ![s] = Idle]
  /\ Deliver(s, cursor[s], seen[s])
  /\ UNCHANGED <<status, ended, running, store, pending, total, fired, touched, events>>

\* The request is aborted: the client gets no page.
Abort(s) ==
  /\ Settled
  /\ waiter[s] # Idle
  /\ waiter' = [waiter EXCEPT ![s] = Idle]
  /\ UNCHANGED <<status, ended, running, store, pending, total, fired, cursor, seen, touched, events>>

Next ==
  \/ Prune
  \/ \E s \in Sessions :
       \/ Start(s) \/ StdinError(s) \/ Resume(s) \/ Abort(s)
       \/ \E stream \in Streams, size \in EventSizes : Data(s, stream, size)
       \/ \E event \in {"error", "close"} : Finish(s, event)
       \/ \E restart \in BOOLEAN, mode \in {"none", "output", "terminal"} : Read(s, restart, mode)

Spec == Init /\ [][Next]_vars

(***************************************************************************)
(* Properties                                                              *)
(***************************************************************************)
TypeOK ==
  /\ status \in [Sessions -> {"new", "managed", "forgotten"}]
  /\ ended \in Seq(Sessions) /\ running \in Nat
  /\ store.retained \in Nat /\ store.recency \in Seq(Sessions)
  /\ \A s \in Sessions :
       LET b == store.buffer[s]
       IN  /\ b.chunks \in Seq([seq : Nat, size : 1..ChunkSize])
           /\ b.head \in 0..Len(b.chunks) /\ b.base \in 1..b.next
           /\ b.retained \in Nat /\ b.dropped \in Nat
  /\ pending \in [Sessions -> [Streams -> {0, 1}]]
  /\ total \in [Sessions -> Nat]
  /\ fired \in [Sessions -> SUBSET {"error", "close"}]
  /\ waiter \in [Sessions -> {Idle, "output", "terminal", "woken"}]
  /\ cursor \in [Sessions -> Nat] /\ seen \in [Sessions -> SUBSET Nat]
  /\ touched \in Seq(Sessions) /\ events \in 0..MaxEvents

\* The counter that admits commands equals the sessions that have not ended,
\* whatever events a child fires and whatever start() evicts, and both limits
\* hold.
CountsAreExact ==
  /\ running = Cardinality({s \in Sessions : IsRunning(s)}) /\ running <= MaxRunning
  /\ Cardinality(Managed) <= MaxProcesses
  /\ IsInjective(ended) /\ ToSet(ended) \subseteq Managed

\* Every byte a child wrote is retained, dropped or pending, and pending only
\* while it runs; what the manager believes it retains in total is what the
\* buffers of its sessions hold, within both budgets; and the sessions that
\* hold output are exactly those the eviction can reach, while the counts stay exact.
OutputAccounting ==
  /\ TypeOK /\ CountsAreExact
  /\ \A s \in Managed :
       LET b == store.buffer[s]
       IN  /\ b.retained = SizeOf(Live(b)) /\ b.retained <= MaxRetained
           /\ total[s] = b.retained + b.dropped + pending[s].stdout + pending[s].stderr
           /\ ~ IsRunning(s) => pending[s] = [stdout |-> 0, stderr |-> 0]
  /\ store.retained = RetainedBy(store, Managed) /\ store.retained <= MaxTotal
  /\ IsInjective(store.recency)
  /\ ToSet(store.recency) = {s \in Managed : store.buffer[s].retained > 0}

\* The offset arithmetic of selectAfter(), with a head and a base that trims
\* and compactions move, selects for every cursor the longest run of retained
\* chunks after it that fits, and a page that says hasMore is never empty: a
\* client that follows nextCall always advances.
SelectionIsExact ==
  \A s \in Managed : \A after \in 0..(store.buffer[s].next - 1), asked \in ReadSizes :
    LET live     == Live(store.buffer[s])
        retained == Kept(live, {i \in 1..Len(live) : live[i].seq > after})
        page     == SelectAfter(store.buffer[s], after, PageLimit(asked))
        n        == Len(page.chunks)
    IN  /\ page.chunks = SubSeq(retained, 1, n)
        /\ page.hasMore <=> n < Len(retained)
        /\ page.hasMore => n > 0 /\ SizeOf(SubSeq(retained, 1, n + 1)) > PageLimit(asked)

\* A client that follows nextSeq was sent every chunk up to its cursor, but
\* for those that the budgets had dropped, and never one beyond it.
NothingSkipped ==
  \A s \in Managed :
    LET b == store.buffer[s]
    IN  /\ \A q \in 1..cursor[s] : q \in seen[s] \/ q < b.base
        /\ \A q \in seen[s] : q <= cursor[s]
        /\ cursor[s] < b.next

\* No client waits for what has already happened: while one waits for output
\* there is none after its cursor, and the session it waits for is running.
NoLostWakeup ==
  \A s \in Sessions :
    /\ waiter[s] \in {"output", "terminal"} => IsRunning(s)
    /\ waiter[s] = "output" => store.buffer[s].next - 1 <= cursor[s]

\* test/process-manager.test.ts:230 "evicts least-recent process output when
\* the global retained budget is exceeded": another session loses output to
\* the total budget only if no session that was touched before it retains any.
EvictsLeastRecent ==
  [][\A i \in 1..(Len(touched') - 1) :
       store'.buffer[touched'[i]].dropped > store.buffer[touched'[i]].dropped =>
         \A j \in 1..(i - 1) : store'.buffer[touched'[j]].retained = 0]_vars

=============================================================================
