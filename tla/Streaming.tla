------------------------------ MODULE Streaming ------------------------------
(***************************************************************************)
(* Batch processing in crates/tools: a processor that feeds records to a   *)
(* caller's closure in chunks, from a slice or from an iterator; a loader  *)
(* that feeds them from a file; and an aggregator.  Only the number of     *)
(* records matters, except to the aggregator.                              *)
(*                                                                         *)
(* One object serves many calls, one after the other.  A closure may fail, *)
(* a file may not parse; the call returns early and the object is used     *)
(* again with what the failed call left in it.                             *)
(***************************************************************************)
EXTENDS Integers, Sequences, FiniteSetsExt, Functions

CONSTANTS
    Configs,             \* [batch_size, limit, flush_interval]: see Config
    Lengths,             \* records given to one call
    Inputs,              \* what the aggregator extracts from a call's records
    Idle,                \* no call in progress
    MaxCalls, MaxFed     \* bounds of the exploration

\* limit is max_memory_mb in records, of which a megabyte holds 1024.
Config == [batch_size : Nat, limit : Nat, flush_interval : Nat]

\* A call has this many records left of those it was given.
Call == [kind : {"stream", "iterator", "file"}, left : Nat, given : Nat]

ASSUME StreamingAssumption ==
    /\ Configs \subseteq Config
    /\ Lengths \subseteq Nat
    /\ Inputs \subseteq Seq(Int)
    /\ Idle \notin Call
    /\ MaxCalls \in Nat /\ MaxFed \in Nat

VARIABLES
    config,
    buffer,              \* records in the processor's buffer
    current,             \* stats.current_records
    total, batches,      \* stats.total_processed, stats.batches_processed
    peak,                \* stats.peak_memory_mb, in records
    call,                \* the call in progress
    returned,            \* how the last call returned
    accepted,            \* history: records the closure accepted in this call
    calls,               \* history
    sums,                \* the aggregator's count, sum, min and max
    fed                  \* history: what the aggregator was given

stats == <<current, total, batches, peak>>

processing == <<config, buffer, stats, call, returned, accepted, calls>>

aggregating == <<sums, fed>>

streamingVars == <<processing, aggregating>>

Least(m, n) == IF m < n THEN m ELSE n

Greatest(m, n) == IF m > n THEN m ELSE n

-----------------------------------------------------------------------------
(***************************************************************************)
(* Faulty variants, named F_...: each breaks a property below.  The        *)
(* specification uses none of them.                                        *)
(***************************************************************************)
F_NeverOver(n) == FALSE

F_WholeBatchesOnly(left) == left < Greatest(config.batch_size, 1)

F_ExtremesOfCall(acc, value) ==
    [count |-> acc.count + 1, sum |-> acc.sum + value,
     min |-> value, max |-> value]

-----------------------------------------------------------------------------
OverLimit(n) == n > config.limit

Exhausted(left) == left = 0

\* One record aggregated.  The first one replaces f64::MAX and f64::MIN.
Aggregated(acc, value) ==
    [count |-> acc.count + 1, sum |-> acc.sum + value,
     min |-> IF acc.count = 0 THEN value ELSE Least(acc.min, value),
     max |-> IF acc.count = 0 THEN value ELSE Greatest(acc.max, value)]

\* The records of a call one after the other.
AggregatedAll(acc, data) ==
    LET upTo[n \in 0..Len(data)] ==
            IF n = 0 THEN acc ELSE Aggregated(upTo[n - 1], data[n])
    IN  upTo[Len(data)]

StreamingInit ==
    /\ config \in Configs
    /\ buffer = 0
    /\ current = 0 /\ total = 0 /\ batches = 0 /\ peak = 0
    /\ call = Idle
    /\ returned = "never" /\ accepted = 0 /\ calls = 0
    /\ sums = [count |-> 0, sum |-> 0, min |-> 0, max |-> 0]
    /\ fed = << >>

\* process_stream, process_iterator or load_from_file, given n records.
Begin(kind, n) ==
    /\ call = Idle
    /\ returned # "panicked"
    /\ calls < MaxCalls
    /\ calls' = calls + 1
    /\ call' = [kind |-> kind, left |-> n, given |-> n]
    /\ accepted' = 0
    /\ UNCHANGED <<config, buffer, stats, returned, aggregating>>

Return(how) ==
    /\ returned' = how
    /\ call' = Idle

Chunk == Least(Greatest(config.batch_size, 1), call.left)

Advance ==
    /\ call' = [call EXCEPT !.left = @ - Chunk]
    /\ accepted' = accepted + Chunk

Counted ==
    /\ total' = total + Chunk
    /\ batches' = batches + 1

\* slice::chunks does not accept a size of 0.
StreamWithoutBatches ==
    /\ call # Idle /\ call.kind = "stream"
    /\ config.batch_size = 0
    /\ Return("panicked")
    /\ UNCHANGED <<config, buffer, stats, accepted, calls, aggregating>>

\* The closure accepts a chunk.  Its records have left the buffer when the
\* interval between flushes is applied; a flush finds nothing more to clear.
StreamChunk ==
    /\ call # Idle /\ call.kind = "stream"
    /\ ~Exhausted(call.left) /\ config.batch_size > 0
    /\ ~OverLimit(current)
    /\ Counted
    /\ buffer' = 0 /\ current' = 0
    /\ IF config.flush_interval = 0
       THEN Return("panicked") /\ accepted' = accepted + Chunk
       ELSE Advance /\ UNCHANGED returned
    /\ UNCHANGED <<config, peak, calls, aggregating>>

\* The closure rejects a chunk, which stays in the buffer.
StreamChunkRejected ==
    /\ call # Idle /\ call.kind = "stream"
    /\ ~Exhausted(call.left) /\ config.batch_size > 0
    /\ ~OverLimit(current)
    /\ buffer' = buffer + Chunk
    /\ current' = buffer + Chunk
    /\ Return("Err")
    /\ UNCHANGED <<config, total, batches, peak, accepted, calls, aggregating>>

FullBatch == Chunk >= config.batch_size

\* An iterator's batch is its own: the buffer is only flushed after it, and the
\* rest that does not fill a batch is neither checked nor flushed.
IteratorBatch ==
    /\ call # Idle /\ call.kind = "iterator"
    /\ ~Exhausted(call.left)
    /\ FullBatch => ~OverLimit(current)
    /\ Counted /\ Advance
    /\ IF FullBatch THEN buffer' = 0 /\ current' = 0
                    ELSE UNCHANGED <<buffer, current>>
    /\ UNCHANGED <<config, peak, returned, calls, aggregating>>

IteratorBatchRejected ==
    /\ call # Idle /\ call.kind = "iterator"
    /\ ~Exhausted(call.left)
    /\ FullBatch => ~OverLimit(current)
    /\ Return("Err")
    /\ UNCHANGED <<config, buffer, stats, accepted, calls, aggregating>>

MemoryLimitExceeded ==
    /\ call # Idle
    /\ \/ call.kind = "stream" /\ config.batch_size > 0
       \/ call.kind = "iterator" /\ FullBatch
    /\ ~Exhausted(call.left)
    /\ OverLimit(current)
    /\ Return("Err")
    /\ UNCHANGED <<config, buffer, stats, accepted, calls, aggregating>>

\* The loader's handler takes a batch, or refuses it, or a record before its
\* end does not parse and the ones read since the last batch are dropped.
LoadBatch ==
    /\ call # Idle /\ call.kind = "file"
    /\ ~Exhausted(call.left)
    /\ Advance
    /\ UNCHANGED <<config, buffer, stats, returned, calls, aggregating>>

LoadFails ==
    /\ call # Idle /\ call.kind = "file"
    /\ ~Exhausted(call.left)
    /\ Return("Err")
    /\ UNCHANGED <<config, buffer, stats, accepted, calls, aggregating>>

\* Every record was handed over; the processor measures its memory last.
Complete ==
    /\ call # Idle
    /\ call.kind = "stream" => config.batch_size > 0
    /\ Exhausted(call.left)
    /\ peak' = IF call.kind = "file" THEN peak ELSE Greatest(peak, current)
    /\ Return("Ok")
    /\ UNCHANGED <<config, buffer, current, total, batches, accepted, calls,
                   aggregating>>

\* aggregate, which carries its figures over from call to call.
Aggregate(data) ==
    /\ config.batch_size > 0
    /\ Len(fed) + Len(data) <= MaxFed
    /\ sums' = AggregatedAll(sums, data)
    /\ fed' = fed \o data
    /\ UNCHANGED processing

StreamingNext ==
    \/ \E kind \in {"stream", "iterator", "file"}, n \in Lengths : Begin(kind, n)
    \/ StreamWithoutBatches
    \/ StreamChunk \/ StreamChunkRejected
    \/ IteratorBatch \/ IteratorBatchRejected
    \/ MemoryLimitExceeded
    \/ LoadBatch \/ LoadFails
    \/ Complete
    \/ \E data \in Inputs : Aggregate(data)

StreamingSpec == StreamingInit /\ [][StreamingNext]_streamingVars

-----------------------------------------------------------------------------
(***************************************************************************)
(* Properties.                                                             *)
(***************************************************************************)

\* A call that returns Ok has handed over each of its records, the rest that
\* does not fill a batch included; one that fails has handed over whole batches
\* only, unless it was the rest that failed.
OkMeansEveryRecord ==
    [][call # Idle /\ call' = Idle =>
          /\ returned' = "Ok" => accepted = call.given
          /\ returned' = "Err" =>
                accepted % Greatest(config.batch_size, 1) = 0]_streamingVars

\* Chunks that fail pile up in the buffer over calls, to at most one batch more
\* than the limit; from then on the processor never accepts a whole batch again
\* and nothing empties its buffer.
OverLimitIsForever ==
    /\ [](buffer = current /\ current <= config.limit + config.batch_size)
    /\ [][OverLimit(current) =>
             /\ <<buffer, current>>' = <<buffer, current>>
             /\ total' - total < Greatest(config.batch_size, 1)]_streamingVars

\* The aggregator's figures are those of everything it was ever given, however
\* the calls divided it.
AggregatesEverything ==
    fed # << >> =>
        LET given == {fed[i] : i \in DOMAIN fed}
        IN  sums = [count |-> Len(fed),
                    sum   |-> SumFunction(fed),
                    min   |-> Min(given), max |-> Max(given)]

=============================================================================
