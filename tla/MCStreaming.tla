----------------------------- MODULE MCStreaming -----------------------------
(***************************************************************************)
(* Small instances of Streaming for TLC: batches of two with a limit of    *)
(* three records, batches of one, and the sizes of 0 the type allows.      *)
(***************************************************************************)
EXTENDS Streaming, SequencesExt

Of(batch, limit, flush) ==
    [batch_size |-> batch, limit |-> limit, flush_interval |-> flush]

SmallConfigs == {Of(2, 3, 3), Of(1, 1, 1), Of(0, 1, 1), Of(2, 3, 0)}

SmallInputs == BoundedSeq({-1, 2}, 2)

=============================================================================
