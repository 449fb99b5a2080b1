----------------------------- MODULE BufferPool -----------------------------
(***************************************************************************)
(* BufferPool.cpp: the buffers that the objects of all graphs write to and *)
(* read from.  A buffer is reserved with the number of its readers, which  *)
(* release it one by one while the process order is computed; then it is   *)
(* available for what runs later.                                          *)
(*                                                                         *)
(* The counts are unsigned.  One that is released too often wraps around;  *)
(* here it goes below zero, and the comparison with zero is the equality   *)
(* that it is for unsigned numbers.                                        *)
(***************************************************************************)
EXTENDS Integers, Sequences, SequencesExt, FiniteSets, TLC

NoBuffer == -1  \* NULL
zeroBuffer == 0 \* the buffer of silence, which the pool does not count

\* available is a stack whose top is last; reserved has the count of each.
EmptyPool == [available |-> <<>>, reserved |-> <<>>]

NumTotalBuffers(pool) ==
    Len(pool.available) + Cardinality(DOMAIN pool.reserved)

\* The buffer that getBuffer gives out: one from the top, or a new one.
NextBuffer(pool) ==
    IF pool.available = <<>> THEN NumTotalBuffers(pool) + 1
    ELSE Last(pool.available)

GetBuffer(pool, numDependencies) ==
    [available |-> IF pool.available = <<>> THEN <<>>
                   ELSE Front(pool.available),
     reserved |-> (NextBuffer(pool) :> numDependencies) @@ pool.reserved]

\* Mistaken: the count is looked at before it is reduced.
ReleaseBufferLate(pool, buffer) ==
    IF buffer \notin DOMAIN pool.reserved THEN pool
    ELSE IF pool.reserved[buffer] = 0
    THEN [available |-> Append(pool.available, buffer),
          reserved |-> [b \in DOMAIN pool.reserved \ {buffer} |->
                            pool.reserved[b]]]
    ELSE [pool EXCEPT !.reserved[buffer] = @ - 1]

\* Buffers that the pool does not track are left alone.
ReleaseBuffer(pool, buffer) ==
    IF buffer \notin DOMAIN pool.reserved THEN pool
    ELSE IF pool.reserved[buffer] - 1 = 0
    THEN [available |-> Append(pool.available, buffer),
          reserved |-> [b \in DOMAIN pool.reserved \ {buffer} |->
                            pool.reserved[b]]]
    ELSE [pool EXCEPT !.reserved[buffer] = @ - 1]

\* Mistaken: the further readers replace those there were.
ReserveBufferAnew(pool, buffer, reserveCount) ==
    IF buffer \notin DOMAIN pool.reserved THEN pool
    ELSE [pool EXCEPT !.reserved[buffer] = reserveCount]

\* Further readers of a buffer that is reserved.
ReserveBuffer(pool, buffer, reserveCount) ==
    IF buffer \notin DOMAIN pool.reserved THEN pool
    ELSE [pool EXCEPT !.reserved[buffer] = @ + reserveCount]

=============================================================================
