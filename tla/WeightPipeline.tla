--------------------------- MODULE WeightPipeline ---------------------------
(***************************************************************************)
(* The chain in which NIXLCheckpointEngine (nixl_checkpoint_engine.py)     *)
(* passes new weights on: rank 0 is the trainer, every other rank reads    *)
(* buckets from the rank before it, gives them to its inference server and *)
(* offers them to the rank after it.  Each rank has two buffers, so that   *)
(* one bucket is read while the one before it is used.  A read is a remote *)
(* transfer that runs by itself between begin_read and wait_for_complete;  *)
(* it is the reader that tells the owner of the buffer that it is over.    *)
(*                                                                         *)
(* A buffer holds the number of a bucket, Empty, or Torn when some of it   *)
(* has been overwritten.                                                   *)
(***************************************************************************)
EXTENDS Integers, Sequences

CONSTANTS
  Last,     (* world_size - 1, the rank at the end of the chain *)
  Buckets   (* buckets that the weights fill *)

WeightPipelineAssumption == Last \in Nat \ {0} /\ Buckets \in Nat \ {0}

Rank == 0 .. Last
Receiver == 1 .. Last
Empty == 0
Torn == -1

VARIABLES
  pc,         (* where send_weights or _receive_weight_chunks of a rank is *)
  front,      (* which of its buffers is send_buf, 0 or 1 *)
  buf,        (* contents of the two buffers *)
  current,    (* the bucket in send_buf: metadata of the loop *)
  coming,     (* the bucket being read: next_metadata *)
  mail,       (* metadata messages to a rank: the bucket and the buffer to read it from *)
  offered,    (* the rank's last ReadableOperation has not completed *)
  xfer,       (* of a receiver: idle, running, over *)
  seen,       (* what was in the source when the transfer began *)
  from,       (* the buffer of the rank before that is being read *)
  delivered   (* buckets that a receiver's inference server was given *)

vars == <<pc, front, buf, current, coming, mail, offered, xfer, seen, from, delivered>>

Init ==
  /\ pc = [n \in Rank |-> IF n = 0 THEN "fill" ELSE "first"]
  /\ front = [n \in Rank |-> 0]
  /\ buf = [n \in Rank |-> [b \in {0, 1} |-> Empty]]
  /\ current = [n \in Rank |-> IF n = 0 THEN 1 ELSE 0]
  /\ coming = [n \in Rank |-> 0]
  /\ mail = [n \in Rank |-> <<>>]
  /\ offered = [n \in Rank |-> FALSE]
  /\ xfer = [n \in Rank |-> "idle"]
  /\ seen = [n \in Rank |-> Empty]
  /\ from = [n \in Rank |-> 0]
  /\ delivered = [n \in Rank |-> <<>>]

Back(n) == 1 - front[n]

\* ReadableOperation: the next rank, if there is one, may read send_buf.
Offer(n) ==
  /\ mail' = IF n = Last THEN mail
             ELSE [mail EXCEPT ![n + 1] = Append(@, [bucket |-> current[n], buffer |-> front[n]])]
  /\ offered' = [offered EXCEPT ![n] = n # Last]

Swap(n) == front' = [front EXCEPT ![n] = 1 - @]

\* metadata["is_last"]
IsLast(n) == current[n] = Buckets

-----------------------------------------------------------------------------
(* send_weights of rank 0. *)

\* The chunks of a bucket are copied into send_buf without waiting for the copies.
Fill ==
  /\ pc[0] = "fill"
  /\ buf' = [buf EXCEPT ![0][front[0]] = Torn]
  /\ pc' = [pc EXCEPT ![0] = "filling"]
  /\ UNCHANGED <<front, current, coming, mail, offered, xfer, seen, from, delivered>>

\* torch.cuda.synchronize
Filled ==
  /\ pc[0] = "filling"
  /\ buf' = [buf EXCEPT ![0][front[0]] = current[0]]
  /\ pc' = [pc EXCEPT ![0] = "offer"]
  /\ UNCHANGED <<front, current, coming, mail, offered, xfer, seen, from, delivered>>

\* Mutant: the sender does not wait for the bucket before to be read.
MayOfferSoon(n) == TRUE

MayOffer(n) == ~offered[n]

\* wait_for_complete of the bucket before, then the offer of this one.
Send ==
  /\ pc[0] = "offer"
  /\ MayOffer(0)
  /\ Offer(0)
  /\ IF IsLast(0)
       THEN /\ pc' = [pc EXCEPT ![0] = "wait"]
            /\ UNCHANGED <<front, current>>
       ELSE /\ Swap(0)
            /\ current' = [current EXCEPT ![0] = @ + 1]
            /\ pc' = [pc EXCEPT ![0] = "fill"]
  /\ UNCHANGED <<buf, coming, xfer, seen, from, delivered>>

Sent ==
  /\ pc[0] = "wait"
  /\ ~offered[0]
  /\ pc' = [pc EXCEPT ![0] = "done"]
  /\ UNCHANGED <<front, buf, current, coming, mail, offered, xfer, seen, from, delivered>>

-----------------------------------------------------------------------------
(* _receive_weight_chunks of the other ranks. *)

Into(n) == Back(n)

\* read_metadata and begin_read.
BeginRead(n) ==
  /\ pc[n] \in {"first", "meta"}
  /\ mail[n] # <<>>
  /\ LET m == Head(mail[n])
     IN  /\ coming' = [coming EXCEPT ![n] = m.bucket]
         /\ from' = [from EXCEPT ![n] = m.buffer]
         /\ seen' = [seen EXCEPT ![n] = buf[n - 1][m.buffer]]
  /\ mail' = [mail EXCEPT ![n] = Tail(@)]
  /\ buf' = [buf EXCEPT ![n][Into(n)] = Torn]
  /\ xfer' = [xfer EXCEPT ![n] = "running"]
  /\ pc' = [pc EXCEPT ![n] = IF @ = "first" THEN "wait" ELSE "yield"]
  /\ UNCHANGED <<front, current, offered, delivered>>

\* get_notification: the notify_key comes back to the rank that offered the bucket.
Notify(n) == [offered EXCEPT ![n - 1] = FALSE]

\* The transfer ends; what it read is whole if its source did not change meanwhile.  The owner of
\* the source is notified.
EndRead(n) ==
  /\ xfer[n] = "running"
  /\ xfer' = [xfer EXCEPT ![n] = "over"]
  /\ buf' = [buf EXCEPT ![n][Into(n)] = IF buf[n - 1][from[n]] = seen[n] THEN seen[n] ELSE Torn]
  /\ offered' = Notify(n)
  /\ UNCHANGED <<pc, front, current, coming, mail, seen, from, delivered>>

AfterOffer(n) == IF IsLast(n) THEN "yield" ELSE "meta"

\* The bucket in send_buf is offered to the next rank.
Publish(n) ==
  /\ pc[n] = "publish"
  /\ Offer(n)
  /\ pc' = [pc EXCEPT ![n] = AfterOffer(n)]
  /\ UNCHANGED <<front, buf, current, coming, xfer, seen, from, delivered>>

\* The tensors of send_buf are yielded to the inference server.
Yield(n) ==
  /\ pc[n] = "yield"
  /\ delivered' = [delivered EXCEPT ![n] = Append(@, buf[n][front[n]])]
  /\ pc' = [pc EXCEPT ![n] = "wait"]
  /\ UNCHANGED <<front, buf, current, coming, mail, offered, xfer, seen, from>>

\* The next rank has read send_buf, and the read of this rank is complete.
WaitOver(n) ==
  /\ ~offered[n]
  /\ IsLast(n) \/ xfer[n] = "over"

\* After both waits the buffers are swapped; after the last bucket the rank is done.
Advance(n) ==
  /\ pc[n] = "wait"
  /\ WaitOver(n)
  /\ IF IsLast(n)
       THEN /\ pc' = [pc EXCEPT ![n] = "done"]
            /\ UNCHANGED <<front, current, xfer>>
       ELSE /\ Swap(n)
            /\ current' = [current EXCEPT ![n] = coming[n]]
            /\ xfer' = [xfer EXCEPT ![n] = "idle"]
            /\ pc' = [pc EXCEPT ![n] = "publish"]
  /\ UNCHANGED <<buf, coming, mail, offered, seen, from, delivered>>

ReceiverStep(n) == BeginRead(n) \/ EndRead(n) \/ Publish(n) \/ Yield(n) \/ Advance(n)

Done == /\ \A n \in Rank : pc[n] = "done"
        /\ UNCHANGED vars

Next == Fill \/ Filled \/ Send \/ Sent \/ (\E n \in Receiver : ReceiverStep(n)) \/ Done

Spec == Init /\ [][Next]_vars

\* Copies, transfers and the coroutines that wait for them go on.
LiveSpec == /\ Spec
            /\ WF_vars(Fill \/ Filled \/ Send \/ Sent)
            /\ \A n \in Receiver : WF_vars(ReceiverStep(n))

-----------------------------------------------------------------------------
TypeOK ==
  /\ pc \in [Rank -> {"fill", "filling", "offer", "first", "meta", "publish", "yield", "wait", "done"}]
  /\ front \in [Rank -> {0, 1}]
  /\ buf \in [Rank -> [{0, 1} -> -1 .. Buckets]]
  /\ current \in [Rank -> 0 .. Buckets]
  /\ coming \in [Rank -> 0 .. Buckets]
  /\ mail \in [Rank -> Seq([bucket : 1 .. Buckets, buffer : {0, 1}])]
  /\ offered \in [Rank -> BOOLEAN]
  /\ xfer \in [Rank -> {"idle", "running", "over"}]
  /\ seen \in [Rank -> -1 .. Buckets]
  /\ from \in [Rank -> {0, 1}]
  /\ delivered \in [Rank -> Seq(-1 .. Buckets)]

\* Every inference server is given the buckets in order, each one whole.
InOrder == \A n \in Receiver : \A i \in 1 .. Len(delivered[n]) : delivered[n][i] = i

\* No rank writes to a buffer that the next rank may read: what it offers stays as it was offered.
OffersStand ==
  \A n \in 0 .. Last - 1 :
    /\ \A i \in 1 .. Len(mail[n + 1]) : buf[n][mail[n + 1][i].buffer] = mail[n + 1][i].bucket
    /\ xfer[n + 1] = "running" => buf[n][from[n + 1]] = coming[n + 1]

\* The pipeline stays short: an inference server is at most three buckets ahead of the next rank's
\* (the two buffers and the bucket that is being read), whatever the speed of either.
Depth == \A n \in 1 .. Last - 1 : Len(delivered[n]) <= Len(delivered[n + 1]) + 3

\* All weights arrive at every rank.
Arrives == <>(\A n \in Receiver : Len(delivered[n]) = Buckets /\ pc[n] = "done")
=============================================================================
