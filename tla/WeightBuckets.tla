---------------------------- MODULE WeightBuckets ----------------------------
(***************************************************************************)
(* How weights are packed.  split_weight_chunks (checkpoint_engine/base.py)*)
(* cuts them into chunks that send_weights puts into buckets, and          *)
(* merge_weight_chunks puts them together on the other side.  There        *)
(* BucketedWeightSender packs them a second time, into the buffer that it  *)
(* shares with the process of the inference engine; what is larger than    *)
(* that buffer is handed over by itself.                                   *)
(*                                                                         *)
(* A weight is its number in the order of the trainer, which has numel     *)
(* elements of item bytes.  What becomes of a bucket between send_weights  *)
(* and merge_weight_chunks is the subject of WeightPipeline.               *)
(***************************************************************************)
EXTENDS Integers, Sequences

CONSTANTS
  Numels,      (* numbers of elements of a weight *)
  Items,       (* bytes of an element *)
  BucketSize,  (* bucket_size of the checkpoint engine *)
  IpcSize,     (* bucket_size of BucketedWeightSender *)
  MaxWeights   (* weights of the model: a bound of the model *)

WeightBucketsAssumption ==
  /\ Numels \subseteq Nat \ {0}
  /\ Items \subseteq Nat \ {0}
  /\ BucketSize \in Nat \ {0}
  /\ IpcSize \in Nat \ {0}
  /\ MaxWeights \in Nat

VARIABLES
  weights,  (* what the generator has yielded *)
  cut,      (* chunk_offset in the last of them *)
  bucket,   (* bucket_meta of send_weights, in its order *)
  offset,   (* bytes in that bucket *)
  closed,   (* its last bucket has been sent *)
  arrived,  (* chunks of the bucket received that have not been merged *)
  merged,   (* merge_offset of a weight of several chunks, 0 if there is none *)
  ipc,      (* bucket_meta of async_send_weights: weights with their offsets *)
  ipcOffset,
  loaded,   (* weights that the engine was given, in its order *)
  over

senderVars == <<weights, cut, bucket, offset, closed>>
receiverVars == <<arrived, merged, ipc, ipcOffset, loaded, over>>
vars == <<senderVars, receiverVars>>

Init ==
  /\ weights = <<>> /\ cut = 0 /\ bucket = <<>> /\ offset = 0 /\ closed = FALSE
  /\ arrived = <<>> /\ merged = 0
  /\ ipc = <<>> /\ ipcOffset = 0 /\ loaded = <<>> /\ over = FALSE

Bytes(w) == weights[w].numel * weights[w].item

\* The generator yields its next weight.
Weight ==
  /\ ~closed
  /\ Len(weights) < MaxWeights
  /\ weights # <<>> => cut = Bytes(Len(weights))
  /\ \E n \in Numels, i \in Items : weights' = Append(weights, [numel |-> n, item |-> i])
  /\ cut' = 0
  /\ UNCHANGED <<bucket, offset, closed, receiverVars>>

ChunkLeft == weights # <<>> /\ cut < Bytes(Len(weights))

\* The chunk that split_weight_chunks yields next.
ChunkSize ==
  LET rest == Bytes(Len(weights)) - cut IN IF rest < BucketSize THEN rest ELSE BucketSize

Fits == offset + ChunkSize <= BucketSize

Add ==
  /\ ~closed
  /\ ChunkLeft
  /\ Fits
  /\ bucket' = Append(bucket, [weight |-> Len(weights), from |-> cut, size |-> ChunkSize, offset |-> offset])
  /\ offset' = offset + ChunkSize
  /\ cut' = cut + ChunkSize
  /\ UNCHANGED <<weights, closed, receiverVars>>

\* A full bucket is sent; the receiver reads the next one when it has merged all of this one.
Flush ==
  /\ ~closed
  /\ ChunkLeft
  /\ ~Fits
  /\ arrived = <<>>
  /\ arrived' = bucket
  /\ bucket' = <<>>
  /\ offset' = 0
  /\ UNCHANGED <<weights, cut, closed, merged, ipc, ipcOffset, loaded, over>>

FlushLast ==
  /\ ~closed
  /\ ~ChunkLeft
  /\ arrived = <<>>
  /\ arrived' = bucket
  /\ bucket' = <<>>
  /\ closed' = TRUE
  /\ UNCHANGED <<weights, cut, offset, merged, ipc, ipcOffset, loaded, over>>

-----------------------------------------------------------------------------
Names(entries) == [i \in 1 .. Len(entries) |-> entries[i].weight]

Overfull(w) == ipc # <<>> /\ ipcOffset + Bytes(w) > IpcSize

\* async_send_weights takes a weight: it sends the bucket if the weight does not fit any more; a
\* weight that is too large for an empty bucket is handed over by itself.
Give(w) ==
  LET Before == IF Overfull(w) THEN loaded \o Names(ipc) ELSE loaded
      Kept == IF Overfull(w) THEN <<>> ELSE ipc
      At == IF Overfull(w) THEN 0 ELSE ipcOffset
  IN  IF At + Bytes(w) > IpcSize
        THEN loaded' = Append(Before, w) /\ ipc' = Kept /\ ipcOffset' = At
        ELSE /\ loaded' = Before
             /\ ipc' = Append(Kept, [weight |-> w, offset |-> At])
             /\ ipcOffset' = At + Bytes(w)

\* The weight fits into a bucket, so that it is a single chunk.
Whole(c) == Bytes(c.weight) <= BucketSize

Complete(c) == c.from + c.size = Bytes(c.weight)

MergedAfter(c) == IF Whole(c) \/ Complete(c) THEN 0 ELSE merged + c.size

\* merge_weight_chunks takes the next chunk, and gives the weight on when it is complete.
Merge ==
  /\ arrived # <<>>
  /\ arrived' = Tail(arrived)
  /\ LET c == Head(arrived)
     IN  /\ merged' = MergedAfter(c)
         /\ IF Whole(c) \/ Complete(c) THEN Give(c.weight) ELSE UNCHANGED <<ipc, ipcOffset, loaded>>
  /\ UNCHANGED <<senderVars, over>>

\* Mutant: the loop over the weights ends without sending what is left.
RestLost == <<>>

Rest == Names(ipc)

\* async_send_weights sends what is left.
Finish ==
  /\ closed /\ arrived = <<>> /\ ~over
  /\ loaded' = loaded \o Rest
  /\ ipc' = <<>>
  /\ over' = TRUE
  /\ UNCHANGED <<senderVars, arrived, merged, ipcOffset>>

Next == Weight \/ Add \/ Flush \/ FlushLast \/ Merge \/ Finish

Spec == Init /\ [][Next]_vars

-----------------------------------------------------------------------------
Chunk == [weight : Nat, from : Nat, size : Nat, offset : Nat]

TypeOK ==
  /\ weights \in Seq([numel : Numels, item : Items])
  /\ cut \in Nat
  /\ bucket \in Seq(Chunk)
  /\ offset \in 0 .. BucketSize
  /\ closed \in BOOLEAN
  /\ arrived \in Seq(Chunk)
  /\ merged \in Nat
  /\ ipc \in Seq([weight : Nat, offset : Nat])
  /\ ipcOffset \in 0 .. IpcSize
  /\ loaded \in Seq(Nat)
  /\ over \in BOOLEAN

\* The chunks of a bucket lie side by side within it, and none is of the same weight as another:
\* bucket_meta is keyed by the name of the weight, and a second chunk would replace the first.
BucketSound ==
  \A s \in {bucket, arrived} : \A i \in 1 .. Len(s) :
    /\ s[i].offset + s[i].size <= BucketSize
    /\ i < Len(s) => s[i + 1].offset = s[i].offset + s[i].size
    /\ \A j \in 1 .. i - 1 : s[j].weight # s[i].weight

\* What merge_weight_chunks asserts of every chunk: it continues the weight that is being merged, or
\* begins one when none is.
MergeSound ==
  arrived # <<>> =>
    LET c == Head(arrived)
    IN  /\ c.from = merged
        /\ Whole(c) => c.size = Bytes(c.weight)

\* The engine is given the trainer's weights in their order, each once, as soon as it is complete.
InOrder == \A i \in 1 .. Len(loaded) : loaded[i] = i

\* Nothing stays behind in a bucket or half merged.
AllLoaded == over => Len(loaded) = Len(weights) /\ merged = 0

\* Every weight can be viewed as elements of its type at its place in the shared buffer.
Viewable == \A i \in 1 .. Len(ipc) : ipc[i].offset % weights[ipc[i].weight].item = 0
=============================================================================
