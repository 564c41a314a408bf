----------------------------- MODULE Attachments -----------------------------
(***************************************************************************)
(* Attachments over direct sessions (packages/client/src/attachments.ts):   *)
(* sendAttachment offers a freshly encrypted blob in a direct-only message  *)
(* and sends its chunks, and an AttachmentReceiver puts them together.      *)
(*                                                                          *)
(* The channel may close before the chunks are sent, or refuse one of them. *)
(* What was sent arrives, in any order, perhaps again, perhaps damaged.  A  *)
(* blob is the sequence of its pieces and stands for its own hash; the      *)
(* offer brings the hash, and the attachment id derived from it names the   *)
(* transfer.                                                                *)
(***************************************************************************)
EXTENDS Naturals, Sequences, FiniteSets, SequencesExt

CONSTANTS
  Offers,         \* calls of sendAttachment, each with a blob of its own
  Pieces,         \* pieces of a blob
  ChunkSizes,     \* in pieces
  Damage,         \* what a damaged chunk holds
  MaxMishaps      \* bound: closed channels, failed sends, bad chunks

ASSUME AttachmentAssumption ==
  Pieces \in Nat \ {0} /\ ChunkSizes \subseteq 1 .. Pieces /\ MaxMishaps \in Nat

VARIABLES
  open,         \* trySendDirect finds the session open
  sending,      \* [Offers -> "idle", "offered", "sent" or "failed"]
  chunkSize,
  flying,       \* chunks on their way
  transfers,    \* AttachmentReceiver.transfers, insertion order kept
  returned,     \* blobs handed to the application
  spoiled,      \* offers of which a chunk was damaged
  mishaps

attachmentVars == <<open, sending, chunkSize, flying, transfers, returned,
                    spoiled, mishaps>>
senderVars == <<open, sending, chunkSize>>

\* prepareAttachment: a fresh key makes a blob unlike any other.
Blob(o) == [i \in 1 .. Pieces |-> <<o, i>>]

TotalChunks(n) == (Pieces + n - 1) \div n

\* transferBlob's chunk at an index.
Chunk(o, n, i) ==
  [offer |-> o, index |-> i, total |-> TotalChunks(n),
   data  |-> SubSeq(Blob(o), i * n + 1,
                    IF (i + 1) * n < Pieces THEN (i + 1) * n ELSE Pieces)]

----------------------------------------------------------------------------
(* The sender.                                                              *)

\* sendAttachment up to transferBlob: the offer needs the direct session.
SendAttachment(o, n) ==
  /\ sending[o] = "idle"
  /\ sending' = [sending EXCEPT ![o] = IF open THEN "offered" ELSE "failed"]
  /\ chunkSize' = [chunkSize EXCEPT ![o] = n]
  /\ UNCHANGED <<open, flying, transfers, returned, spoiled, mishaps>>

\* transferBlob, whose loop does not wait: all chunks, or those before a send
\* that failed.
TransferBlob(o, sent) ==
  LET n == chunkSize[o]
      total == TotalChunks(n)
  IN  /\ sending[o] = "offered"
      /\ sent <= total
      /\ ~open => sent = 0
      /\ open /\ sent < total => mishaps < MaxMishaps
      /\ mishaps' = IF open /\ sent < total THEN mishaps + 1 ELSE mishaps
      /\ flying' = flying \cup {Chunk(o, n, i) : i \in 0 .. sent - 1}
      /\ sending' = [sending EXCEPT ![o] =
                       IF sent = total THEN "sent" ELSE "failed"]
      /\ UNCHANGED <<open, chunkSize, transfers, returned, spoiled>>

ChannelCloses ==
  /\ open /\ mishaps < MaxMishaps
  /\ open' = FALSE
  /\ mishaps' = mishaps + 1
  /\ UNCHANGED <<sending, chunkSize, flying, transfers, returned,
                 spoiled>>

\* PeerManager connects again.
ChannelReopens ==
  /\ ~open
  /\ open' = TRUE
  /\ UNCHANGED <<sending, chunkSize, flying, transfers, returned,
                 spoiled, mishaps>>

ChunkDamaged(chunk) ==
  /\ chunk \in flying /\ chunk.data # <<Damage>> /\ mishaps < MaxMishaps
  /\ flying' = (flying \ {chunk}) \cup {[chunk EXCEPT !.data = <<Damage>>]}
  /\ spoiled' = spoiled \cup {chunk.offer}
  /\ mishaps' = mishaps + 1
  /\ UNCHANGED <<senderVars, transfers, returned>>

----------------------------------------------------------------------------
(* The receiver.                                                            *)

\* Mutant: the chunks are joined in the order of their arrival.
InArrivalOrder(chunks) == FlattenSeq([i \in 1 .. Len(chunks) |-> chunks[i].data])

\* The chunks of a transfer joined in the order of their indices.
Assembled(chunks) ==
  FlattenSeq([i \in 1 .. Len(chunks) |->
    chunks[CHOOSE j \in 1 .. Len(chunks) :
             Cardinality({k \in 1 .. Len(chunks) :
                            chunks[k].index < chunks[j].index}) = i - 1].data])

\* A chunk's data against what was received under its index.
Received(chunks, i) == {chunk \in Range(chunks) : chunk.index = i}

Conflicts(chunk) ==
  \E known \in Received(transfers[chunk.offer], chunk.index) :
    known.data # chunk.data

\* Map.set: an index that is known keeps its place.
WithChunk(chunks, chunk) ==
  IF Received(chunks, chunk.index) = {} THEN Append(chunks, chunk) ELSE chunks

\* receiveChunk: a conflicting chunk throws and changes nothing; the last one
\* missing ends the transfer, and its blob is returned if the hash is the
\* offer's, else the call throws.  A chunk may be kept by the channel to
\* arrive once more.
ReceiveChunk(chunk, again) ==
  LET o == chunk.offer
      chunks == WithChunk(transfers[o], chunk)
      complete == Len(chunks) = chunk.total
  IN  /\ chunk \in flying
      /\ again => mishaps < MaxMishaps
      /\ mishaps' = IF again THEN mishaps + 1 ELSE mishaps
      /\ flying' = IF again THEN flying ELSE flying \ {chunk}
      /\ IF Conflicts(chunk) THEN UNCHANGED <<transfers, returned>>
         ELSE /\ transfers' = [transfers EXCEPT ![o] =
                                 IF complete THEN <<>> ELSE chunks]
              /\ returned' = IF complete /\ Assembled(chunks) = Blob(o)
                             THEN returned \cup {o} ELSE returned
      /\ UNCHANGED <<senderVars, spoiled>>

----------------------------------------------------------------------------

AttachmentInit ==
  /\ open = TRUE
  /\ sending = [o \in Offers |-> "idle"]
  /\ chunkSize = [o \in Offers |-> Pieces]
  /\ flying = {}
  /\ transfers = [o \in Offers |-> <<>>]
  /\ returned = {}
  /\ spoiled = {}
  /\ mishaps = 0

AttachmentNext ==
  \/ \E o \in Offers :
       \/ \E n \in ChunkSizes : SendAttachment(o, n)
       \/ \E sent \in 0 .. Pieces : TransferBlob(o, sent)
  \/ ChannelCloses
  \/ ChannelReopens
  \/ \E chunk \in flying :
       \/ \E again \in BOOLEAN : ReceiveChunk(chunk, again)
       \/ ChunkDamaged(chunk)

\* transferBlob runs to its end, and the channel is reliable.
AttachmentFairness ==
  WF_attachmentVars(\/ \E o \in Offers, sent \in 0 .. Pieces :
                         TransferBlob(o, sent)
                    \/ \E chunk \in flying : ReceiveChunk(chunk, FALSE))

AttachmentSpec ==
  AttachmentInit /\ [][AttachmentNext]_attachmentVars /\ AttachmentFairness

----------------------------------------------------------------------------
(* Properties.                                                              *)

\* An attachment that was sent to its end arrives whole, with its chunks out
\* of order or repeated and others under way beside it, unless one of them
\* was damaged (transferBlob, receiveChunk).
SentArrives ==
  []<>(\A o \in Offers : sending[o] = "sent" => o \in returned \cup spoiled)
=============================================================================
