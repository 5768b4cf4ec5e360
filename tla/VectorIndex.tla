----------------------------- MODULE VectorIndex -----------------------------
(***************************************************************************)
(* What the vector store promises its callers, without tables, versions,   *)
(* record states or compaction: a set of indexed chunks.                   *)
(*                                                                         *)
(* A process offers a batch; the batch becomes indexed in one step or not  *)
(* at all; what is indexed leaves only when its own process withdraws it   *)
(* or offers it again.  One loss is part of the promise: a batch offered   *)
(* while another process reclaims files may be published with holes.       *)
(***************************************************************************)
CONSTANTS Procs, Chunks, Embedders,
          Own,       \* the chunks of the documents each process writes
          None

Pair == [chunk: Chunks, emb: Embedders]
Offers == [batch: SUBSET Chunks, emb: Embedders]

VARIABLES
  index,     \* the pairs a search may rely on
  offer,     \* what each process is about to publish
  risk       \* processes whose offer another one's clean-up may have hit

vars == <<index, offer, risk>>

PairsOf(cs) == {r \in Pair : r.chunk \in cs}
Offered(o)  == {r \in Pair : r.chunk \in o.batch /\ r.emb = o.emb}

Init ==
  /\ index = {}
  /\ offer = [p \in Procs |-> None]
  /\ risk = {}

\* Offering a batch withdraws what was indexed of it, under every embedder.
Offer(p) ==
  /\ offer[p] = None
  /\ offer'[p] \in Offers
  /\ offer'[p].batch \subseteq Own[p]
  /\ offer' = [offer EXCEPT ![p] = offer'[p]]
  /\ index' = index \ PairsOf(offer'[p].batch)
  /\ UNCHANGED risk

\* All of the offer, or what a clean-up left of it.
Publish(p) ==
  /\ offer[p] # None
  /\ index \subseteq index'
  /\ index' \subseteq index \cup Offered(offer[p])
  /\ p \notin risk => Offered(offer[p]) \subseteq index'
  /\ offer' = [offer EXCEPT ![p] = None]
  /\ risk' = risk \ {p}

Abandon(p) ==
  /\ offer' = [offer EXCEPT ![p] = None]
  /\ risk' = risk \ {p}
  /\ UNCHANGED index

\* Any part of what the process owns, row by row if it likes.
Withdraw(p) ==
  /\ offer[p] = None
  /\ index' \subseteq index
  /\ index \ index' \subseteq PairsOf(Own[p])
  /\ UNCHANGED <<offer, risk>>

\* Compaction changes nothing that is indexed.
Reclaim(p) ==
  /\ risk \subseteq risk'
  /\ risk' \ risk \subseteq {q \in Procs \ {p} : offer[q] # None}
  /\ UNCHANGED <<index, offer>>

Next == \E p \in Procs : Offer(p) \/ Publish(p) \/ Abandon(p) \/ Withdraw(p) \/ Reclaim(p)

Spec == Init /\ [][Next]_vars

=============================================================================
