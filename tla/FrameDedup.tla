----------------------------- MODULE FrameDedup -----------------------------
(* deduplicate_similar: one walk over the stored frames in the order of     *)
(* their timestamps that marks the worse of two similar neighbours, then    *)
(* one DELETE.  The frames and their images do not change under the walk.   *)
EXTENDS Naturals

CONSTANTS
  N,        \* frames in the store
  Quality   \* the quality scores

ASSUME DedupAssumption == N \in Nat /\ Quality \subseteq Nat

VARIABLES
  score,    \* quality_score of each frame
  similar,  \* is frame i within the window of frame i + 1, and like it?
            \* FALSE too when a timestamp or an image cannot be read
  cur,      \* the frame the walk has reached
  marked,   \* skip_ids, ids_to_delete
  kept      \* the rows left when the DELETE has run

dedupVars == <<score, similar, cur, marked, kept>>

Stored == 1 .. N

DedupTypeOK ==
  /\ score \in [Stored -> Quality]
  /\ similar \in [Stored -> BOOLEAN]
  /\ cur \in 1 .. (N + 1)
  /\ marked \subseteq Stored
  /\ kept \subseteq Stored

DedupInit ==
  /\ score \in [Stored -> Quality]
  /\ similar \in [Stored -> BOOLEAN]
  /\ cur = 1 /\ marked = {} /\ kept = Stored

\* Mutant: the frame that was already there wins.
Worse_first(i) == i + 1

(* The lower score; on a tie the later frame.                               *)
Worse(i) == IF score[i] >= score[i + 1] THEN i + 1 ELSE i

(* A pair with a frame already marked is passed over.                       *)
Compare ==
  /\ cur < N
  /\ cur' = cur + 1
  /\ marked' = IF similar[cur] /\ {cur, cur + 1} \cap marked = {}
               THEN marked \cup {Worse(cur)}
               ELSE marked
  /\ UNCHANGED <<score, similar, kept>>

Delete ==
  /\ cur = N
  /\ cur' = N + 1
  /\ kept' = Stored \ marked
  /\ UNCHANGED <<score, similar, marked>>

DedupNext == Compare \/ Delete

DedupSpec == DedupInit /\ [][DedupNext]_dedupVars

-----------------------------------------------------------------------------
(* Two frames are in one cluster: every frame from one to the other is      *)
(* similar to the next.                                                     *)
Linked(i, j) ==
  \A k \in Stored : (i <= k /\ k < j) \/ (j <= k /\ k < i) => similar[k]

(* "keeping the frame with the highest quality_score in each cluster"       *)
(* (repositories.py line 809): whatever chain of neighbours marks frames,   *)
(* each frame that is gone leaves one of its cluster that is as good.       *)
BestStays ==
  \A d \in Stored \ kept :
    \E k \in kept : Linked(d, k) /\ score[k] >= score[d]
=============================================================================
