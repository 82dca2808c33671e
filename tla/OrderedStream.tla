--------------------------- MODULE OrderedStream ---------------------------
(***************************************************************************)
(* What the contracts of the gateway's providers promise of a stream of    *)
(* chunks, frames or transcripts (providers/contracts.go): the receiver    *)
(* gets what the service's messages mean, each item once and in order,     *)
(* without a gap until the stream is given up, and a stream that has ended *)
(* stays so.  No two items of a stream are equal.                          *)
(***************************************************************************)
EXTENDS Sequences, SequencesExt

VARIABLES
    meant,       \* items the messages read so far stand for
    delivered,   \* items the receiver has taken
    givenUp,     \* the receiver's context is done, or it has closed the stream
    over         \* the service is no longer read

vars == <<meant, delivered, givenUp, over>>

Init == meant = <<>> /\ delivered = <<>> /\ ~givenUp /\ ~over

(* The service says more; what it has said stays said.                     *)
Say == /\ ~over
       /\ IsPrefix(meant, meant')
       /\ UNCHANGED <<delivered, givenUp, over>>

(* The receiver takes an item after the last it took, the next one unless  *)
(* the stream is given up; also after the end, from what the channel holds.*)
Take == /\ \E k \in DOMAIN meant :
            /\ \A j \in DOMAIN meant : delivered # <<>> /\ meant[j] = Last(delivered) => j < k
            /\ ~givenUp => k = Len(delivered) + 1
            /\ delivered' = Append(delivered, meant[k])
        /\ UNCHANGED <<meant, givenUp, over>>

GiveUp == ~givenUp /\ givenUp' /\ UNCHANGED <<meant, delivered, over>>

End == ~over /\ over' /\ UNCHANGED <<meant, delivered, givenUp>>

Next == Say \/ Take \/ GiveUp \/ End

Spec == Init /\ [][Next]_vars
=============================================================================
