--------------------------- MODULE MC_HostPayment ---------------------------
(* Small instance of HostPayment: three concurrent streams contending for  *)
(* one contract, one account, block heights up to one past the window.     *)
EXTENDS HostPaymentProofs

CONSTANTS s1, s2, s3, c1, c0, a1, none

MCStreams == {s1, s2, s3}

\* Two streams are enough for one to wait on a lock the other holds.
MCStreams2 == {s1, s2}

\* Renter 2 and host 0 in the valid outputs; renter 2, host collateral 1
\* and void 0 in the missed outputs.
MCInitValid == <<2, 0>>
MCInitMissed == <<2, 1, 0>>

\* Every two-value vector over 0..2, a short one (output-count mismatch)
\* and a long one (more values than outputs).
MCValidVectors == [1..2 -> 0..2] \cup {<<2>>, <<1, 1, 0>>}

MCMissedVectors == [1..3 -> 0..2] \cup {<<2, 1>>}

=============================================================================
