----------------------------- MODULE PackageRun -----------------------------
(***************************************************************************)
(* One observation of a package, from the lane that asks for it (Sandbox)  *)
(* to the reading of what the container did (Trace).  The reading starts   *)
(* when the container is gone, so the two share no state: a behaviour is   *)
(* of the hosts or of the container.                                       *)
(***************************************************************************)
EXTENDS Sandbox, Trace

VARIABLE inContainer

RunInit == inContainer \in BOOLEAN /\ Init /\ TraceInit

RunNext ==
    \/ ~inContainer /\ Next /\ UNCHANGED <<trace, inContainer>>
    \/ inContainer /\ Tracing /\ UNCHANGED <<vars, inContainer>>

RunSpec == RunInit /\ [][RunNext]_<<vars, trace, inContainer>>

\* What a package's page says it did is what it did: the decoys and the peers are its own, the
\* slots' other tenants left nothing in it, and the trace loses nothing and makes nothing up.
EvidenceIsTrue == EvidenceIsItsOwn /\ TraceIsTrue

Interchangeable == Symmetry \cup Permutations(Fds)

=============================================================================
