------------------------- MODULE MCJetStreamJournal -------------------------
(* TLC's instance of JetStreamJournal: which handle is which does not matter. *)
EXTENDS JetStreamJournal, TLC

HandleSymmetry == Permutations(Handle)

\* A publish nobody waits for and whose fence the run has passed can only be
\* refused, which changes nothing else: states that differ in those are one.
MayStillLand(req) == Awaited(req) \/ req.fence \in {0, Len(log)}

View == <<log, gone, acked, {req \in net : MayStillLand(req)}, clientVars>>
=============================================================================
