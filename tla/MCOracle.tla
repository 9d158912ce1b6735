------------------------------- MODULE MCOracle -------------------------------
(***************************************************************************)
(* An instance of Oracle for TLC.                                          *)
(***************************************************************************)
EXTENDS Oracle, TLC

CONSTANTS A, B, C,              \* keys; C is faulty
          Feed                  \* a price contract

R(version, network, outcome, valid_until) ==
  [version |-> version, network |-> network, market_id |-> 1, outcome |-> outcome,
   valid_until |-> valid_until, epoch |-> 0]

\* Network 1 is the ledger's own, network 2 a test network.
MCReports ==
  {R("V1", 1, TRUE, 0), R("V2", 1, TRUE, 0), R("V2", 1, TRUE, 1), R("V2", 1, FALSE, 1),
   R("V2", 2, FALSE, 1)}

\* Two of three; two of two, which the faulty one cannot split; a list in which one
\* signer stands twice; and one too short for its quorum.
MCSignerLists == {[signers |-> <<A, B, C>>, quorum |-> 2],
                  [signers |-> <<A, C>>, quorum |-> 2],
                  [signers |-> <<A, A, B>>, quorum |-> 2],
                  [signers |-> <<A>>, quorum |-> 2]}

\* Bounds of the exploration, which ends where the market is decided.  A market is
\* looked at with one signature and no price; with prices and no signature; or with
\* signatures, V1 still on, and a signer list, whose pending change can still come
\* into force.
\* No path reads what its own bound leaves out.
NoList == threshold.signers = <<>> /\ pending_signers = Absent

InTime == pending_signers = Absent \/ pending_signers.effective_at <= MaxTime

StillOpen == \E m \in Markets : Undecided(m)

Explored ==
  \/ NoList /\ observed = {} /\ Cardinality(signed) <= 1
  \/ NoList /\ signed = {} /\ Range(oracle_pubkey) = {C}
  \/ /\ InTime /\ observed = {} /\ build /\ ~v1_disabled
     /\ Range(adapter_type) = {"Ed25519"} /\ Range(oracle_pubkey) = {C}

\* Every report with small numbers, about a market that does not exist too.
MCLookalikes ==
  [version : Versions, network : Networks, market_id : {1, 2}, outcome : BOOLEAN,
   valid_until : {0, 1}, epoch : 0 .. 1]
===============================================================================
