---------------------------- MODULE ResolutionEvents ----------------------------
(***************************************************************************)
(* The events of the resolution contract (resolution/src/events.rs) and    *)
(* what a reader of nothing else learns from them: every dispute, the      *)
(* bonds that are open in it, and how much of them the contract holds.     *)
(*                                                                         *)
(* A settlement publishes one event for each bond and one for itself; the  *)
(* other calls publish one or none.  Nothing is published about the        *)
(* default window, deposits of collateral, cancelled changes, the refund   *)
(* of the proposer's bond, and the scheme of the signature; and            *)
(* market_contract_set does not say whether it ends a pending change.      *)
(***************************************************************************)
EXTENDS Resolution, SequencesExt

VARIABLE index          \* what the reader believes

eventVars == <<vars, index>>

-------------------------------------------------------------------------------
\* The events, as the emit functions publish them.

ResolutionRegistered(factory, market_contract) ==
  [topic |-> "resolution_registered", factory |-> factory, market_contract |-> market_contract]

CandidateProposed(c, cand) ==
  [topic |-> "candidate_proposed", candidate_id |-> c, market_id |-> cand.market_id,
   outcome |-> cand.outcome, proposer |-> cand.proposer,
   challenge_deadline |-> cand.challenge_deadline,
   signature_expiry |-> cand.signature_expiry, bond_amount |-> cand.bond_amount]

CandidateChallenged(c, challenger, bond) ==
  [topic |-> "candidate_challenged", candidate_id |-> c, challenger |-> challenger,
   bond_amount |-> bond]

CandidateAppealed(c, cand) ==
  [topic |-> "candidate_appealed", candidate_id |-> c, outcome |-> cand.outcome,
   appeal_round |-> cand.appeal_round, challenge_deadline |-> cand.challenge_deadline]

CandidateFinalized(c, cand) ==
  [topic |-> "candidate_finalized", candidate_id |-> c, outcome |-> cand.outcome,
   at |-> cand.finalized_at]

CandidateArbitrated(c, outcome) ==
  [topic |-> "candidate_arbitrated", candidate_id |-> c, outcome |-> outcome, at |-> now]

MarketVoided(c) == [topic |-> "market_voided", candidate_id |-> c, at |-> now]

BondSlashed(c, loser, winner, total) ==
  [topic |-> "bond_slashed", candidate_id |-> c, loser |-> loser, winner |-> winner,
   total |-> total, parts |-> SplitBond(total)]

BondRefunded(c, recipient, amount) ==
  [topic |-> "bond_refunded", candidate_id |-> c, recipient |-> recipient, amount |-> amount]

\* factory_proposed, market_contract_proposed, treasury_proposed; and ..._set.
AddressProposed(register, change) ==
  [topic |-> "address_proposed", register |-> register, change |-> change]

AddressSet(register, address) ==
  [topic |-> "address_set", register |-> register, address |-> address]

ResolutionPaused == [topic |-> "resolution_paused"]

ResolutionUnpaused == [topic |-> "resolution_unpaused"]

EmergencyModeChanged(new_mode) ==
  [topic |-> "emergency_mode_changed", new_mode |-> new_mode]

CollateralSlashed(p, recipient, amount) ==
  [topic |-> "collateral_slashed", proposer |-> p, recipient |-> recipient, amount |-> amount]

-------------------------------------------------------------------------------
\* The reader.  A bond is open from the event that posts it to the one that
\* slashes or refunds it; the proposer's is refunded by the conclusion itself.

Stake(owner, bond) == SetToBag({[owner |-> owner, bond |-> bond]})

Silence ==
  [inForce |-> [r \in Registers |-> Unset], announced |-> [r \in Registers |-> Unset],
   paused |-> FALSE, mode |-> "Normal", disputes |-> <<>>, held |-> 0]

Posted(i, c, owner, bond) ==
  [i EXCEPT !.disputes[c].open = @ (+) Stake(owner, bond), !.held = @ + bond]

Struck(i, c, owner, bond, paid) ==
  [i EXCEPT !.disputes[c].open = @ (-) Stake(owner, bond), !.held = @ - paid]

\* The treasury's part of a bond leaves the contract only if there is a treasury.
PaidOf(i, parts) ==
  parts.reward + parts.burned + (IF i.inForce["treasury"] = Unset THEN 0 ELSE parts.treasury)

Opened(i, e) ==
  [i EXCEPT !.disputes = [c \in DOMAIN i.disputes \cup {e.candidate_id} |->
     IF c # e.candidate_id THEN i.disputes[c]
     ELSE [market_id |-> e.market_id, outcome |-> e.outcome, proposer |-> e.proposer,
           signature_expiry |-> e.signature_expiry, challenge_deadline |-> e.challenge_deadline,
           bond_amount |-> e.bond_amount, appeal_round |-> 0, status |-> "Proposed",
           finalized_at |-> 0, open |-> EmptyBag]]]

Concluded(i, e, status) ==
  [i EXCEPT !.disputes[e.candidate_id].status = status,
            !.disputes[e.candidate_id].finalized_at = e.at]

Heard(i, e) ==
  CASE e.topic = "resolution_registered" ->
         [i EXCEPT !.inForce["factory"] = e.factory,
                   !.inForce["market_contract"] = e.market_contract]
    [] e.topic = "candidate_proposed" ->
         Posted(Opened(i, e), e.candidate_id, e.proposer, e.bond_amount)
    [] e.topic = "candidate_challenged" ->
         [Posted(i, e.candidate_id, e.challenger, e.bond_amount)
            EXCEPT !.disputes[e.candidate_id].status = "Challenged"]
    [] e.topic = "candidate_appealed" ->
         [i EXCEPT !.disputes[e.candidate_id] =
            [@ EXCEPT !.outcome = e.outcome, !.appeal_round = e.appeal_round,
                      !.challenge_deadline = e.challenge_deadline, !.status = "Proposed"]]
    [] e.topic = "bond_slashed" ->
         Struck(i, e.candidate_id, e.loser, e.total, PaidOf(i, e.parts))
    [] e.topic = "bond_refunded" ->
         Struck(i, e.candidate_id, e.recipient, e.amount, e.amount)
    [] e.topic \in {"candidate_finalized", "candidate_arbitrated"} ->
         LET d == i.disputes[e.candidate_id]
         IN  Struck([Concluded(i, e, "Finalized")
                       EXCEPT !.disputes[e.candidate_id].outcome = e.outcome],
                    e.candidate_id, d.proposer, d.bond_amount, d.bond_amount)
    [] e.topic = "market_voided" -> Concluded(i, e, "Voided")
    [] e.topic = "address_proposed" -> [i EXCEPT !.announced[e.register] = e.change]
    [] e.topic = "address_set" -> [i EXCEPT !.inForce[e.register] = e.address]
    [] e.topic = "resolution_paused" -> [i EXCEPT !.paused = TRUE]
    [] e.topic = "resolution_unpaused" -> [i EXCEPT !.paused = FALSE]
    [] e.topic = "emergency_mode_changed" -> [i EXCEPT !.mode = e.new_mode]
    [] e.topic = "collateral_slashed" -> i       \* of a deposit nobody announced

\* The events of a call, in the order in which it publishes them.
Publish(events) == index' = FoldLeft(Heard, index, events)

-------------------------------------------------------------------------------
\* Every call with its events.

OpenEvent ==
  \E p \in Users, m \in Markets, o \in BOOLEAN, e \in ExpiryInputs,
     w \in WindowInputs, b \in BondInputs :
    /\ Propose(p, m, o, e, w, b) \/ ProposeV2(p, m, o, e, w, b)
    /\ Publish(<<CandidateProposed(Len(candidates'), Last(candidates'))>>)

ContestEvent(c) ==
  \/ \E u \in Users, b \in BondInputs :
       Challenge(u, c, b) /\ Publish(<<CandidateChallenged(c, u, b)>>)
  \/ \E o \in BOOLEAN, w \in WindowInputs :
       Appeal(c, o, w) /\ Publish(<<CandidateAppealed(c, candidates'[c])>>)

\* Fault: only the challenge that is still standing is settled aloud.
LastSlashOnly(c) ==
  [i \in (DOMAIN challengers[c]) \cap {1} |->
     BondSlashed(c, Last(challengers[c]).challenger, candidates[c].proposer,
                 Last(challengers[c]).bond)]

\* settle_challengers_as_losers publishes one event for each record.
ChallengersSlashed(c) ==
  [i \in DOMAIN challengers[c] |->
     BondSlashed(c, challengers[c][i].challenger, candidates[c].proposer,
                 challengers[c][i].bond)]

\* void_market publishes the proposer's slash, then every challenger's refund.
ProposerSlashed(c) ==
  BondSlashed(c, candidates[c].proposer, Last(challengers[c]).challenger,
              candidates[c].bond_amount)

ChallengersRefunded(c) ==
  [i \in DOMAIN challengers[c] |->
     BondRefunded(c, challengers[c][i].challenger, challengers[c][i].bond)]

ConcludeEvent(c) ==
  \/ /\ Finalize(c)
     /\ Publish(Append(ChallengersSlashed(c), CandidateFinalized(c, candidates'[c])))
  \/ /\ ArbitrateUpholdProposer(c)
     /\ Publish(Append(ChallengersSlashed(c), CandidateArbitrated(c, candidates[c].outcome)))
  \/ /\ VoidMarket(c)
     /\ Publish(<<ProposerSlashed(c)>> \o Append(ChallengersRefunded(c), MarketVoided(c)))

CollateralEvent ==
  \E p \in Users, t \in DepositTokens :
    \/ \E amount \in CollateralInputs : DepositCollateral(p, t, amount) /\ UNCHANGED index
    \/ \E recipient \in Users :
         /\ SlashCollateral(p, t, recipient)
         /\ Publish(<<CollateralSlashed(p, recipient, collateral[p])>>)

AddressEvent ==
  \/ \E f \in FactoryInputs :
       \/ ProposeFactory(f) /\ Publish(<<AddressProposed("factory", pending'["factory"])>>)
       \/ ExecuteFactory(f) /\ Publish(<<AddressSet("factory", f)>>)
  \/ \E t \in TreasuryInputs :
       \/ ProposeTreasury(t) /\ Publish(<<AddressProposed("treasury", pending'["treasury"])>>)
       \/ ExecuteTreasury(t) /\ Publish(<<AddressSet("treasury", t)>>)
  \/ \E k \in MarketContractInputs :
       \/ /\ ProposeMarketContract(k)
          /\ Publish(<<AddressProposed("market_contract", pending'["market_contract"])>>)
       \/ /\ ExecuteMarketContract(k) \/ SetMarketContract(k)
          /\ Publish(<<AddressSet("market_contract", k)>>)
  \/ (CancelFactory \/ CancelTreasury \/ CancelMarketContract) /\ UNCHANGED index

HaltEvent ==
  \/ \E f \in Factories, k \in MarketContracts, w \in WindowInputs :
       Initialize(f, k, w) /\ Publish(<<ResolutionRegistered(f, k)>>)
  \/ \E w \in WindowInputs : SetDefaultChallengeWindow(w) /\ UNCHANGED index
  \/ \E new_mode \in ModeInputs :
       SetEmergencyMode(new_mode) /\ Publish(<<EmergencyModeChanged(new_mode)>>)
  \/ TRUE \in PauseInputs /\ Pause /\ Publish(<<ResolutionPaused>>)
  \/ FALSE \in PauseInputs /\ Unpause /\ Publish(<<ResolutionUnpaused>>)

EventsInit == Init /\ index = Silence

EventsNext ==
  \/ (Tick \/ EnvironmentStep) /\ UNCHANGED index
  \/ OpenEvent
  \/ \E c \in DOMAIN candidates : ContestEvent(c) \/ ConcludeEvent(c)
  \/ CollateralEvent
  \/ AddressEvent
  \/ HaltEvent

EventsSpec == EventsInit /\ [][EventsNext]_eventVars

-------------------------------------------------------------------------------
\* Properties.

\* The stakes that the storage holds for a dispute.
StakesOf(c) ==
  IF Live(candidates[c])
  THEN ToBag([i \in DOMAIN challengers[c] |->
                [owner |-> challengers[c][i].challenger, bond |-> challengers[c][i].bond]])
         (+) Stake(candidates[c].proposer, candidates[c].bond_amount)
  ELSE EmptyBag

DisputeFollowed(c) ==
  LET d == index.disputes[c]
  IN  /\ \A field \in DOMAIN d \ {"open"} : d[field] = candidates[c][field]
      /\ d.open = StakesOf(c)

\* A reader of the events knows every dispute with its bonds, which address is in
\* force where and that no other is pending than was announced; and the bonds it has
\* seen posted, less what it has seen paid out of them, are what the contract holds
\* besides the collateral ("emits BondSlashed for observability", lib.rs:1354).
IndexFollows ==
  /\ DOMAIN index.disputes = DOMAIN candidates
  /\ \A c \in DOMAIN candidates : DisputeFollowed(c)
  /\ index.held + SumFunction(collateral) = Holdings
  /\ <<index.paused, index.mode>> = <<paused, mode>>
  /\ index.inForce = [r \in Registers |->
       CASE r = "factory"         -> config.factory
         [] r = "market_contract" -> config.market_contract
         [] r = "treasury"        -> treasury]
  /\ \A r \in Registers : pending[r] # Unset => index.announced[r] = pending[r]
===============================================================================
