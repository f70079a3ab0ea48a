----------------------------- MODULE MCContracts ------------------------------
(***************************************************************************)
(* Small instances of the contracts around the escrow for TLC: the         *)
(* marketplace, the registries that share the agents but not each other's  *)
(* state, each with the identity registry, and the reads of the reputation *)
(* registry over a growing book.  part says which one a behaviour is       *)
(* about; the others stay as they start.  Only the escrow by itself has a  *)
(* token beside ether, and there only one account becomes a client.        *)
(***************************************************************************)
EXTENDS EscrowLiveness, Marketplace, VerificationRegistry, ValidationRegistry, FeedbackSummaries

CONSTANTS a1, a2, zero, eth, usdc, noFrame

VARIABLE part

MCAccounts == {a1, a2}

\* The transfers of a settlement succeed (MCFeeModule has those that do not).
MCRefusals == {{}}

\* Values on both sides of zero.
MCValues == {-5, 7}

contractsVars == <<marketVars, frozen, verificationVars, clock, validationVars,
                   bookVars, part>>

feeAside == <<feeVars, frozen, reputationVars, reputationRegistry, atSettlement>>

ContractsInit ==
    /\ MarketInit
    /\ frozen = {}
    /\ VerificationInit
    /\ ValidationInit
    /\ BookInit
    /\ part \in {"escrow", "market", "wallets", "verification", "validation", "book"}

\* The escrow by itself, with all its administration, for one client.
EscrowAlone ==
    /\ part = "escrow"
    /\ LivenessNext
    /\ \A t \in TaskIds : tasks'[t].client # a2
    /\ a2 \notin frozen'
    /\ EscrowOnly
    /\ UNCHANGED <<verificationVars, clock, validationVars, bookVars, part>>

Market ==
    /\ part = "market"
    /\ MarketNext
    /\ UNCHANGED <<frozen, verificationVars, clock, validationVars, bookVars,
                   part>>

Wallets ==
    /\ part = "wallets"
    /\ \/ /\ OwnershipStep \/ ApprovalStep \/ WalletStep(clock) \/ ProfileStep
          /\ UNCHANGED <<verificationVars, clock>>
       \/ ClockTick /\ UNCHANGED <<nftVars, identityVars>>
    /\ UNCHANGED <<feeAside, validationVars, bookVars, part>>

Verifications ==
    /\ part = "verification"
    /\ \/ OwnershipStep /\ UNCHANGED <<verificationVars, clock>>
       \/ VerificationStep /\ UNCHANGED <<nftVars, identityVars>>
    /\ UNCHANGED <<feeAside, validationVars, bookVars, part>>

Validations ==
    /\ part = "validation"
    /\ \/ (OwnershipStep \/ ApprovalStep) /\ UNCHANGED validationVars
       \/ ValidationStep /\ UNCHANGED <<nftVars, identityVars>>
    /\ UNCHANGED <<feeAside, verificationVars, clock, bookVars, part>>

Books ==
    /\ part = "book"
    /\ BookStep
    /\ UNCHANGED <<nftVars, identityVars, feeAside, verificationVars, clock,
                   validationVars, part>>

ContractsNext ==
    EscrowAlone \/ Market \/ Wallets \/ Verifications \/ Validations \/ Books

ContractsSpec == ContractsInit /\ [][ContractsNext]_contractsVars /\ Fairness

-------------------------------------------------------------------------------
\* A reader that takes a long list page by page has read it: of feedback, cut
\* out of a filtered walk (_fillPaginatedFeedback), and of validations, cut
\* before the filter (getSummaryPaginated).
PagesAreTheWhole == FeedbackPagesAddUp /\ PagesAddUp
===============================================================================
