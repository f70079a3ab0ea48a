--------------------------- MODULE AgentRegistration ---------------------------
(***************************************************************************)
(* The pages that register agents from a wallet: the flow that registers   *)
(* the trusted agents one after another, the form that registers one, and  *)
(* the list of the agents an account registered.                           *)
(*                                                                         *)
(* The wallet may change account or chain, sign or reject at any time, the *)
(* chain includes transactions in any order, and a flow goes on when its   *)
(* page has been left.  An agent's URI is the number of the trusted agent, *)
(* or the draft, that it is built from; IdentityRegistry has the contract. *)
(***************************************************************************)
EXTENDS Naturals, Sequences

CONSTANTS
    Holders, NoHolder,  \* accounts; none is connected
    OldSchoolOwner,     \* OLD_SCHOOL_OWNER_ADDRESS
    TrustedCount,       \* OLD_SCHOOL_TRUSTED_AGENTS.length
    Drafts, Blank,      \* what the form may hold, and not all it asks for
    MaxMints, MaxFlows, MaxReads, MaxRegistered     \* bounds

ASSUME RegistrationAssumption ==
    /\ NoHolder \notin Holders /\ OldSchoolOwner \in Holders
    /\ Blank \notin Drafts
    /\ TrustedCount \in Nat \ {0}
    /\ {MaxMints, MaxFlows, MaxReads, MaxRegistered} \subseteq Nat

VARIABLES
    wallet,     \* its account, and whether it is on Base
    mints,      \* register transactions, in the order they were asked for
    registry,   \* the registered agents, by id
    flows,      \* handleRegisterAll and its progress, for each page opened
    page,       \* the flow that is shown
    onboard,    \* OnboardForm
    owned,      \* useOwnedAgents
    reads       \* its load() calls

mintVars == <<wallet, mints, registry>>
registrationVars == <<wallet, mints, registry, flows, page, onboard, owned, reads>>

TrustedAgents == 1 .. TrustedCount

NotConnected == [account |-> NoHolder, onBase |-> FALSE]
NoMint == 0
NoAgent == 0
IdleItem == [status |-> "idle", tx |-> NoMint, id |-> NoAgent]
FreshFlow == [item |-> 0, progress |-> [k \in TrustedAgents |-> IdleItem]]
FreshOnboard == [draft |-> Blank, tx |-> NoMint, at |-> "editing"]
NotOpen == [open |-> FALSE, loading |-> FALSE, ids |-> {}]

RegistrationInit ==
    /\ wallet = NotConnected
    /\ mints = <<>>
    /\ registry = <<>>
    /\ flows = <<>>
    /\ page = 0
    /\ onboard = FreshOnboard
    /\ owned = NotOpen
    /\ reads = <<>>

-------------------------------------------------------------------------------
\* The wallet and the chain

AskToMint(uri) ==
    /\ Len(mints) < MaxMints                       \* bound
    /\ mints' = Append(mints, [from |-> wallet.account, uri |-> uri,
                               onBase |-> wallet.onBase, status |-> "asked",
                               id |-> NoAgent])

NextMint == Len(mints) + 1

\* A changed address cancels the effect of useOwnedAgents and runs it anew.
LoadFor(holder) ==
    /\ Len(reads) < MaxReads                       \* bound
    /\ reads' = Append(reads, [by |-> holder, at |-> "starting", ids |-> {}])

WalletChanges(a, onBase) ==
    /\ wallet # [account |-> a, onBase |-> onBase]
    /\ wallet' = [account |-> a, onBase |-> onBase]
    /\ IF owned.open /\ a \notin {NoHolder, wallet.account}
       THEN LoadFor(a) ELSE UNCHANGED reads
    /\ UNCHANGED <<mints, registry, flows, page, onboard, owned>>

MintSettled(n, status) ==
    /\ mints[n].status = "asked"
    /\ mints' = [mints EXCEPT ![n].status = status]
    /\ UNCHANGED <<wallet, registry, flows, page, onboard, owned, reads>>

SignsMint(n) == MintSettled(n, "sent")
RejectsMint(n) == MintSettled(n, "rejected")

Registered(by, uri) ==
    /\ Len(registry) < MaxRegistered               \* bound
    /\ registry' = Append(registry, [by |-> by, uri |-> uri])

\* What is sent on another chain finds no registry there.
MintIncluded(n) ==
    /\ mints[n].status = "sent" /\ mints[n].onBase
    /\ Registered(mints[n].from, mints[n].uri)
    /\ mints' = [mints EXCEPT ![n].status = "mined", ![n].id = Len(registry) + 1]
    /\ UNCHANGED <<wallet, flows, page, onboard, owned, reads>>

MintReverts(n) ==
    /\ mints[n].status = "sent" /\ mints[n].onBase
    /\ mints' = [mints EXCEPT ![n].status = "reverted"]
    /\ UNCHANGED <<wallet, registry, flows, page, onboard, owned, reads>>

\* From elsewhere, with metadata that these pages did not write.
OthersRegister(a) ==
    /\ Registered(a, Blank)
    /\ UNCHANGED <<wallet, mints, flows, page, onboard, owned, reads>>

-------------------------------------------------------------------------------
\* OldSchoolRegistrationFlow

OpenFlow ==
    /\ page = 0 /\ Len(flows) < MaxFlows           \* bound
    /\ flows' = Append(flows, FreshFlow)
    /\ page' = Len(flows) + 1
    /\ UNCHANGED <<mintVars, onboard, owned, reads>>

\* Its loop is not told.
LeaveFlow ==
    /\ page # 0
    /\ page' = 0
    /\ UNCHANGED <<mintVars, flows, onboard, owned, reads>>

\* The wallet checks; their button asks the wallet to switch.
SwitchToBase ==
    /\ page # 0 /\ wallet = [account |-> OldSchoolOwner, onBase |-> FALSE]
    /\ wallet' = [wallet EXCEPT !.onBase = TRUE]
    /\ UNCHANGED <<mints, registry, flows, page, onboard, owned, reads>>

CanRegister ==
    /\ page # 0 /\ flows[page].item = 0
    /\ wallet = [account |-> OldSchoolOwner, onBase |-> TRUE]

FlowIs(f, item, progress) ==
    flows' = [flows EXCEPT ![f] = [item |-> item, progress |-> progress]]

\* writeContractAsync asks the account that is connected now, and refuses
\* when there is none or it is not on Base.
ItemAsked(f, k, progress) ==
    \/ /\ wallet.account # NoHolder /\ wallet.onBase
       /\ AskToMint(k)
       /\ FlowIs(f, k, [progress EXCEPT ![k] =
                           [status |-> "awaiting", tx |-> NextMint, id |-> NoAgent]])
    \/ /\ wallet.account = NoHolder \/ ~wallet.onBase
       /\ FlowIs(f, 0, [progress EXCEPT ![k] = [IdleItem EXCEPT !.status = "failed"]])
       /\ UNCHANGED mints

\* Every agent is registered again, whatever its progress says.
RegisterAll ==
    /\ CanRegister
    /\ ItemAsked(page, 1, flows[page].progress)
    /\ UNCHANGED <<wallet, registry, page, onboard, owned, reads>>

ItemAt(f, status) ==
    flows[f].item # 0 /\ flows[f].progress[flows[f].item].status = status

\* Mutated forms of ItemTx: whichever transaction is the newest, as one hash
\* for the page would be, and the one the loop started with.
ItemTxNewest(f) == Len(mints)
ItemTxFirst(f) == flows[f].progress[1].tx

ItemTx(f) == flows[f].progress[flows[f].item].tx

HashHeard(f) ==
    /\ ItemAt(f, "awaiting")
    /\ mints[ItemTx(f)].status \notin {"asked", "rejected"}
    /\ FlowIs(f, flows[f].item,
              [flows[f].progress EXCEPT ![flows[f].item].status = "confirming"])
    /\ UNCHANGED <<mintVars, page, onboard, owned, reads>>

\* A receipt comes for a reverted transaction too, without a Registered log.
ReceiptHeard(f) ==
    LET k == flows[f].item
        told == [flows[f].progress EXCEPT ![k].status = "confirmed",
                                          ![k].id = mints[ItemTx(f)].id]
    IN  /\ ItemAt(f, "confirming")
        /\ mints[ItemTx(f)].status \in {"mined", "reverted"}
        /\ \/ k = TrustedCount /\ FlowIs(f, 0, told) /\ UNCHANGED mints
           \/ k < TrustedCount /\ ItemAsked(f, k + 1, told)
        /\ UNCHANGED <<wallet, registry, page, onboard, owned, reads>>

\* Rejected, or the receipt does not come in time.
FlowStops(f) ==
    /\ \/ ItemAt(f, "awaiting") /\ mints[ItemTx(f)].status = "rejected"
       \/ ItemAt(f, "confirming")
    /\ FlowIs(f, 0, [flows[f].progress EXCEPT ![flows[f].item].status = "failed"])
    /\ UNCHANGED <<mintVars, page, onboard, owned, reads>>

-------------------------------------------------------------------------------
\* OnboardForm

OnboardIs(o) == onboard' = o /\ UNCHANGED <<wallet, registry, flows, page, owned, reads>>

\* The fields stay open while the agent is minted.
EditAgent(d) ==
    /\ onboard.at # "success" /\ onboard.draft # d
    /\ OnboardIs([onboard EXCEPT !.draft = d]) /\ UNCHANGED mints

\* The call names no chain.
HandleMint ==
    /\ onboard.at = "editing" /\ onboard.draft # Blank
    /\ wallet.account # NoHolder
    /\ AskToMint(onboard.draft)
    /\ OnboardIs([onboard EXCEPT !.tx = NextMint, !.at = "pending"])

\* useWriteContract tells.
MintAnswered ==
    /\ onboard.at = "pending" /\ mints[onboard.tx].status # "asked"
    /\ OnboardIs(IF mints[onboard.tx].status = "rejected"
                 THEN [onboard EXCEPT !.tx = NoMint, !.at = "editing"]
                 ELSE [onboard EXCEPT !.at = "confirming"])
    /\ UNCHANGED mints

\* useWaitForTransactionReceipt, which has an error when the call reverted.
MintConfirmed ==
    /\ onboard.at = "confirming" /\ mints[onboard.tx].status = "mined"
    /\ OnboardIs([onboard EXCEPT !.at = "success"]) /\ UNCHANGED mints

\* Reverted, or the receipt does not come in time: no word of either.
MintForgotten ==
    /\ onboard.at = "confirming"
    /\ OnboardIs([onboard EXCEPT !.at = "editing"]) /\ UNCHANGED mints

\* Register another, once it is registered; or the page is left.
RegisterAnother ==
    /\ onboard # FreshOnboard
    /\ OnboardIs(FreshOnboard) /\ UNCHANGED mints

-------------------------------------------------------------------------------
\* useOwnedAgents

OpenOwned ==
    /\ ~owned.open
    /\ owned' = [NotOpen EXCEPT !.open = TRUE]
    /\ IF wallet.account = NoHolder THEN UNCHANGED reads ELSE LoadFor(wallet.account)
    /\ UNCHANGED <<mintVars, flows, page, onboard>>

CloseOwned ==
    /\ owned.open
    /\ owned' = NotOpen
    /\ UNCHANGED <<mintVars, flows, page, onboard, reads>>

\* Mutated form of Live: an earlier load is not cancelled.
LiveUncancelled(n) == owned.open /\ wallet.account # NoHolder

\* Not cancelled.
Live(n) == owned.open /\ wallet.account # NoHolder /\ n = Len(reads)

\* Until then a frame may show the list of the account before.
LoadStarts(n) ==
    /\ reads[n].at = "starting" /\ Live(n)
    /\ reads' = [reads EXCEPT ![n].at = "reading"]
    /\ owned' = [owned EXCEPT !.loading = TRUE]
    /\ UNCHANGED <<mintVars, flows, page, onboard>>

RegisteredBy(a) == {g \in DOMAIN registry : registry[g].by = a}

\* The Registered logs of the account; an agent that cannot be read is left
\* out, and all of them are when the logs cannot be read.
LoadReads(n, ids) ==
    /\ reads[n].at = "reading"
    /\ reads' = [reads EXCEPT ![n].at = "found", ![n].ids = ids]
    /\ UNCHANGED <<mintVars, flows, page, onboard, owned>>

LoadEnds(n) ==
    /\ reads[n].at = "found"
    /\ reads' = [reads EXCEPT ![n].at = "over"]
    /\ owned' = IF Live(n) THEN [open |-> TRUE, loading |-> FALSE, ids |-> reads[n].ids]
                ELSE owned
    /\ UNCHANGED <<mintVars, flows, page, onboard>>

\* What the hook returns.
OwnedShown == IF wallet.account = NoHolder THEN {} ELSE owned.ids

-------------------------------------------------------------------------------
\* A reload forgets the flows, the form and the list; the wallet is connected
\* again later, and the transactions are where they were.
PageReloads ==
    /\ flows' = <<>> /\ page' = 0
    /\ onboard' = FreshOnboard
    /\ owned' = NotOpen /\ reads' = <<>>
    /\ wallet' = NotConnected
    /\ UNCHANGED <<mints, registry>>

FlowStep ==
    \/ OpenFlow \/ LeaveFlow \/ SwitchToBase \/ RegisterAll
    \/ \E f \in DOMAIN flows : HashHeard(f) \/ ReceiptHeard(f) \/ FlowStops(f)

OnboardStep ==
    \/ \E d \in Drafts \union {Blank} : EditAgent(d)
    \/ HandleMint \/ MintAnswered \/ MintConfirmed \/ MintForgotten \/ RegisterAnother

OwnedStep ==
    \/ OpenOwned \/ CloseOwned
    \/ \E n \in DOMAIN reads :
          \/ LoadStarts(n) \/ LoadEnds(n)
          \/ \E ids \in SUBSET RegisteredBy(reads[n].by) : LoadReads(n, ids)

WalletStep ==
    \/ \E a \in Holders, onBase \in BOOLEAN : WalletChanges(a, onBase)
    \/ WalletChanges(NoHolder, FALSE)
    \/ \E n \in DOMAIN mints : SignsMint(n) \/ RejectsMint(n)
    \/ \E n \in DOMAIN mints : MintIncluded(n) \/ MintReverts(n)
    \/ \E a \in Holders : OthersRegister(a)

RegistrationStep ==
    FlowStep \/ OnboardStep \/ OwnedStep \/ WalletStep \/ PageReloads

-------------------------------------------------------------------------------
\* What the card of a trusted agent shows.
ItemShown(f, k) == flows[f].progress[k]

\* An id on the card is that of a registration by the account which signed
\* it, of this card's agent.
FlowIsTrue ==
    \A f \in DOMAIN flows, k \in TrustedAgents :
       LET item == ItemShown(f, k)
       IN  item.id # NoAgent =>
             /\ item.status = "confirmed"
             /\ item.id \in DOMAIN registry
             /\ registry[item.id] = [by |-> mints[item.tx].from, uri |-> k]

\* "Agent registered" is true on Base of what was in the form when it was
\* sent, by the account that signed it.
OnboardIsTrue ==
    onboard.at = "success" =>
      LET mint == mints[onboard.tx]
      IN  /\ mint.id \in DOMAIN registry
          /\ registry[mint.id] = [by |-> mint.from, uri |-> mint.uri]
          /\ mint.uri \in Drafts

\* The list is of agents the connected account registered, whatever accounts
\* were connected before and in whatever order their reads end.
OwnedIsTheirs ==
    (owned.open /\ ~owned.loading /\ wallet.account # NoHolder
       /\ reads[Len(reads)].at # "starting") =>
      \A g \in OwnedShown : g \in DOMAIN registry /\ registry[g].by = wallet.account

\* What the registration pages tell of the registry is so.
RegistrationsAreTrue == FlowIsTrue /\ OnboardIsTrue /\ OwnedIsTheirs

\* A flow never has two of its transactions out together: it asks for one
\* when nothing is left to happen to those before, in the order of the agents,
\* and the ids it shows for them rise.  That they did not fail is another
\* matter: FlowStopsOnFailure.  (handleRegisterAll)
OneAfterAnother ==
    \A f \in DOMAIN flows : \A k \in TrustedAgents :
       k < flows[f].item =>
         LET item == ItemShown(f, k)
         IN  /\ mints[item.tx].status \notin {"asked", "sent"}
             /\ item.tx < ItemShown(f, k + 1).tx
             /\ \A j \in 1 .. k - 1 :
                   item.id # NoAgent => ItemShown(f, j).id < item.id

\* As the page has it: if a signature is rejected or a transaction fails, the
\* flow stops immediately.  waitForTransactionReceipt resolves for a reverted
\* transaction too, and the loop does not look at the receipt's status.
FlowStopsOnFailure ==
    \A f \in DOMAIN flows : \A k \in TrustedAgents :
       k < flows[f].item =>
          mints[ItemShown(f, k).tx].status \notin {"rejected", "reverted"}
===============================================================================
