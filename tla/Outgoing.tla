------------------------------- MODULE Outgoing -------------------------------
(***************************************************************************)
(* Transactions LDK wants sent: the broadcaster with its store of pending  *)
(* broadcasts (traits/broadcaster.ts), and a channel's funding transaction *)
(* with its own store, from FundingGenerationReady to                      *)
(* FundingTxBroadcastSafe or DiscardFunding (traits/event-handler.ts).     *)
(*                                                                         *)
(* broadcast_transactions starts a put and a broadcast side by side and    *)
(* deletes the record after both; the page may die at any await.  A        *)
(* broadcast that is already in flight ends a second one at once.          *)
(***************************************************************************)
EXTENDS Integers, FiniteSets

CONSTANTS Commitments,    \* transactions LDK broadcasts (and rebroadcasts)
          Rebroadcasts,   \* how often it does
          SendFaults      \* failed puts, exhausted retries, restarts
ASSUME OutgoingAssumption ==
  IsFiniteSet(Commitments) /\ Rebroadcasts \in Nat /\ SendFaults \in Nat

VARIABLES
  sendCalls,      \* the running calls of broadcastWithRetry and what follows
  pendingPuts,    \* and the puts under way
  requests,       \* how often LDK has asked
  unsent,         \* ldk_pending_broadcasts
  expired,        \* records older than the 48 hours of PENDING_BROADCAST_TTL_MS
  accepted,       \* the network has it (or something in its place)
  forgotten,      \* deleted although it was not accepted and not expired
  funding,        \* the funding transaction's way
  fundingStored,  \* ldk_funding_txs
  channelMap,     \* ldk_channel_id_map
  sendFaults

fundingSide == <<funding, fundingStored, channelMap>>
broadcasts == <<sendCalls, pendingPuts, requests, unsent, expired, accepted, forgotten>>

outgoingVars == <<broadcasts, fundingSide, sendFaults>>

OutgoingInit ==
  /\ sendCalls = {} /\ pendingPuts = {} /\ requests = 0 /\ unsent = {}
  /\ expired = {} /\ accepted = {}
  /\ forgotten = FALSE /\ funding = "none" /\ fundingStored = FALSE /\ channelMap = FALSE
  /\ sendFaults = 0

SendFault == sendFaults < SendFaults /\ sendFaults' = sendFaults + 1

-----------------------------------------------------------------------------
(* The broadcaster *)
InFlight(t) == \E c \in sendCalls : c.tx = t /\ c.net = "trying"
NewCall(t, id) == [id |-> id, tx |-> t, net |-> IF InFlight(t) THEN "in-flight" ELSE "trying"]

BroadcastTransactions(t) ==
  /\ requests < Rebroadcasts /\ requests' = requests + 1
  /\ sendCalls' = sendCalls \cup {NewCall(t, requests')}
  /\ pendingPuts' = pendingPuts \cup {[id |-> requests', tx |-> t]}
  /\ UNCHANGED <<unsent, expired, accepted, forgotten, fundingSide, sendFaults>>

PutPending(w) ==
  /\ pendingPuts' = pendingPuts \ {w} /\ expired' = expired \ {w.tx}
  /\ \/ unsent' = unsent \cup {w.tx} /\ UNCHANGED sendFaults
     \/ SendFault /\ UNCHANGED unsent
  /\ UNCHANGED <<sendCalls, requests, accepted, forgotten, fundingSide>>

(* tryBroadcast on both servers: sent or known, or every retry failed *)
PostTx(c) ==
  /\ c.net = "trying"
  /\ \/ /\ accepted' = accepted \cup {c.tx}
        /\ sendCalls' = (sendCalls \ {c}) \cup {[c EXCEPT !.net = "answered"]}
        /\ UNCHANGED sendFaults
     \/ /\ SendFault /\ UNCHANGED accepted
        /\ sendCalls' = (sendCalls \ {c}) \cup {[c EXCEPT !.net = "failed"]}
  /\ UNCHANGED <<pendingPuts, requests, unsent, expired, forgotten, fundingSide>>

(* .then(() => persisted).then(delete): the answer of a call that found     *)
(* another one in flight counts as well                                     *)
PutSettled(c) == \A w \in pendingPuts : w.id # c.id
Settled(c) == c.net \in {"answered", "in-flight"} /\ PutSettled(c)
DeletePending(c) ==
  /\ Settled(c) /\ sendCalls' = sendCalls \ {c} /\ unsent' = unsent \ {c.tx}
  /\ forgotten' = (forgotten \/ c.tx \in unsent \ (accepted \cup expired))
  /\ UNCHANGED <<pendingPuts, requests, expired, accepted, fundingSide, sendFaults>>
GiveUp(c) ==
  /\ c.net = "failed" /\ sendCalls' = sendCalls \ {c}
  /\ UNCHANGED <<pendingPuts, requests, unsent, expired, accepted, forgotten, fundingSide,
                 sendFaults>>

Expire(t) ==
  /\ t \in unsent \ expired /\ SendFault /\ expired' = expired \cup {t}
  /\ UNCHANGED <<sendCalls, pendingPuts, requests, unsent, accepted, forgotten, fundingSide>>

(* A restart, which ends with drainPendingBroadcasts *)
Drained == unsent \ expired
Reopen ==
  /\ SendFault
  /\ sendCalls' = {[id |-> 0, tx |-> t, net |-> "trying"] : t \in Drained} /\ pendingPuts' = {}
  /\ unsent' = Drained
  /\ funding' = IF funding \in {"built", "stored"} THEN "dead"
                ELSE IF funding = "sending" THEN "safe" ELSE funding
  /\ UNCHANGED <<requests, expired, accepted, forgotten, fundingStored, channelMap>>

-----------------------------------------------------------------------------
(* A channel that this wallet funds *)

(* FundingGenerationReady: build and sign, store, and only then tell LDK *)
BuildFunding ==
  /\ funding = "none" /\ funding' = "built"
  /\ UNCHANGED <<broadcasts, fundingStored, channelMap, sendFaults>>
AfterBuildUnstored == "told"
AfterBuild == "stored"
StoreFunding ==
  /\ funding = "built"
  /\ \/ funding' = AfterBuild /\ fundingStored' = TRUE /\ UNCHANGED sendFaults
     \/ SendFault /\ funding' = (IF AfterBuild = "told" THEN "told" ELSE "dead")
        /\ UNCHANGED fundingStored
  /\ UNCHANGED <<broadcasts, channelMap>>
TellLdk ==
  /\ funding = "stored" /\ funding' \in {"told", "dead"}     \* LDK may refuse it
  /\ UNCHANGED <<broadcasts, fundingStored, channelMap, sendFaults>>

(* ChannelPending maps the channel's id to its temporary one; LDK then says *)
(* that the transaction may be broadcast, or gives the channel up           *)
ChannelPending ==
  /\ funding = "told" /\ funding' = "safe"
  /\ \/ channelMap' = TRUE /\ UNCHANGED sendFaults
     \/ SendFault /\ UNCHANGED channelMap
  /\ UNCHANGED <<broadcasts, fundingStored>>

(* broadcastPersistedFundingTx; a failure is logged, the event is not       *)
(* replayed unless the page dies before the manager is saved                *)
FundingTxBroadcastSafe ==
  /\ funding = "safe" /\ fundingStored /\ funding' = "sending"
  /\ UNCHANGED <<broadcasts, fundingStored, channelMap, sendFaults>>
FundingBroadcastEnds ==
  /\ funding = "sending"
  /\ \/ funding' = "sent" /\ fundingStored' \in {FALSE, fundingStored} /\ UNCHANGED sendFaults
     \/ SendFault /\ funding' = "stuck" /\ UNCHANGED fundingStored
  /\ UNCHANGED <<broadcasts, channelMap>>

(* The record goes only if the channel's id was mapped *)
DiscardFunding ==
  /\ funding \in {"told", "safe", "stuck"} /\ funding' = "discarded"
  /\ IF channelMap THEN fundingStored' = FALSE /\ channelMap' = FALSE
     ELSE UNCHANGED <<fundingStored, channelMap>>
  /\ UNCHANGED <<broadcasts, sendFaults>>

(* ChannelClosed forgets the mapping, whatever DiscardFunding needs it for *)
UnmapClosed ==
  /\ channelMap /\ funding \in {"safe", "stuck", "sent"} /\ channelMap' = FALSE
  /\ UNCHANGED <<broadcasts, funding, fundingStored, sendFaults>>

OutgoingNext ==
  \/ \E t \in Commitments : BroadcastTransactions(t) \/ Expire(t)
  \/ \E w \in pendingPuts : PutPending(w)
  \/ \E c \in sendCalls : PostTx(c) \/ DeletePending(c) \/ GiveUp(c)
  \/ Reopen \/ BuildFunding \/ StoreFunding \/ TellLdk \/ ChannelPending
  \/ FundingTxBroadcastSafe \/ FundingBroadcastEnds \/ DiscardFunding
  \/ UnmapClosed

OutgoingSpec == OutgoingInit /\ [][OutgoingNext]_outgoingVars

-----------------------------------------------------------------------------
OutgoingTypeOK ==
  /\ unsent \subseteq Commitments /\ expired \subseteq Commitments
  /\ accepted \subseteq Commitments /\ requests \in 0..Rebroadcasts
  /\ {forgotten, fundingStored, channelMap} \subseteq BOOLEAN

(* LDK never holds a funding transaction that this device could not send:   *)
(* until it is sent or given up, it is stored.  And a record of a pending   *)
(* broadcast never comes back after its delete: with nothing running and    *)
(* nothing gone wrong, no record is left.                                   *)
SendableUntilSent ==
  /\ funding \in {"told", "safe", "sending", "stuck"} => fundingStored
  /\ (sendCalls = {} /\ pendingPuts = {} /\ sendFaults = 0) => unsent = {}

(* A record outlives every broadcast that the network has not accepted. *)
PendingUntilAccepted == ~forgotten
=============================================================================
