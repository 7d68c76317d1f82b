-------------------------------- MODULE Sweep --------------------------------
(***************************************************************************)
(* Force-close outputs on their way back to the wallet: the                *)
(* SpendableOutputs event, the ldk_spendable_outputs store, the sweep with *)
(* its plain and its subsidized transaction (ldk/sweep.ts,                 *)
(* ldk/subsidized-sweep.ts) and the broadcaster's answers.                 *)
(*                                                                         *)
(* A sweep is all-or-nothing: one transaction spends every stored output.  *)
(* A transaction is the set of what it spends; "coin" stands for the       *)
(* confirmed on-chain funds that may pay its fee.  The network keeps the   *)
(* transactions it accepted; one in conflict with them is refused, or, if  *)
(* the older one is unconfirmed, may replace it.                           *)
(***************************************************************************)
EXTENDS Integers, FiniteSets

CONSTANTS Outputs,       \* outputs LDK announces
          SweepKeys,     \* keys of stored entries, a UUID each
          SweepFaults    \* crashes, failed writes and lost answers
ASSUME SweepAssumption ==
  /\ SweepFaults \in Nat /\ SweepKeys \subseteq Nat
  /\ \A K \in SUBSET SweepKeys : K # {} => \E k \in K : \A j \in K : k <= j
  /\ "coin" \notin Outputs

VARIABLES
  owned,                 \* outputs that already pay a script of the wallet
  toHandle, replayable,  \* events to deliver; delivered, not in stored monitors
  writing,               \* idbPut of an entry under way: <<key, outputs>>
  entries,               \* the store: pairs <<key, outputs>>
  sweep,                 \* the sweep in progress
  net, final,            \* accepted transactions, and those of them confirmed
  reservedCoin,          \* spentSubsidyOutpoints holds the coin, in memory
  coinKnown,             \* the wallet graph knows the coin is spent: "no",
                         \* "memory" (changeset being written) or "durable"
  sweepFaults,
  stale                  \* history: a batch held an output that had moved, a
                         \* write or a changeset was lost

sweepVars == <<owned, toHandle, replayable, writing, entries, sweep, net, final,
               reservedCoin, coinKnown, sweepFaults, stale>>

NoSweep == [pc |-> "idle", keys |-> {}, outs |-> {}, sub |-> FALSE]
SweepFault == sweepFaults < SweepFaults /\ sweepFaults' = sweepFaults + 1

Moved(o) == \E t \in net : o \in t
FreshKeys == SweepKeys \ ({e[1] : e \in entries \cup writing} \cup sweep.keys)
Stored == UNION {e[2] : e \in entries}

SweepInit ==
  /\ owned \in SUBSET Outputs /\ toHandle = Outputs /\ replayable = {} /\ writing = {}
  /\ entries = {}
  /\ sweep = NoSweep /\ net = {} /\ final = {}
  /\ reservedCoin = FALSE /\ coinKnown = "no" /\ sweepFaults = 0 /\ stale = {}

-----------------------------------------------------------------------------
(* Event_SpendableOutputs                                                   *)

(* ok() is returned at once, the write goes on; a wallet-owned output is    *)
(* left out, unless the ownership check fails and reads as "not owned"      *)
HandleSpendableOutputs ==
  \E o \in toHandle :
    /\ toHandle' = toHandle \ {o} /\ replayable' = replayable \cup {o}
    /\ \/ o \in owned /\ UNCHANGED writing
       \/ \E k \in FreshKeys :
            /\ \A j \in FreshKeys : k <= j
            /\ writing' = writing \cup {<<k, {o}>>}
    /\ UNCHANGED <<owned, entries, sweep, net, final, reservedCoin, coinKnown,
                   sweepFaults, stale>>

EntryWritten ==
  \E w \in writing :
    /\ writing' = writing \ {w} /\ entries' = entries \cup {w}
    /\ UNCHANGED <<owned, toHandle, replayable, sweep, net, final, reservedCoin,
                   coinKnown, sweepFaults, stale>>

(* The monitors are stored: their events are not replayed any more *)
MonitorsStored ==
  /\ replayable # {} /\ replayable' = {}
  /\ UNCHANGED <<owned, toHandle, writing, entries, sweep, net, final,
                 reservedCoin, coinKnown, sweepFaults, stale>>

-----------------------------------------------------------------------------
(* sweepSpendableOutputs                                                    *)

(* What an entry still has to sweep: wallet-owned outputs and outputs of an *)
(* entry read before it are pruned                                          *)
Earlier(e) == UNION {f[2] : f \in {g \in entries : g[1] < e[1]}}
KeepDuplicates(e) == e[2] \ owned
Keep(e) == e[2] \ (owned \cup Earlier(e))

(* One sweep at a time: startup, events, the retries and the auto-recovery  *)
(* all start one.  Pruned entries are written back, emptied ones deleted.   *)
StartSweep ==
  /\ sweep.pc = "idle" /\ entries # {}
  /\ LET kept == {e \in entries : Keep(e) # {}}
     IN /\ entries' = {<<e[1], Keep(e)>> : e \in kept}
        /\ sweep' = IF kept = {} THEN NoSweep
                    ELSE [pc |-> "fee", keys |-> {e[1] : e \in kept},
                          outs |-> UNION {Keep(e) : e \in kept}, sub |-> FALSE]
  /\ UNCHANGED <<owned, toHandle, replayable, writing, net, final, reservedCoin,
                 coinKnown, sweepFaults, stale>>

(* The entries are kept: no fee rate, an uneconomical or refused subsidy, a *)
(* failed signature or broadcast                                            *)
SweepGivesUp ==
  /\ sweep.pc \in {"fee", "post"} /\ SweepFault /\ sweep' = NoSweep
  /\ UNCHANGED <<owned, toHandle, replayable, writing, entries, net, final,
                 reservedCoin, coinKnown, stale>>

(* Two entries with one output, or an owned one, and LDK refuses to spend *)
Spendable ==
  /\ sweep.outs \cap owned = {}
  /\ \A e, f \in entries : e[1] \in sweep.keys /\ f[1] \in sweep.keys /\ e # f
                             => e[2] \cap f[2] = {}

(* spend_spendable_outputs succeeds, or the outputs cannot pay their fee    *)
(* and confirmed P2WPKH coins not spent by an earlier subsidy do            *)
CoinFree == ~reservedCoin /\ coinKnown = "no"
BuildSweep ==
  /\ sweep.pc = "fee" /\ Spendable
  /\ \/ sweep' = [sweep EXCEPT !.pc = "post"]
     \/ CoinFree /\ sweep' = [sweep EXCEPT !.pc = "post", !.sub = TRUE]
  /\ UNCHANGED <<owned, toHandle, replayable, writing, entries, net, final,
                 reservedCoin, coinKnown, sweepFaults, stale>>

SweepTx == sweep.outs \cup (IF sweep.sub THEN {"coin"} ELSE {})
Conflicts == {t \in net : t \cap SweepTx # {}}

(* The broadcaster posts and retries: accepted, replacing unconfirmed       *)
(* conflicts, or "already-broadcast" because the transaction is known, its  *)
(* inputs are spent, or it may not replace what spends them                 *)
Accepted ==
  /\ sweep.pc = "post" /\ SweepTx \notin net /\ Conflicts \cap final = {}
  /\ net' = (net \ Conflicts) \cup {SweepTx}
  /\ sweep' = [sweep EXCEPT !.pc = "delete"]

AlreadyBroadcast == sweep.pc = "post" /\ Conflicts # {}

(* A subsidized sweep believes the sentinel only if the transaction itself  *)
(* is known; the plain one always does                                      *)
TrustsSentinelAlways == TRUE
TrustsSentinel == sweep.sub => SweepTx \in net

MarkSubsidy ==
  IF sweep.sub THEN reservedCoin' = TRUE /\ coinKnown' = "memory"
  ELSE UNCHANGED <<reservedCoin, coinKnown>>

PostSweep ==
  /\ \/ Accepted /\ MarkSubsidy /\ UNCHANGED sweepFaults
     \/ /\ Accepted /\ SweepFault      \* the answer is lost, then "known"
        /\ MarkSubsidy
     \/ /\ AlreadyBroadcast /\ UNCHANGED <<net, sweepFaults>>
        /\ IF TrustsSentinel
           THEN sweep' = [sweep EXCEPT !.pc = "delete"] /\ MarkSubsidy
           ELSE sweep' = NoSweep /\ UNCHANGED <<reservedCoin, coinKnown>>
  /\ stale' = IF sweep'.pc = "delete"
              THEN stale \cup UNION {t \cup sweep.outs :
                                        t \in {u \in net : u \cap sweep.outs # {}}}
              ELSE stale
  /\ UNCHANGED <<owned, toHandle, replayable, writing, entries, final>>

(* The entries read at the start are deleted, nothing else *)
Remaining == {e \in entries : e[1] \notin sweep.keys}

DeleteSwept ==
  /\ sweep.pc = "delete" /\ sweep' = NoSweep
  /\ \/ entries' = Remaining /\ UNCHANGED sweepFaults
     \/ SweepFault /\ UNCHANGED entries
  /\ UNCHANGED <<owned, toHandle, replayable, writing, net, final, reservedCoin,
                 coinKnown, stale>>

-----------------------------------------------------------------------------
ChangesetWritten ==
  /\ coinKnown = "memory" /\ coinKnown' = "durable"
  /\ UNCHANGED <<owned, toHandle, replayable, writing, entries, sweep, net,
                 final, reservedCoin, sweepFaults, stale>>

(* Another copy of the wallet spends the coin: this one learns it later *)
CoinSpentElsewhere ==
  /\ CoinFree /\ \A t \in net : "coin" \notin t
  /\ net' = net \cup {{"coin"}}
  /\ UNCHANGED <<owned, toHandle, replayable, writing, entries, sweep, final, reservedCoin,
                 coinKnown,
                 sweepFaults, stale>>

(* A transaction confirms and the wallet's next sync sees its inputs *)
ConfirmSweep ==
  \E t \in net \ final :
    /\ final' = final \cup {t}
    /\ coinKnown' = IF "coin" \in t THEN "durable" ELSE coinKnown
    /\ UNCHANGED <<owned, toHandle, replayable, writing, entries, sweep, net,
                   reservedCoin, sweepFaults, stale>>

(* The tab dies: writes under way are lost, events not stored are replayed  *)
CrashSweep ==
  /\ SweepFault
  /\ sweep' = NoSweep /\ writing' = {} /\ reservedCoin' = FALSE
  /\ coinKnown' = IF coinKnown = "memory" THEN "no" ELSE coinKnown
  /\ toHandle' = toHandle \cup replayable /\ replayable' = {}
  /\ stale' = stale \cup ((UNION {w[2] : w \in writing}) \ replayable)
                \cup (IF coinKnown = "memory" THEN Outputs ELSE {})
  /\ UNCHANGED <<owned, entries, net, final>>

SweepNext ==
  \/ CoinSpentElsewhere \/ HandleSpendableOutputs \/ EntryWritten \/ MonitorsStored
  \/ StartSweep \/ SweepGivesUp \/ BuildSweep \/ PostSweep \/ DeleteSwept
  \/ ChangesetWritten \/ ConfirmSweep \/ CrashSweep

SweepSpec == SweepInit /\ [][SweepNext]_sweepVars

-----------------------------------------------------------------------------
SweepTypeOK ==
  /\ toHandle \cup replayable \subseteq Outputs /\ final \subseteq net
  /\ \A e \in writing \cup entries : e[1] \in SweepKeys /\ e[2] \subseteq Outputs

Held(o) ==
  o \in toHandle \cup replayable \cup Stored \cup UNION {w[2] : w \in writing}

(* An output LDK announced is either in the wallet, moved by an accepted        *)
(* transaction, or still held: by LDK, by a write under way or in the store *)
(* (and so in the next sweep).  Left out are outputs whose write a crash    *)
(* cut off, and plain sweeps built over an output that had already moved.   *)
NoOutputDropped == \A o \in Outputs \ (owned \cup stale) : Moved(o) \/ Held(o)

(* A plain sweep the broadcaster settles has moved every output it deletes: *)
(* what subsidized-sweep.ts says of it when it distrusts the broadcaster's  *)
(* "already-broadcast" for itself.                                          *)
PlainSweepSafe ==
  [][(sweep.pc = "post" /\ ~sweep.sub /\ sweep'.pc = "delete")
       => \A o \in sweep.outs : \E t \in net' : o \in t]_sweepVars

(* The store is swept again and again: whatever is stored together,         *)
(* duplicates of replayed events and outputs the wallet already owns        *)
(* included, nothing blocks the batch for good.  Left out is a batch with   *)
(* an output that moved although its entry is still there (its delete       *)
(* failed): a subsidized sweep of it is refused each time.                  *)
SweptInTheEnd ==
  []<>(\/ Stored \ owned \subseteq stale \cup UNION net
       \/ \E p \in Stored : Moved(p))
=============================================================================
