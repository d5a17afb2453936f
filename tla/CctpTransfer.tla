---------------------------- MODULE CctpTransfer ----------------------------
(* One transfer of cctp-kit, driven from several pages (browser tabs) over a  *)
(* shared storage:                                                            *)
(*   core/transfer.ts  runTransfer: burn, attest, claim, sponsorPhase         *)
(*   core/index.ts     execute and its lease, resumeInterrupted, remove...    *)
(* A step is what a page does between two awaits.  Chains, Circle, sponsor    *)
(* and wallets are external: they answer late, not at all, or out of date.    *)
EXTENDS Naturals, FiniteSets

CONSTANTS
  Pages,      \* pages that may have the kit open
  Burns,      \* the burns a wallet may send: bounds them
  Cases,      \* the routes and configurations: from, fast, manual, sponsor
  Mishaps,    \* bound: pages that leave, die, freeze or are torn down, leases that lapse,
              \* removals, misreadings
  None, Gone  \* no value; the owner of a lease whose page is dead

ASSUME CaseAssumption ==
  /\ Cases \subseteq {"sui", "evm", "solana"} \X BOOLEAN \X BOOLEAN \X BOOLEAN
  /\ \A c \in Cases : (c[1] = "sui" => ~c[2] /\ ~c[4]) /\ (c[4] => ~c[3])
ASSUME PageAssumption ==
  /\ None \notin Pages \cup Burns \cup (Burns \X {"sent", "spedUp"})
  /\ Gone \notin Pages \cup {None}

VARIABLES
  from, to,   \* the route: one side is Sui
  fast,       \* a Fast Transfer: its first message expires
  manual,     \* claim: 'manual'
  sponsor,    \* a sponsor is configured and the route is not denied
  chain,      \* the source chain: what became of each burn
  spent,      \* the destination: burns whose message is claimed
  expired,    \* the first attestation is past its expiry
  stored,     \* the record in storage
  lease,      \* the page the lease key names
  at,         \* where each page is: closed, idle, or the await its run is in
  copy,       \* the run's copy of the record
  how,        \* how the run began
  hash,       \* the burn the wallet has sent and not yet answered with
  renewing,   \* pages whose lease timer runs
  aborted,    \* pages whose run is aborted and has not ended
  frozen,     \* pages kept for the back button
  again,      \* pages with a resumeTimer
  mishaps,    \* how many of Mishaps have happened
  lost,       \* history: a run went on without its lease, or a burn went out unheard of
  removed     \* history: remove() deleted the record

world == <<from, to, fast, manual, sponsor>>
chains == <<chain, spent, expired>>
run == <<stored, lease, at, copy, how, renewing, aborted>>
rest == <<frozen, again, mishaps, lost, removed>>
vars == <<world, chains, run, hash, rest>>

(* A hash: the burn as it was sent, or as it was sped up in the wallet.       *)
Hashes == Burns \X {"sent", "spedUp"}

Record == [status : {"pending", "approving", "burning", "attesting", "readyToMint",
                     "minting", "complete", "failed"},
           source : Hashes \cup {None}, dropped : Hashes \cup {None},
           confirmed : BOOLEAN,
           attestation : 0 .. 2,  \* 0: none; 2: signed again
           destination : BOOLEAN, \* destinationTxHash is set
           claim : {None, "pending", "unavailable", "refused"}]

ASSUME RecordAssumption == None \notin Record

NewRecord == [status |-> "pending", source |-> None, dropped |-> None, confirmed |-> FALSE,
              attestation |-> 0, destination |-> FALSE, claim |-> None]

(* The transfer has just been stored: transfer() runs it as a press does.     *)
Init ==
  /\ \E c \in Cases : from = c[1] /\ fast = c[2] /\ manual = c[3] /\ sponsor = c[4]
  /\ to = IF from = "sui" THEN "far" ELSE "sui"
  /\ chain = [b \in Burns |-> "unsent"] /\ spent = {} /\ expired = FALSE
  /\ stored = NewRecord
  /\ lease = None
  /\ at = [p \in Pages |-> "idle"]
  /\ copy = [p \in Pages |-> NewRecord]
  /\ how = [p \in Pages |-> "auto"]
  /\ hash = [p \in Pages |-> None]
  /\ renewing = {} /\ aborted = {} /\ frozen = {} /\ again = {}
  /\ mishaps = 0 /\ lost = FALSE /\ removed = FALSE

Burn(r) == r.source[1]
Unsent == {b \in Burns : chain[b] = "unsent"}
Mined(b) == chain[b] \in {"landed", "spedUp"}
MinedAs(b) == <<b, IF chain[b] = "spedUp" THEN "spedUp" ELSE "sent">>
Expired(r) == r.attestation = 1 /\ expired

-----------------------------------------------------------------------------
(* How a step of a run ends: a write and an await, or the end of the run.     *)
Open(p) == at[p] # "closed" /\ p \notin frozen
At(p, s) == at[p] = s /\ p \notin frozen
Elsewhere(p) == lease \notin {None, p}

Await(p, r, s) ==
  /\ stored' = r
  /\ copy' = [copy EXCEPT ![p] = r]
  /\ at' = [at EXCEPT ![p] = s]
  /\ UNCHANGED <<lease, how, renewing, aborted>>

Move(p, s) == at' = [at EXCEPT ![p] = s] /\ UNCHANGED <<stored, copy, lease, how, renewing, aborted>>

Finish(p) ==
  /\ at' = [at EXCEPT ![p] = "idle"]
  /\ copy' = [copy EXCEPT ![p] = NewRecord]
  /\ lease' = IF lease = p THEN None ELSE lease
  /\ renewing' = renewing \ {p}
  /\ aborted' = aborted \ {p}
  /\ how' = [how EXCEPT ![p] = "auto"]

End(p, r) == stored' = r /\ Finish(p)
Stop(p) == UNCHANGED stored /\ Finish(p)
Go(p, o) == IF o.at = "idle" THEN End(p, o.record) ELSE Await(p, o.record, o.at)

Failed(r) == [r EXCEPT !.status = "failed",
                       !.claim = IF @ = "pending" THEN "unavailable" ELSE @]
Fail(p, r) == IF p \in aborted THEN Stop(p) ELSE End(p, Failed(r))

Completed(r) == [r EXCEPT !.status = "complete", !.claim = None]

-----------------------------------------------------------------------------
(* runTransfer up to its next await, from where the record is.                *)
Stopping == {"stop", "load"}
Served(r) == sponsor /\ r.claim # "refused"

AtClaim(r, h) ==
  IF r.destination THEN [record |-> [r EXCEPT !.status = "complete"], at |-> "idle"]
  ELSE IF h \in Stopping /\ ~Served(r)
    THEN [record |-> [r EXCEPT !.status = "readyToMint"], at |-> "idle"]
  ELSE IF h = "press" /\ to = "sui" /\ ~Expired(r)
    THEN [record |-> [r EXCEPT !.status = "minting", !.claim = IF @ = "pending" THEN None ELSE @],
          at |-> "pressWallet"]
  ELSE IF Served(r)
    THEN [record |-> [r EXCEPT !.status = "minting", !.claim = "pending"], at |-> "nonce"]
  ELSE [record |-> [r EXCEPT !.status = IF @ = "minting" THEN @ ELSE "readyToMint",
                             !.claim = IF @ = "pending" THEN None ELSE @],
        at |-> "nonce"]

AtAttest(r) == [record |-> [r EXCEPT !.status = IF ~r.confirmed /\ @ = "burning"
                                                  THEN @ ELSE "attesting"],
                at |-> "attest"]

AtStart(r, h) ==
  IF r.source = None
    THEN IF from = "sui" THEN [record |-> [r EXCEPT !.status = "burning"], at |-> "burnWallet"]
                         ELSE [record |-> r, at |-> "wallets"]
  ELSE IF r.attestation = 0 THEN AtAttest(r) ELSE AtClaim(r, h)

(* execute(stored, ...): refused while the transfer runs, here or elsewhere.  *)
Begin(p, h) ==
  LET o == AtStart(stored, h) IN
  /\ stored' = o.record
  /\ at' = [at EXCEPT ![p] = o.at]
  /\ IF o.at = "idle"
       THEN lease' = None /\ UNCHANGED <<copy, how, renewing>>
       ELSE /\ lease' = p
            /\ how' = [how EXCEPT ![p] = h]
            /\ renewing' = renewing \cup {p}
            /\ copy' = [copy EXCEPT ![p] = o.record]

Execute(p, h) ==
  /\ At(p, "idle") /\ ~Elsewhere(p) /\ stored # None
  /\ Begin(p, h)
  /\ UNCHANGED <<world, chains, aborted, hash, rest>>

(* Retry, Resume or Claim on the card, when it is offered.                    *)
Press(p) ==
  /\ stored # None /\ stored.status # "complete"
  /\ Execute(p, IF stored.attestation > 0 THEN "press"
                ELSE IF manual THEN "stop" ELSE "auto")

Waits(r) == r.status \in {"readyToMint", "failed"}
AwaitsSponsor(r) ==
  /\ Served(r) /\ r.attestation > 0 /\ ~r.destination
  /\ Waits(r) \/ r.status = "minting"

(* Mutant: a burn that has no hash yet counts as interrupted.                 *)
InterruptedAny(r) ==
  \/ r.status \in {"attesting", "minting", "burning"}
  \/ r.status = "failed" /\ r.source # None /\ r.attestation = 0

Interrupted(r) ==
  \/ r.status \in {"attesting", "minting"}
  \/ r.status = "burning" /\ r.source # None
  \/ r.status = "failed" /\ r.source # None /\ r.attestation = 0

Wanted == stored # None /\ (Interrupted(stored) \/ AwaitsSponsor(stored))

(* retrySponsor: the sponsor may be able to claim now what it could not.      *)
RetrySponsor(p) ==
  /\ stored # None /\ stored.claim = "unavailable" /\ Waits(stored) /\ AwaitsSponsor(stored)
  /\ Execute(p, "load")

-----------------------------------------------------------------------------
(* burn().  Only some of its awaits are followed by a look at the signal.     *)
GotWallets(p) ==
  LET burning == [copy[p] EXCEPT !.status = "burning"] IN
  /\ At(p, "wallets")
  /\ \/ from = "evm" /\ p \in aborted /\ Stop(p)
     \/ from = "evm" /\ p \notin aborted /\ Await(p, burning, "burnWallet")
     \/ from = "evm" /\ p \notin aborted
        /\ Await(p, [copy[p] EXCEPT !.status = "approving"], "approve")
     \/ from = "solana" /\ Await(p, burning, IF copy[p].dropped # None THEN "recheck" ELSE "build")
     \/ Fail(p, copy[p])
  /\ UNCHANGED <<world, chains, hash, rest>>

Approved(p) ==
  /\ At(p, "approve")
  /\ \/ Fail(p, copy[p])
     \/ p \in aborted /\ Stop(p)
     \/ p \notin aborted /\ Await(p, [copy[p] EXCEPT !.status = "burning"], "burnWallet")
  /\ UNCHANGED <<world, chains, hash, rest>>

(* Mutant: a burn that was written off is not looked for again.               *)
RecheckNever(p) ==
  /\ At(p, "recheck")
  /\ Move(p, "build")
  /\ UNCHANGED <<world, chains, hash, rest>>

Recheck(p) ==
  LET r == copy[p]
      found == [r EXCEPT !.source = r.dropped, !.dropped = None] IN
  /\ At(p, "recheck")
  /\ \/ Mined(r.dropped[1]) /\ IF p \in aborted THEN End(p, found) ELSE Go(p, AtAttest(found))
     \/ ~Mined(r.dropped[1]) /\ Move(p, "build")
     \/ Fail(p, r)
  /\ UNCHANGED <<world, chains, hash, rest>>

Built(p) ==
  /\ At(p, "build")
  /\ \/ Fail(p, copy[p])
     \/ p \notin aborted /\ Move(p, "burnWallet")
  /\ UNCHANGED <<world, chains, hash, rest>>

(* The user approves: the burn is sent before the page hears of it.  (One     *)
(* that Sui ran and failed burned nothing: BurnRefused.)                      *)
SendBurn(p) ==
  /\ at[p] = "burnWallet"
  /\ Unsent # {}
  /\ LET b == CHOOSE b \in Unsent : TRUE IN
       /\ chain' = [chain EXCEPT ![b] = IF from = "sui" THEN "landed" ELSE "sent"]
       /\ hash' = [hash EXCEPT ![p] = b]
  /\ at' = [at EXCEPT ![p] = "burnSent"]
  /\ UNCHANGED <<world, spent, expired, stored, lease, copy, how, renewing, aborted, rest>>

BurnRefused(p) ==
  /\ At(p, "burnWallet")
  /\ Fail(p, copy[p])
  /\ UNCHANGED <<world, chains, hash, rest>>

(* Any error of the wallet fails the run, one that came after it had sent too.*)
(* (signAndSendSolanaTransaction keeps the signature when it sends itself.)   *)
BurnUnheard(p) ==
  /\ At(p, "burnSent") /\ mishaps < Mishaps
  /\ Fail(p, copy[p])
  /\ hash' = [hash EXCEPT ![p] = None]
  /\ mishaps' = mishaps + 1 /\ lost' = TRUE
  /\ UNCHANGED <<world, chains, frozen, again, removed>>

RecordBurn(p) ==
  LET r == [copy[p] EXCEPT !.source = <<hash[p], "sent">>, !.dropped = None] IN
  /\ At(p, "burnSent")
  /\ IF p \in aborted THEN End(p, r) ELSE Go(p, AtAttest(r))
  /\ hash' = [hash EXCEPT ![p] = None]
  /\ UNCHANGED <<world, chains, rest>>

-----------------------------------------------------------------------------
(* attest(): Circle and the source chain race.                                *)
CircleAttests(p) ==
  LET r == copy[p] IN
  /\ At(p, "attest")
  /\ Mined(Burn(r)) /\ r.source = MinedAs(Burn(r))
  /\ Go(p, AtClaim([r EXCEPT !.confirmed = TRUE, !.attestation = 1, !.status = "readyToMint"],
                   how[p]))
  /\ UNCHANGED <<world, chains, hash, rest>>

CircleFails(p) ==
  /\ At(p, "attest") \/ At(p, "replaced")
  /\ Fail(p, copy[p])
  /\ UNCHANGED <<world, chains, hash, rest>>

(* confirmSource finds the burn under the hash on record; or its wait for the *)
(* receipt has seen the burn mined under another one, and goes on with that.  *)
Confirmable(p) ==
  LET r == copy[p] IN
  \/ At(p, "attest") /\ ~r.confirmed /\ Mined(Burn(r)) /\ r.source = MinedAs(Burn(r))
  \/ At(p, "replaced")

(* Mutant: the hash the burn was mined under is not taken over.               *)
ChainConfirmsAsSent(p) ==
  /\ Confirmable(p)
  /\ Await(p, [copy[p] EXCEPT !.confirmed = TRUE, !.status = "attesting"], "attest")
  /\ UNCHANGED <<world, chains, hash, rest>>

ChainConfirms(p) ==
  LET r == copy[p] IN
  /\ Confirmable(p)
  /\ Await(p, [r EXCEPT !.confirmed = TRUE, !.status = "attesting", !.source = MinedAs(Burn(r))],
           "attest")
  /\ UNCHANGED <<world, chains, hash, rest>>

(* confirmSource cannot say: the form is no longer held.  A wait that fails   *)
(* once it has seen the replacement is followed by one that knows neither     *)
(* transaction.                                                               *)
ChainSilent(p) ==
  /\ \/ At(p, "attest") /\ ~copy[p].confirmed /\ copy[p].status = "burning" /\ from # "sui"
     \/ At(p, "replaced")
  /\ Await(p, [copy[p] EXCEPT !.status = "attesting"], "attest")
  /\ UNCHANGED <<world, chains, hash, rest>>

(* The burn is ruled out: reverted, replaced, or on Solana expired, which a   *)
(* node that does not hold its slot may say of one that landed.               *)
ChainRejects(p) ==
  LET r == copy[p]
      misread == Mined(Burn(r)) IN
  /\ At(p, "attest") /\ ~r.confirmed
  /\ \/ chain[Burn(r)] = "dead"
     \/ misread /\ from = "solana" /\ mishaps < Mishaps
  /\ End(p, Failed([r EXCEPT !.source = None,
                             !.dropped = IF from = "solana" THEN r.source ELSE @]))
  /\ mishaps' = IF misread THEN mishaps + 1 ELSE mishaps
  /\ UNCHANGED <<world, chains, hash, frozen, again, lost, removed>>

-----------------------------------------------------------------------------
(* The claim.  A nonce that is used may still be read as unused.              *)
ToMint(r) ==
  [record |-> [r EXCEPT !.status = "minting"],
   at |-> IF r.claim = "pending" THEN "sponsor" ELSE IF to = "sui" THEN "claimWallet" ELSE "farWallets"]

ReadNonce(p) ==
  LET r == copy[p] IN
  /\ At(p, "nonce")
  /\ \/ Burn(r) \in spent /\ End(p, Completed(r))
     \/ Expired(r) /\ LET asked == [r EXCEPT !.status = "attesting"] IN
                      IF p \in aborted THEN End(p, asked) ELSE Await(p, asked, "reattest")
     \/ ~Expired(r) /\ Go(p, ToMint(r))
  /\ UNCHANGED <<world, chains, hash, rest>>

GiveUpSponsor(p, r, claim) ==
  IF how[p] \in Stopping THEN End(p, [r EXCEPT !.status = "readyToMint", !.claim = claim])
                         ELSE Await(p, [r EXCEPT !.claim = claim], "claimWallet")

Reattested(p) ==
  LET r == copy[p] IN
  /\ At(p, "reattest")
  /\ \/ Go(p, ToMint([r EXCEPT !.attestation = 2]))
     \/ IF how[p] \in Stopping THEN GiveUpSponsor(p, r, "unavailable") ELSE Fail(p, r)
  /\ UNCHANGED <<world, chains, hash, rest>>

(* Mutant: the service's word is taken.                                       *)
BelieveSponsor(p) ==
  LET r == copy[p] IN
  /\ At(p, "sponsor")
  /\ \/ End(p, [Completed(r) EXCEPT !.destination = TRUE])
     \/ \E c \in {None, "unavailable", "refused"} : GiveUpSponsor(p, r, c)
  /\ UNCHANGED <<world, chains, hash, rest>>

(* The sponsor is not asked, or it answers and the nonce is read.  What it did*)
(* on the chain meanwhile, or does yet, is ClaimedElsewhere.                  *)
AskSponsor(p) ==
  LET r == copy[p] IN
  /\ At(p, "sponsor")
  /\ \/ /\ Burn(r) \in spent
        /\ \E found \in BOOLEAN : End(p, [Completed(r) EXCEPT !.destination = found])
     \/ \E c \in {None, "unavailable", "refused"} : GiveUpSponsor(p, r, c)
  /\ UNCHANGED <<world, chains, hash, rest>>

FarWallets(p) ==
  /\ At(p, "farWallets")
  /\ \/ p \notin aborted /\ Move(p, "claimWallet")
     \/ Fail(p, copy[p])
  /\ UNCHANGED <<world, chains, hash, rest>>

(* The user approves the claim and the destination accepts it.                *)
SendClaim(p) ==
  LET r == copy[p] IN
  /\ at[p] \in {"claimWallet", "pressWallet"}
  /\ Burn(r) \notin spent /\ ~Expired(r)
  /\ spent' = spent \cup {Burn(r)}
  /\ at' = [at EXCEPT ![p] = "claimSent"]
  /\ UNCHANGED <<world, chain, expired, stored, lease, copy, how, renewing, aborted, hash, rest>>

(* Refused by the user, the browser or the chain.                             *)
ClaimRefused(p) ==
  LET r == copy[p] IN
  /\ At(p, "claimWallet") \/ At(p, "pressWallet")
  /\ \/ Fail(p, r)
     \/ /\ p \notin aborted /\ to = "sui"
        /\ IF at[p] = "pressWallet"
             THEN Burn(r) \in spent /\ End(p, [r EXCEPT !.status = "complete"])
             ELSE End(p, [r EXCEPT !.status = "readyToMint"])
  /\ UNCHANGED <<world, chains, hash, rest>>

(* On Sui the digest is kept at once, elsewhere once the receipt is there.    *)
RecordClaim(p) ==
  LET r == copy[p] IN
  /\ At(p, "claimSent")
  /\ IF to = "sui" /\ ~r.destination
       THEN Await(p, [r EXCEPT !.destination = TRUE], "claimSent")
       ELSE \/ End(p, [r EXCEPT !.status = "complete", !.destination = TRUE])
            \/ to = "far" /\ Fail(p, r)
  /\ UNCHANGED <<world, chains, hash, rest>>

-----------------------------------------------------------------------------
(* What happens to the record outside a run.                                  *)

(* settleClaimed: no run anywhere, and the chain shows the nonce used.        *)
SettleClaimed(p) ==
  /\ At(p, "idle") /\ ~Elsewhere(p)
  /\ stored # None /\ stored.attestation > 0 /\ ~stored.destination
  /\ stored.status # "complete" /\ (Waits(stored) \/ to = "sui")
  /\ Burn(stored) \in spent
  /\ stored' = Completed(stored)
  /\ UNCHANGED <<world, chains, lease, at, copy, how, renewing, aborted, hash, rest>>

(* Awaits that end when the run is aborted; the others end when they end.     *)
Heeds(p) ==
  \/ at[p] \in {"attest", "replaced", "reattest", "sponsor"}
  \/ at[p] = "nonce" /\ copy[p].claim = "pending"

Remove(p) ==
  /\ Open(p) /\ stored # None /\ mishaps < Mishaps
  /\ stored' = None
  /\ removed' = TRUE /\ mishaps' = mishaps + 1
  /\ IF at[p] # "idle" /\ Heeds(p)
       THEN Finish(p)
       ELSE /\ aborted' = IF at[p] = "idle" THEN aborted ELSE aborted \cup {p}
            /\ UNCHANGED <<lease, at, copy, how, renewing>>
  /\ UNCHANGED <<world, chains, hash, frozen, again, lost>>

(* Mutant: only the hash is looked at.                                        *)
UnburnedByHash(r) == r.source = None /\ r.status # "complete"

Unburned(r) == r.source = None /\ r.dropped = None /\ r.attestation = 0 /\ r.status # "complete"

RemoveUnburned(p) ==
  /\ At(p, "idle") /\ ~Elsewhere(p)
  /\ stored # None /\ Unburned(stored)
  /\ stored' = None
  /\ UNCHANGED <<world, chains, lease, at, copy, how, renewing, aborted, hash, rest>>

-----------------------------------------------------------------------------
(* Pages come and go.                                                         *)

(* resumeInterrupted on a page where nothing runs.                            *)
ResumeInterrupted(p) ==
  /\ again' = IF Wanted /\ Elsewhere(p) THEN again \cup {p} ELSE again \ {p}
  /\ IF Wanted /\ ~Elsewhere(p)
       THEN Begin(p, "load")
       ELSE at' = [at EXCEPT ![p] = "idle"] /\ UNCHANGED <<stored, lease, copy, how, renewing>>

Load(p) ==
  /\ at[p] = "closed"
  /\ ResumeInterrupted(p)
  /\ UNCHANGED <<world, chains, aborted, hash, frozen, mishaps, lost, removed>>

(* The resumeTimer fires once the leases it saw have lapsed.                  *)
LookAgain(p) ==
  /\ p \in again /\ At(p, "idle") /\ ~Elsewhere(p)
  /\ ResumeInterrupted(p)
  /\ UNCHANGED <<world, chains, aborted, hash, frozen, mishaps, lost, removed>>

(* The page is left, which gives its lease up, or dies with it.               *)
Leave(p) ==
  /\ at[p] # "closed" /\ mishaps < Mishaps
  /\ at' = [at EXCEPT ![p] = "closed"]
  /\ copy' = [copy EXCEPT ![p] = NewRecord]
  /\ lease' \in IF lease = p THEN {None, Gone} ELSE {lease}
  /\ renewing' = renewing \ {p} /\ aborted' = aborted \ {p}
  /\ frozen' = frozen \ {p} /\ again' = again \ {p}
  /\ hash' = [hash EXCEPT ![p] = None]
  /\ mishaps' = mishaps + 1
  /\ lost' = (lost \/ at[p] = "burnSent")
  /\ how' = [how EXCEPT ![p] = "auto"]
  /\ UNCHANGED <<world, chains, stored, removed>>

(* pagehide of a page kept for the back button: its leases are given up and   *)
(* its runs end; one inside an await that does not heed the signal goes on    *)
(* without its lease, to the end of that await at least: lost.                *)
Freeze(p) ==
  /\ Open(p) /\ mishaps < Mishaps
  /\ frozen' = frozen \cup {p}
  /\ mishaps' = mishaps + 1
  /\ IF at[p] = "idle" \/ Heeds(p)
       THEN Finish(p) /\ UNCHANGED lost
       ELSE /\ aborted' = aborted \cup {p}
            /\ lease' = IF lease = p THEN None ELSE lease
            /\ renewing' = renewing \ {p}
            /\ lost' = TRUE
            /\ UNCHANGED <<at, copy, how>>
  /\ UNCHANGED <<world, chains, stored, hash, again, removed>>

Thaw(p) ==
  /\ p \in frozen
  /\ frozen' = frozen \ {p}
  /\ IF at[p] = "idle" THEN ResumeInterrupted(p)
     ELSE UNCHANGED <<stored, lease, at, copy, how, renewing, again>>
  /\ UNCHANGED <<world, chains, aborted, hash, mishaps, lost, removed>>

(* destroy(): the run is aborted; a kit made anew on the page resumes what is *)
(* interrupted once the old run has ended.                                    *)
Destroy(p) ==
  /\ Open(p) /\ mishaps < Mishaps
  /\ mishaps' = mishaps + 1
  /\ again' = again \cup {p}
  /\ IF at[p] = "idle" \/ Heeds(p)
       THEN Finish(p)
       ELSE aborted' = aborted \cup {p} /\ UNCHANGED <<lease, at, copy, how, renewing>>
  /\ UNCHANGED <<world, chains, stored, hash, frozen, lost, removed>>

(* A lease nobody renews lapses: its page is dead, or asleep for too long.    *)
Lapse ==
  /\ lease # None
  /\ lease' = None
  /\ IF lease = Gone THEN UNCHANGED <<mishaps, lost>>
     ELSE mishaps < Mishaps /\ mishaps' = mishaps + 1 /\ lost' = TRUE
  /\ UNCHANGED <<world, chains, stored, at, copy, how, renewing, aborted, hash, frozen, again, removed>>

(* The timer writes the lease whoever has it now.                             *)
Renew(p) ==
  /\ p \in renewing /\ lease # p
  /\ lease' = p
  /\ UNCHANGED <<world, chains, stored, at, copy, how, renewing, aborted, hash, rest>>

-----------------------------------------------------------------------------
(* The chains.                                                                *)
(* A burn that is mined under another hash is seen by a wait for its receipt  *)
(* that has fetched the transaction while it was pending and reads that block:*)
(* not by one that began later, nor in the pause after one that gave up.      *)
Watching(b) == {p \in Pages : At(p, "attest") /\ Burn(copy[p]) = b}

Settle(b) ==
  /\ chain[b] = "sent"
  /\ \/ \E s \in {"landed", "dead"} : chain' = [chain EXCEPT ![b] = s] /\ UNCHANGED at
     \/ /\ from = "evm"
        /\ chain' = [chain EXCEPT ![b] = "spedUp"]
        /\ \E seen \in SUBSET Watching(b) :
             at' = [p \in Pages |-> IF p \in seen THEN "replaced" ELSE at[p]]
  /\ UNCHANGED <<world, spent, expired, stored, lease, copy, how, renewing, aborted, hash, rest>>

(* Anyone may submit an attested message.                                     *)
ClaimedElsewhere(b) ==
  /\ Mined(b) /\ b \notin spent
  /\ spent' = spent \cup {b}
  /\ UNCHANGED <<world, chain, expired, run, hash, rest>>

Expire ==
  /\ ~expired /\ fast
  /\ stored # None /\ stored.attestation = 1
  /\ expired' = TRUE
  /\ UNCHANGED <<world, chain, spent, run, hash, rest>>

-----------------------------------------------------------------------------
RunStep(p) ==
  \/ GotWallets(p) \/ Recheck(p) \/ Built(p) \/ RecordBurn(p)
  \/ CircleAttests(p) \/ CircleFails(p) \/ ChainConfirms(p) \/ ChainSilent(p) \/ ChainRejects(p)
  \/ ReadNonce(p) \/ Reattested(p) \/ AskSponsor(p)
  \/ FarWallets(p) \/ RecordClaim(p)
UserStep(p) ==
  \/ Press(p) \/ Approved(p) \/ SendBurn(p) \/ BurnRefused(p) \/ BurnUnheard(p)
  \/ SendClaim(p) \/ ClaimRefused(p) \/ Remove(p) \/ RemoveUnburned(p)
PageStep(p) ==
  \/ RetrySponsor(p) \/ SettleClaimed(p) \/ Load(p) \/ LookAgain(p) \/ Leave(p) \/ Freeze(p) \/ Thaw(p) \/ Destroy(p)
  \/ Renew(p)

Next ==
  \/ \E p \in Pages : RunStep(p) \/ UserStep(p) \/ PageStep(p)
  \/ Lapse \/ Expire
  \/ \E b \in Burns : Settle(b) \/ ClaimedElsewhere(b)

Spec == Init /\ [][Next]_vars

(* A page's awaits end, the chain and Circle answer in the end; a page that   *)
(* was closed or frozen is opened again; a dead page's lease runs out.  Users *)
(* owe nothing.                                                               *)
Owed(p) ==
  \/ GotWallets(p) \/ Recheck(p) \/ Built(p) \/ RecordBurn(p)
  \/ ChainConfirms(p) \/ CircleAttests(p)
  \/ ReadNonce(p) \/ Reattested(p) \/ AskSponsor(p) \/ FarWallets(p) \/ RecordClaim(p)
  \/ Load(p) \/ Thaw(p) \/ LookAgain(p)
Fairness == (\A p \in Pages : WF_vars(Owed(p))) /\ WF_vars(lease = Gone /\ Lapse)

FairSpec == Spec /\ Fairness

-----------------------------------------------------------------------------
(* The transfer burns once, however often it is retried, from however many    *)
(* pages, whatever the chain was misread to say: unless a run went on without *)
(* its lease (frozen with its page inside an await that does not heed the     *)
(* signal, or asleep until it lapsed), or a burn went out that no page heard  *)
(* of (RUNNING's and PAGE_ID's comments; burn()'s second look).               *)
BurnsOnce ==
  lost \/ Cardinality({b \in Burns : chain[b] \in {"sent", "landed", "spedUp"}}) <= 1

(* A burn that may have moved funds is in the record, unless remove() was     *)
(* asked to delete it, with the exceptions of BurnsOnce: the record is the    *)
(* only way back to it (README, "Persistence and resume"; removeUnburned).    *)
BurnIsKept ==
  \A b \in Burns :
    \/ chain[b] \in {"unsent", "dead"} \/ \E p \in Pages : hash[p] = b
    \/ lost \/ removed
    \/ stored # None /\ \E s \in {"sent", "spedUp"} : <<b, s>> \in {stored.source, stored.dropped}

(* A transfer is shown complete only once its message is claimed on the       *)
(* destination, whatever the sponsor says and through every fault (README,    *)
(* "A transfer is complete only once the chain shows the message as claimed").*)
CompleteIsSpent ==
  stored # None /\ stored.status = "complete" => stored.source # None /\ Burn(stored) \in spent

(* A run nobody asked for never opens a wallet, to burn or to claim           *)
(* (stopAfterAttestation's comment, resumeInterrupted's).                     *)
AtWallet(p) == at[p] \in {"approve", "burnWallet", "burnSent", "claimWallet", "pressWallet", "claimSent"}
UnattendedNeverPrompts == \A p \in Pages : AtWallet(p) => how[p] # "load"

(* A burn on record that was mined is attested to the record, or the transfer *)
(* shows that it failed or is complete, or is removed, though its pages are   *)
(* left, die or are frozen (resumeInterrupted, the resumeTimer): under the    *)
(* hash on record, or under another that a wait for the receipt has seen.     *)
Settled == removed \/ stored = None \/ stored.attestation > 0 \/ stored.status \in {"failed", "complete"}
MinedOnRecord == stored # None /\ stored.source # None /\ Mined(Burn(stored))
Unseen ==
  /\ MinedOnRecord /\ ~stored.confirmed /\ stored.source # MinedAs(Burn(stored))
  /\ \A p \in Pages : at[p] # "replaced"
BurnIsPursued == MinedOnRecord ~> (lost \/ Settled \/ Unseen)

(* "one that was sped up is followed to the hash it was mined under [...]     *)
(* This runs the same for a burn sent a moment ago and for one found in a     *)
(* record after a reload" (transfer.ts:467, :469): a burn that has been mined *)
(* while no page was open is attested once one is.                            *)
FoundBurnIsFollowed ==
  (MinedOnRecord /\ \A p \in Pages : at[p] = "closed") ~> (lost \/ Settled)
-----------------------------------------------------------------------------
(* The inductive invariant: what every copy of the record may say, and where  *)
(* a run may be with it.                                                      *)
BurnAwaits == {"wallets", "approve", "recheck", "build", "burnWallet", "burnSent"}
WalletAwaits == {"farWallets", "claimWallet", "pressWallet", "claimSent"}
ClaimAwaits == {"nonce", "reattest", "sponsor"} \cup WalletAwaits
Awaits == {"closed", "idle", "attest", "replaced"} \cup BurnAwaits \cup ClaimAwaits

(* A record past its burn names it; a claim it knows of is on the chain.      *)
Good(r, claimed) ==
  /\ r \in Record
  /\ r.attestation > 0 \/ r.status \in {"attesting", "readyToMint", "minting", "complete"}
       => r.source # None
  /\ r.destination \/ r.status = "complete" => r.attestation > 0 /\ Burn(r) \in claimed

(* A run is in an await that fits its record and how it began.                *)
Fits(r, s, h) ==
  /\ s \in BurnAwaits => r.source = None /\ h # "load"
  /\ s = "recheck" => r.dropped # None
  /\ s \in {"attest", "replaced"} => r.source # None /\ r.attestation = 0
  /\ s \in ClaimAwaits => r.attestation > 0
  /\ s \in WalletAwaits => h # "load"
  /\ s \in {"nonce", "reattest"} /\ h = "load" => r.claim = "pending"

TypeOK ==
  /\ stored # None => stored \in Record
  /\ at \in [Pages -> Awaits]
  /\ copy \in [Pages -> Record]
  /\ how \in [Pages -> {"auto", "press", "stop", "load"}]
  /\ hash \in [Pages -> Burns \cup {None}]
  /\ spent \subseteq Burns

TransferInv ==
  /\ TypeOK
  /\ stored # None => Good(stored, spent)
  /\ \A p \in Pages : /\ Good(copy[p], spent) /\ Fits(copy[p], at[p], how[p])
                      /\ at[p] = "burnSent" => hash[p] \in Burns
                      /\ at[p] = "claimSent" => Burn(copy[p]) \in spent
=============================================================================
