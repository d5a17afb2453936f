------------------------ MODULE CctpTransfer_proofs ------------------------
(* What a record may say and where a run may be, proved for every set of      *)
(* pages and burns and any number of mishaps: a transfer shown complete is    *)
(* claimed on the chain, a run nobody asked for reaches no wallet, and what   *)
(* was burnt stays on record and is burnt once.                               *)
EXTENDS CctpTransfer, FiniteSetTheorems, TLAPS

Hows == {"auto", "press", "stop", "load"}

(* An outcome of runTransfer up to its next await: a good record, in an await *)
(* that fits it unless the run has ended.                                     *)
Sound(o, h) ==
  /\ Good(o.record, spent)
  /\ o.at \in Awaits \ {"burnSent", "claimSent"}
  /\ Fits(o.record, o.at, h)

LEMMA HashFacts ==
  /\ \A b \in Burns : <<b, "sent">> \in Hashes /\ <<b, "sent">> # None /\ MinedAs(b) \in Hashes
                   /\ MinedAs(b) # None /\ MinedAs(b)[1] = b
  /\ \A r \in Record : r.source # None => r.source \in Hashes /\ Burn(r) \in Burns
BY PageAssumption DEF Hashes, MinedAs, Record, Burn

LEMMA NewRecordIsGood == Good(NewRecord, spent)
BY DEF Good, NewRecord, Record, Hashes

LEMMA SoundAtClaim ==
  ASSUME NEW r, Good(r, spent), r.attestation > 0, NEW h \in Hows
  PROVE  Sound(AtClaim(r, h), h)
<1> USE DEF Record
<1>1. CASE r.destination
  BY <1>1 DEF Sound, AtClaim, Good, Fits, Awaits, BurnAwaits, ClaimAwaits, WalletAwaits, Burn
<1>2. CASE ~r.destination /\ h \in Stopping /\ ~Served(r)
  BY <1>2 DEF Sound, AtClaim, Good, Fits, Awaits, BurnAwaits, ClaimAwaits, WalletAwaits, Burn
<1>3. CASE ~r.destination /\ ~(h \in Stopping /\ ~Served(r))
           /\ h = "press" /\ to = "sui" /\ ~Expired(r)
  BY <1>3 DEF Sound, AtClaim, Good, Fits, Awaits, BurnAwaits, ClaimAwaits, WalletAwaits, Burn
<1>4. CASE ~r.destination /\ ~(h = "press" /\ to = "sui" /\ ~Expired(r)) /\ Served(r)
  BY <1>4 DEF Sound, AtClaim, Good, Fits, Awaits, BurnAwaits, ClaimAwaits, WalletAwaits, Burn
<1>5. CASE ~r.destination /\ ~(h \in Stopping /\ ~Served(r))
           /\ ~(h = "press" /\ to = "sui" /\ ~Expired(r)) /\ ~Served(r)
  BY <1>5, ZenonT(40) DEF Sound, AtClaim, Good, Fits, Awaits, BurnAwaits, ClaimAwaits, WalletAwaits, Burn,
              Stopping
<1> QED BY <1>1, <1>2, <1>3, <1>4, <1>5

LEMMA SoundAtAttest ==
  ASSUME NEW r, Good(r, spent), r.source # None, r.attestation = 0, NEW h \in Hows
  PROVE  Sound(AtAttest(r), h)
BY DEF Sound, AtAttest, Good, Fits, Awaits, BurnAwaits, ClaimAwaits, WalletAwaits, Burn, Record

LEMMA SoundAtStart ==
  ASSUME NEW r, Good(r, spent), NEW h \in Hows, r.source # None \/ h # "load"
  PROVE  Sound(AtStart(r, h), h)
<1>1. CASE r.source = None
  <2>1. r.attestation = 0 /\ ~r.destination /\ r.status # "complete"
    BY <1>1 DEF Good, Record
  <2> QED BY <1>1, <2>1 DEF Sound, AtStart, Good, Fits, Awaits, BurnAwaits, ClaimAwaits,
             WalletAwaits, Record
<1>2. CASE r.source # None /\ r.attestation = 0
  BY <1>2, SoundAtAttest DEF AtStart
<1>3. CASE r.source # None /\ r.attestation # 0
  BY <1>3, SoundAtClaim DEF AtStart, Good, Record
<1> QED BY <1>1, <1>2, <1>3

(* ToMint leads to the sponsor a run that may not open a wallet.              *)
LEMMA SoundToMint ==
  ASSUME NEW r, Good(r, spent), r.attestation > 0, NEW h \in Hows, h = "load" => r.claim = "pending"
  PROVE  Sound(ToMint(r), h)
BY DEF Sound, ToMint, Good, Fits, Awaits, BurnAwaits, ClaimAwaits, WalletAwaits, Burn, Record

LEMMA GoodFailed == ASSUME NEW r, Good(r, spent) PROVE Good(Failed(r), spent)
BY DEF Good, Failed, Record, Burn

LEMMA GoodCompleted ==
  ASSUME NEW r, Good(r, spent), r.attestation > 0, Burn(r) \in spent
  PROVE  Good(Completed(r), spent) /\ \A d \in BOOLEAN : Good([Completed(r) EXCEPT !.destination = d], spent)
BY DEF Good, Completed, Record, Burn

-----------------------------------------------------------------------------
(* A step of one page keeps the invariant when the record it stores is good,  *)
(* and the copy and the await it leaves fit how its run began.                *)
LEMMA PageStepKeeps ==
  ASSUME TransferInv, NEW p \in Pages, NEW c, NEW s \in Awaits, NEW h \in Hows,
         spent \subseteq spent', spent' \subseteq Burns,
         stored' # None /\ stored' # stored => Good(stored', spent'),
         Good(c, spent'), Fits(c, s, h),
         copy' = [copy EXCEPT ![p] = c],
         at' = [at EXCEPT ![p] = s],
         how' = [how EXCEPT ![p] = h],
         hash' \in [Pages -> Burns \cup {None}],
         \A q \in Pages \ {p} : hash'[q] = hash[q],
         s = "burnSent" => hash'[p] \in Burns,
         s = "claimSent" => Burn(c) \in spent'
  PROVE  TransferInv'
<1>1. \A r : Good(r, spent) => Good(r, spent')
  BY DEF Good
<1>2. TypeOK'
  BY DEF TransferInv, TypeOK, Good, Hows
<1>3. (stored # None => Good(stored, spent))'
  BY <1>1 DEF TransferInv
<1>4. ASSUME NEW q \in Pages
      PROVE  (/\ Good(copy[q], spent) /\ Fits(copy[q], at[q], how[q])
              /\ at[q] = "burnSent" => hash[q] \in Burns
              /\ at[q] = "claimSent" => Burn(copy[q]) \in spent)'
  <2>1. CASE q = p
    BY <2>1 DEF TransferInv, TypeOK
  <2>2. CASE q # p
    <3>1. copy'[q] = copy[q] /\ at'[q] = at[q] /\ how'[q] = how[q] /\ hash'[q] = hash[q]
      BY <2>2 DEF TransferInv, TypeOK
    <3> QED BY <1>1, <3>1 DEF TransferInv
  <2> QED BY <2>1, <2>2
<1> QED BY <1>2, <1>3, <1>4 DEF TransferInv

(* The ways a step of a run ends.  Nothing is claimed in it.                  *)
HashKept(p) ==
  /\ hash' \in [Pages -> Burns \cup {None}]
  /\ \A q \in Pages \ {p} : hash'[q] = hash[q]

LEMMA NoHashChange == TransferInv /\ UNCHANGED hash => \A p \in Pages : HashKept(p)
BY DEF TransferInv, TypeOK, HashKept

LEMMA AwaitKeeps ==
  ASSUME TransferInv, NEW p \in Pages, NEW r, NEW s \in Awaits \ {"burnSent"},
         Good(r, spent), Fits(r, s, how[p]), s = "claimSent" => Burn(r) \in spent,
         Await(p, r, s), UNCHANGED spent, HashKept(p)
  PROVE  TransferInv'
<1>1. how[p] \in Hows /\ how' = [how EXCEPT ![p] = how[p]] /\ spent \subseteq Burns
  BY DEF TransferInv, TypeOK, Hows, Await
<1>2. stored' = r /\ copy' = [copy EXCEPT ![p] = r] /\ at' = [at EXCEPT ![p] = s]
  BY DEF Await
<1> QED BY <1>1, <1>2, PageStepKeeps DEF HashKept

LEMMA MoveKeeps ==
  ASSUME TransferInv, NEW p \in Pages, NEW s \in Awaits \ {"burnSent", "claimSent"},
         Fits(copy[p], s, how[p]), Move(p, s), UNCHANGED spent, HashKept(p)
  PROVE  TransferInv'
<1>1. /\ how[p] \in Hows /\ how' = [how EXCEPT ![p] = how[p]] /\ spent \subseteq Burns
      /\ Good(copy[p], spent) /\ copy' = [copy EXCEPT ![p] = copy[p]]
  BY DEF TransferInv, TypeOK, Hows, Move
<1>2. stored' = stored /\ at' = [at EXCEPT ![p] = s]
  BY DEF Move
<1> QED BY <1>1, <1>2, PageStepKeeps DEF HashKept

LEMMA FinishKeeps ==
  ASSUME TransferInv, NEW p \in Pages, Finish(p), UNCHANGED spent, HashKept(p),
         stored' # None /\ stored' # stored => Good(stored', spent)
  PROVE  TransferInv'
<1>1. Fits(NewRecord, "idle", "auto") /\ "idle" \in Awaits /\ "auto" \in Hows
  BY DEF Fits, Awaits, BurnAwaits, ClaimAwaits, WalletAwaits, Hows
<1>2. spent \subseteq Burns
  BY DEF TransferInv, TypeOK
<1>3. /\ copy' = [copy EXCEPT ![p] = NewRecord] /\ at' = [at EXCEPT ![p] = "idle"]
      /\ how' = [how EXCEPT ![p] = "auto"]
  BY DEF Finish
<1> QED BY <1>1, <1>2, <1>3, NewRecordIsGood, PageStepKeeps DEF HashKept

LEMMA EndKeeps ==
  ASSUME TransferInv, NEW p \in Pages, NEW r, Good(r, spent), End(p, r), UNCHANGED spent, HashKept(p)
  PROVE  TransferInv'
BY FinishKeeps DEF End

LEMMA FailKeeps ==
  ASSUME TransferInv, NEW p \in Pages, NEW r, Good(r, spent), Fail(p, r), UNCHANGED spent, HashKept(p)
  PROVE  TransferInv'
BY FinishKeeps, GoodFailed DEF Fail, End, Stop

LEMMA GoKeeps ==
  ASSUME TransferInv, NEW p \in Pages, NEW o, Sound(o, how[p]), Go(p, o), UNCHANGED spent, HashKept(p)
  PROVE  TransferInv'
<1>1. o.at \in Awaits \ {"burnSent", "claimSent"} /\ Good(o.record, spent)
      /\ Fits(o.record, o.at, how[p])
  BY DEF Sound
<1> QED BY <1>1, EndKeeps, AwaitKeeps DEF Go

LEMMA GiveUpKeeps ==
  ASSUME TransferInv, NEW p \in Pages, NEW r, NEW c \in {None, "unavailable", "refused"},
         Good(r, spent), r.attestation > 0, GiveUpSponsor(p, r, c), UNCHANGED spent, HashKept(p)
  PROVE  TransferInv'
<1>1. CASE how[p] \in Stopping
  <2>1. Good([r EXCEPT !.status = "readyToMint", !.claim = c], spent)
    BY DEF Good, Record, Burn
  <2> QED BY <1>1, <2>1, EndKeeps DEF GiveUpSponsor
<1>2. CASE how[p] \notin Stopping
  <2>1. Good([r EXCEPT !.claim = c], spent)
    BY DEF Good, Record, Burn
  <2>2. Fits([r EXCEPT !.claim = c], "claimWallet", how[p])
    BY <1>2 DEF Fits, Good, Record, BurnAwaits, ClaimAwaits, WalletAwaits, Stopping
  <2> QED BY <1>2, <2>1, <2>2, AwaitKeeps DEF GiveUpSponsor, Awaits, ClaimAwaits, WalletAwaits
<1> QED BY <1>1, <1>2

(* execute: the record is in storage, and a run nobody asked for has a burn   *)
(* to follow.                                                                 *)
LEMMA BeginKeeps ==
  ASSUME TransferInv, NEW p \in Pages, NEW h \in Hows, at[p] \in {"idle", "closed"}, stored # None,
         stored.source # None \/ h # "load", Begin(p, h), UNCHANGED <<spent, hash>>
  PROVE  TransferInv'
<1> DEFINE o == AtStart(stored, h)
<1>1. Sound(o, h) /\ stored' = o.record /\ at' = [at EXCEPT ![p] = o.at]
  BY SoundAtStart DEF TransferInv, Begin
<1>2. spent \subseteq Burns /\ HashKept(p) /\ how[p] \in Hows
  BY NoHashChange DEF TransferInv, TypeOK, Hows
<1>3. CASE o.at = "idle"
  <2>1. copy' = [copy EXCEPT ![p] = copy[p]] /\ how' = [how EXCEPT ![p] = how[p]]
    BY <1>3 DEF Begin, TransferInv, TypeOK
  <2>2. Good(copy[p], spent) /\ Fits(copy[p], "idle", how[p])
    BY DEF TransferInv, Fits, BurnAwaits, ClaimAwaits, WalletAwaits
  <2> HIDE DEF o
  <2> QED BY <1>1, <1>2, <1>3, <2>1, <2>2, PageStepKeeps DEF Sound, HashKept
<1>4. CASE o.at # "idle"
  <2>1. copy' = [copy EXCEPT ![p] = o.record] /\ how' = [how EXCEPT ![p] = h]
    BY <1>4 DEF Begin
  <2> HIDE DEF o
  <2> QED BY <1>1, <1>2, <2>1, PageStepKeeps DEF Sound, HashKept
<1> QED BY <1>3, <1>4

LEMMA ResumeKeeps ==
  ASSUME TransferInv, NEW p \in Pages, at[p] \in {"idle", "closed"},
         ResumeInterrupted(p), UNCHANGED <<spent, hash>>
  PROVE  TransferInv'
<1>1. CASE Wanted /\ ~Elsewhere(p)
  <2>1. stored # None /\ stored.source # None
    BY <1>1 DEF Wanted, Interrupted, AwaitsSponsor, TransferInv, Good, Record
  <2>2. Begin(p, "load") /\ "load" \in Hows
    BY <1>1 DEF ResumeInterrupted, Hows
  <2> QED BY <2>1, <2>2, BeginKeeps
<1>2. CASE ~(Wanted /\ ~Elsewhere(p))
  <2>1. /\ at' = [at EXCEPT ![p] = "idle"] /\ stored' = stored
        /\ copy' = [copy EXCEPT ![p] = copy[p]] /\ how' = [how EXCEPT ![p] = how[p]]
    BY <1>2 DEF ResumeInterrupted, TransferInv, TypeOK
  <2>2. /\ Good(copy[p], spent) /\ Fits(copy[p], "idle", how[p]) /\ "idle" \in Awaits
        /\ spent \subseteq Burns /\ HashKept(p) /\ how[p] \in Hows
    BY NoHashChange DEF TransferInv, TypeOK, Fits, Awaits, BurnAwaits, ClaimAwaits, WalletAwaits, Hows
  <2> QED BY <2>1, <2>2, PageStepKeeps DEF HashKept
<1> QED BY <1>1, <1>2

-----------------------------------------------------------------------------
(* What a run knows where it is.                                              *)
LEMMA CopyFacts ==
  ASSUME TransferInv, NEW p \in Pages
  PROVE  /\ copy[p] \in Record /\ Good(copy[p], spent) /\ Fits(copy[p], at[p], how[p])
         /\ how[p] \in Hows /\ spent \subseteq Burns
         /\ copy[p].source # None => copy[p].source \in Hashes /\ Burn(copy[p]) \in Burns
         /\ at[p] \in BurnAwaits => copy[p].source = None /\ copy[p].attestation = 0
                                    /\ ~copy[p].destination /\ how[p] # "load"
         /\ at[p] \in {"attest", "replaced"} => copy[p].source # None /\ copy[p].attestation = 0
                                                /\ ~copy[p].destination
         /\ at[p] \in ClaimAwaits => copy[p].attestation > 0 /\ copy[p].source # None
         /\ at[p] \in WalletAwaits => how[p] # "load"
<1>1. /\ copy[p] \in Record /\ Good(copy[p], spent) /\ Fits(copy[p], at[p], how[p])
      /\ how[p] \in Hows /\ spent \subseteq Burns
  BY DEF TransferInv, TypeOK, Hows
<1>2. copy[p].source # None => copy[p].source \in Hashes /\ Burn(copy[p]) \in Burns
  BY <1>1, HashFacts
<1> QED BY <1>1, <1>2 DEF Good, Fits, Record

LEMMA BurnStepsKeep ==
  ASSUME TransferInv, NEW p \in Pages,
         GotWallets(p) \/ Approved(p) \/ Recheck(p) \/ Built(p) \/ SendBurn(p) \/ BurnRefused(p)
           \/ BurnUnheard(p) \/ RecordBurn(p)
  PROVE  TransferInv'
<1> DEFINE r == copy[p]
<1>a. /\ r \in Record /\ Good(r, spent) /\ Fits(r, at[p], how[p]) /\ how[p] \in Hows
      /\ spent \subseteq Burns
  BY CopyFacts
<1>b. at[p] \in BurnAwaits => r.source = None /\ r.attestation = 0 /\ ~r.destination
                             /\ how[p] # "load"
  BY CopyFacts
<1> HIDE DEF r
<1>c. ASSUME at[p] \in BurnAwaits, NEW st \in {"burning", "approving"}
      PROVE  Good([r EXCEPT !.status = st], spent)
  BY <1>a, <1>b, <1>c DEF Good, Record
<1>d. ASSUME at[p] \in BurnAwaits, NEW q, q.source = None, q.dropped = r.dropped,
             NEW s \in BurnAwaits, s = "recheck" => r.dropped # None
      PROVE  Fits(q, s, how[p])
  BY <1>b, <1>d DEF Fits, BurnAwaits, ClaimAwaits, WalletAwaits
<1>e. UNCHANGED hash => HashKept(p)
  BY NoHashChange
<1>1. CASE GotWallets(p)
  <2>1. at[p] \in BurnAwaits /\ UNCHANGED spent /\ HashKept(p)
    BY <1>1, <1>e DEF GotWallets, At, BurnAwaits, chains
  <2>2. CASE Stop(p)
    BY <2>1, <2>2, FinishKeeps DEF Stop
  <2>3. ASSUME NEW st \in {"burning", "approving"}, NEW s \in {"burnWallet", "approve", "recheck", "build"},
               Await(p, [r EXCEPT !.status = st], s), s = "recheck" => r.dropped # None
        PROVE  TransferInv'
    <3>1. [r EXCEPT !.status = st].source = None /\ [r EXCEPT !.status = st].dropped = r.dropped
      BY <1>a, <1>b, <2>1 DEF Record
    <3>2. Fits([r EXCEPT !.status = st], s, how[p]) /\ s \in Awaits \ {"burnSent"} /\ s # "claimSent"
      BY <1>d, <2>1, <2>3, <3>1 DEF BurnAwaits, Awaits
    <3> QED BY <1>c, <2>1, <2>3, <3>2, AwaitKeeps
  <2>4. CASE Fail(p, r)
    BY <1>a, <2>1, <2>4, FailKeeps
  <2> QED BY <1>1, <2>2, <2>3, <2>4 DEF GotWallets, r
<1>2. CASE Approved(p)
  <2>1. at[p] \in BurnAwaits /\ UNCHANGED spent /\ HashKept(p)
    BY <1>2, <1>e DEF Approved, At, BurnAwaits, chains
  <2>2. CASE Stop(p)
    BY <2>1, <2>2, FinishKeeps DEF Stop
  <2>3. CASE Await(p, [r EXCEPT !.status = "burning"], "burnWallet")
    <3>1. [r EXCEPT !.status = "burning"].source = None
          /\ [r EXCEPT !.status = "burning"].dropped = r.dropped
      BY <1>a, <1>b, <2>1 DEF Record
    <3>2. Fits([r EXCEPT !.status = "burning"], "burnWallet", how[p])
          /\ "burnWallet" \in Awaits
      BY <1>d, <2>1, <3>1 DEF BurnAwaits, Awaits
    <3> QED BY <1>c, <2>1, <2>3, <3>2, AwaitKeeps
  <2>4. CASE Fail(p, r)
    BY <1>a, <2>1, <2>4, FailKeeps
  <2> QED BY <1>2, <2>2, <2>3, <2>4 DEF Approved, r
<1>3. CASE Recheck(p)
  <2> DEFINE found == [r EXCEPT !.source = r.dropped, !.dropped = None]
  <2>1. at[p] \in BurnAwaits /\ at[p] = "recheck" /\ UNCHANGED spent /\ HashKept(p)
    BY <1>3, <1>e DEF Recheck, At, BurnAwaits, chains
  <2>2. Good(found, spent) /\ found.source # None /\ found.attestation = 0
    BY <1>a, <1>b, <2>1 DEF Good, Fits, Record
  <2>3. CASE End(p, found) \/ Go(p, AtAttest(found))
    <3> HIDE DEF found
    <3> QED BY <1>a, <2>1, <2>2, <2>3, SoundAtAttest, EndKeeps, GoKeeps
  <2>4. CASE Move(p, "build")
    <3>1. Fits(copy[p], "build", how[p]) /\ "build" \in Awaits
      BY <1>b, <2>1 DEF Fits, BurnAwaits, ClaimAwaits, WalletAwaits, Awaits, r
    <3> QED BY <2>1, <2>4, <3>1, MoveKeeps
  <2>5. CASE Fail(p, r)
    BY <1>a, <2>1, <2>5, FailKeeps
  <2> QED BY <1>3, <2>3, <2>4, <2>5 DEF Recheck, r
<1>4. CASE Built(p)
  <2>1. at[p] \in BurnAwaits /\ UNCHANGED spent /\ HashKept(p)
    BY <1>4, <1>e DEF Built, At, BurnAwaits, chains
  <2>2. CASE Move(p, "burnWallet")
    <3>1. Fits(copy[p], "burnWallet", how[p]) /\ "burnWallet" \in Awaits
      BY <1>b, <2>1 DEF Fits, BurnAwaits, ClaimAwaits, WalletAwaits, Awaits, r
    <3> QED BY <2>1, <2>2, <3>1, MoveKeeps
  <2>3. CASE Fail(p, r)
    BY <1>a, <2>1, <2>3, FailKeeps
  <2> QED BY <1>4, <2>2, <2>3 DEF Built, r
<1>5. CASE SendBurn(p)
  <2>1. PICK b \in Burns : hash' = [hash EXCEPT ![p] = b]
    <3>1. (CHOOSE b \in Unsent : TRUE) \in Burns
      BY <1>5 DEF SendBurn, Unsent
    <3> QED BY <1>5, <3>1 DEF SendBurn
  <2>2. HashKept(p) /\ hash'[p] \in Burns
    BY <2>1 DEF HashKept, TransferInv, TypeOK
  <2>3. Fits(copy[p], "burnSent", how[p]) /\ "burnSent" \in Awaits
    BY <1>5, <1>b DEF SendBurn, Fits, BurnAwaits, ClaimAwaits, WalletAwaits, Awaits, r
  <2>4. /\ copy' = [copy EXCEPT ![p] = copy[p]] /\ how' = [how EXCEPT ![p] = how[p]]
        /\ at' = [at EXCEPT ![p] = "burnSent"] /\ spent' = spent /\ stored' = stored
    BY <1>5 DEF SendBurn, TransferInv, TypeOK
  <2> QED BY <1>a, <2>2, <2>3, <2>4, PageStepKeeps DEF HashKept, r
<1>6. CASE BurnRefused(p)
  BY <1>6, <1>a, <1>e, FailKeeps DEF BurnRefused, chains, r
<1>7. CASE RecordBurn(p)
  <2> DEFINE sent == [r EXCEPT !.source = <<hash[p], "sent">>, !.dropped = None]
  <2>1. at[p] \in BurnAwaits /\ at[p] = "burnSent" /\ UNCHANGED spent
    BY <1>7 DEF RecordBurn, At, BurnAwaits, chains
  <2>2. hash[p] \in Burns
    BY <2>1 DEF TransferInv
  <2>3. Good(sent, spent) /\ sent.source # None /\ sent.attestation = 0
    BY <1>a, <1>b, <2>1, <2>2, HashFacts DEF Good, Record
  <2>4. HashKept(p)
    BY <1>7 DEF RecordBurn, HashKept, TransferInv, TypeOK
  <2>5. End(p, sent) \/ Go(p, AtAttest(sent))
    BY <1>7 DEF RecordBurn, r
  <2> HIDE DEF sent
  <2> QED BY <1>a, <2>1, <2>3, <2>4, <2>5, SoundAtAttest, EndKeeps, GoKeeps
<1>8. CASE BurnUnheard(p)
  <2>1. Fail(p, r) /\ UNCHANGED spent /\ HashKept(p)
    BY <1>8 DEF BurnUnheard, HashKept, TransferInv, TypeOK, chains, r
  <2> QED BY <1>a, <2>1, FailKeeps DEF r
<1> QED BY <1>1, <1>2, <1>3, <1>4, <1>5, <1>6, <1>7, <1>8

LEMMA AttestedRecord ==
  ASSUME NEW r \in Record
  PROVE  [r EXCEPT !.confirmed = TRUE, !.attestation = 1, !.status = "readyToMint"] \in Record
<1>1. [r EXCEPT !.attestation = 1] \in Record
  BY DEF Record
<1>2. \A x \in Record : [x EXCEPT !.confirmed = TRUE, !.status = "readyToMint"] \in Record
  BY DEF Record
<1>3. [r EXCEPT !.confirmed = TRUE, !.attestation = 1, !.status = "readyToMint"]
      = [[r EXCEPT !.attestation = 1] EXCEPT !.confirmed = TRUE, !.status = "readyToMint"]
  BY DEF Record
<1> QED BY <1>1, <1>2, <1>3

LEMMA AttestStepsKeep ==
  ASSUME TransferInv, NEW p \in Pages,
         CircleAttests(p) \/ CircleFails(p) \/ ChainConfirms(p) \/ ChainSilent(p) \/ ChainRejects(p)
  PROVE  TransferInv'
<1> DEFINE r == copy[p]
<1>a. /\ r \in Record /\ Good(r, spent) /\ how[p] \in Hows /\ at[p] \in {"attest", "replaced"}
      /\ UNCHANGED spent /\ HashKept(p)
  BY CopyFacts, NoHashChange
     DEF CircleAttests, CircleFails, ChainConfirms, Confirmable, ChainSilent, ChainRejects, At, chains
<1>b. r.source # None /\ r.attestation = 0 /\ ~r.destination /\ Burn(r) \in Burns
  BY <1>a, CopyFacts
<1> HIDE DEF r
<1>c. ASSUME NEW q \in Record, q.source # None, q.attestation = 0, ~q.destination,
             q.status = "attesting", Await(p, q, "attest")
      PROVE  TransferInv'
  <2>1. Good(q, spent) /\ Fits(q, "attest", how[p]) /\ "attest" \in Awaits
    BY <1>c DEF Good, Fits, Awaits, BurnAwaits, ClaimAwaits, WalletAwaits
  <2> QED BY <1>a, <1>c, <2>1, AwaitKeeps
<1>1. CASE CircleAttests(p)
  <2> DEFINE q == [r EXCEPT !.confirmed = TRUE, !.attestation = 1, !.status = "readyToMint"]
  <2>1. q \in Record
    BY <1>a, AttestedRecord
  <2>2. q.attestation = 1 /\ q.source = r.source /\ q.status = "readyToMint"
    BY <1>a DEF Record
  <2>3. ~q.destination
    BY <1>a, <1>b DEF Record
  <2>4. Go(p, AtClaim(q, how[p]))
    BY <1>1 DEF CircleAttests, r
  <2> HIDE DEF q
  <2>5. Good(q, spent) /\ q.attestation > 0
    BY <1>b, <2>1, <2>2, <2>3 DEF Good
  <2> QED BY <1>a, <2>4, <2>5, SoundAtClaim, GoKeeps
<1>2. CASE CircleFails(p)
  BY <1>2, <1>a, FailKeeps DEF CircleFails, r
<1>3. CASE ChainConfirms(p)
  <2> DEFINE q == [r EXCEPT !.confirmed = TRUE, !.status = "attesting", !.source = MinedAs(Burn(r))]
  <2>1. /\ q \in Record /\ q.source # None /\ q.attestation = 0 /\ ~q.destination
        /\ q.status = "attesting"
    BY <1>a, <1>b, HashFacts DEF Record
  <2>2. Await(p, q, "attest")
    BY <1>3 DEF ChainConfirms, r
  <2> HIDE DEF q
  <2> QED BY <1>c, <2>1, <2>2
<1>4. CASE ChainSilent(p)
  <2> DEFINE q == [r EXCEPT !.status = "attesting"]
  <2>1. /\ q \in Record /\ q.source # None /\ q.attestation = 0 /\ ~q.destination
        /\ q.status = "attesting"
    BY <1>a, <1>b DEF Record
  <2>2. Await(p, q, "attest")
    BY <1>4 DEF ChainSilent, r
  <2> HIDE DEF q
  <2> QED BY <1>c, <2>1, <2>2
<1>5. CASE ChainRejects(p)
  <2> DEFINE q == [r EXCEPT !.source = None, !.dropped = IF from = "solana" THEN r.source ELSE @]
  <2>1. q \in Record /\ q.attestation = 0 /\ ~q.destination
    BY <1>a, <1>b DEF Record
  <2>2. End(p, Failed(q))
    BY <1>5 DEF ChainRejects, r
  <2> HIDE DEF q
  <2>3. /\ Failed(q) \in Record /\ Failed(q).attestation = 0 /\ ~Failed(q).destination
        /\ Failed(q).status = "failed"
    BY <2>1 DEF Failed, Record
  <2>4. Good(Failed(q), spent)
    BY <2>3 DEF Good
  <2> QED BY <1>a, <2>2, <2>4, EndKeeps
<1> QED BY <1>1, <1>2, <1>3, <1>4, <1>5

LEMMA ClaimStepsKeep ==
  ASSUME TransferInv, NEW p \in Pages,
         ReadNonce(p) \/ Reattested(p) \/ AskSponsor(p) \/ FarWallets(p) \/ SendClaim(p)
           \/ ClaimRefused(p) \/ RecordClaim(p)
  PROVE  TransferInv'
<1> DEFINE r == copy[p]
<1>a. /\ r \in Record /\ Good(r, spent) /\ Fits(r, at[p], how[p]) /\ how[p] \in Hows
      /\ spent \subseteq Burns /\ at[p] \in ClaimAwaits
      /\ r.attestation > 0 /\ r.source # None /\ Burn(r) \in Burns
      /\ at[p] \in WalletAwaits => how[p] # "load"
  <2>1. at[p] \in ClaimAwaits
    BY DEF ReadNonce, Reattested, AskSponsor, FarWallets, SendClaim, ClaimRefused, RecordClaim, At,
           ClaimAwaits, WalletAwaits
  <2> QED BY <2>1, CopyFacts
<1>b. UNCHANGED hash => HashKept(p)
  BY NoHashChange
<1>c. ASSUME at[p] \in WalletAwaits, NEW q, q.attestation > 0,
             NEW s \in WalletAwaits
      PROVE  Fits(q, s, how[p]) /\ s \in Awaits
  BY <1>a, <1>c DEF Fits, Awaits, BurnAwaits, ClaimAwaits, WalletAwaits
<1> HIDE DEF r
<1>1. CASE ReadNonce(p)
  <2>1. at[p] = "nonce" /\ UNCHANGED spent /\ HashKept(p)
    BY <1>1, <1>b DEF ReadNonce, At, chains
  <2>2. how[p] = "load" => r.claim = "pending"
    BY <1>a, <2>1 DEF Fits
  <2>3. CASE Burn(r) \in spent /\ End(p, Completed(r))
    BY <1>a, <2>1, <2>3, GoodCompleted, EndKeeps
  <2>4. CASE End(p, [r EXCEPT !.status = "attesting"])
             \/ Await(p, [r EXCEPT !.status = "attesting"], "reattest")
    <3> DEFINE q == [r EXCEPT !.status = "attesting"]
    <3>1. q.source # None /\ q.attestation > 0 /\ q.claim = r.claim /\ Good(q, spent)
      BY <1>a DEF Good, Record, Burn
    <3>2. End(p, q) \/ Await(p, q, "reattest")
      BY <2>4
    <3> HIDE DEF q
    <3>3. Fits(q, "reattest", how[p]) /\ "reattest" \in Awaits
      BY <2>2, <3>1 DEF Fits, Awaits, BurnAwaits, ClaimAwaits, WalletAwaits
    <3> QED BY <2>1, <3>1, <3>2, <3>3, EndKeeps, AwaitKeeps
  <2>5. CASE Go(p, ToMint(r))
    BY <1>a, <2>1, <2>2, <2>5, SoundToMint, GoKeeps
  <2> QED BY <1>1, <2>3, <2>4, <2>5 DEF ReadNonce, r
<1>2. CASE Reattested(p)
  <2>1. at[p] = "reattest" /\ UNCHANGED spent /\ HashKept(p)
    BY <1>2, <1>b DEF Reattested, At, chains
  <2>2. CASE Go(p, ToMint([r EXCEPT !.attestation = 2]))
    <3> DEFINE q == [r EXCEPT !.attestation = 2]
    <3>1. Good(q, spent) /\ q.attestation > 0 /\ q.claim = r.claim
      BY <1>a DEF Good, Record, Burn
    <3>2. how[p] = "load" => q.claim = "pending"
      BY <1>a, <2>1, <3>1 DEF Fits
    <3>3. Go(p, ToMint(q))
      BY <2>2
    <3> HIDE DEF q
    <3> QED BY <1>a, <2>1, <3>1, <3>2, <3>3, SoundToMint, GoKeeps
  <2>3. CASE GiveUpSponsor(p, r, "unavailable")
    BY <1>a, <2>1, <2>3, GiveUpKeeps
  <2>4. CASE Fail(p, r)
    BY <1>a, <2>1, <2>4, FailKeeps
  <2> QED BY <1>2, <2>2, <2>3, <2>4 DEF Reattested, r
<1>3. CASE AskSponsor(p)
  <2>1. UNCHANGED spent /\ HashKept(p)
    BY <1>3, <1>b DEF AskSponsor, chains
  <2>2. ASSUME NEW found \in BOOLEAN, Burn(r) \in spent,
               End(p, [Completed(r) EXCEPT !.destination = found])
        PROVE  TransferInv'
    BY <1>a, <2>1, <2>2, GoodCompleted, EndKeeps
  <2>3. ASSUME NEW c \in {None, "unavailable", "refused"}, GiveUpSponsor(p, r, c)
        PROVE  TransferInv'
    BY <1>a, <2>1, <2>3, GiveUpKeeps
  <2> QED BY <1>3, <2>2, <2>3 DEF AskSponsor, r
<1>4. CASE FarWallets(p)
  <2>1. at[p] \in WalletAwaits /\ UNCHANGED spent /\ HashKept(p)
    BY <1>4, <1>b DEF FarWallets, At, WalletAwaits, chains
  <2>2. CASE Move(p, "claimWallet")
    BY <1>a, <1>c, <2>1, <2>2, MoveKeeps DEF WalletAwaits, r
  <2>3. CASE Fail(p, r)
    BY <1>a, <2>1, <2>3, FailKeeps
  <2> QED BY <1>4, <2>2, <2>3 DEF FarWallets, r
<1>5. CASE SendClaim(p)
  <2>1. at[p] \in WalletAwaits /\ HashKept(p) /\ spent' = spent \cup {Burn(r)}
    BY <1>5, <1>b DEF SendClaim, WalletAwaits, r
  <2>2. /\ copy' = [copy EXCEPT ![p] = copy[p]] /\ how' = [how EXCEPT ![p] = how[p]]
        /\ at' = [at EXCEPT ![p] = "claimSent"] /\ stored' = stored
    BY <1>5 DEF SendClaim, TransferInv, TypeOK
  <2>3. Good(r, spent') /\ Burn(r) \in spent' /\ spent' \subseteq Burns /\ spent \subseteq spent'
    BY <1>a, <2>1 DEF Good
  <2>4. Fits(r, "claimSent", how[p]) /\ "claimSent" \in Awaits
    BY <1>a, <1>c, <2>1 DEF WalletAwaits
  <2> QED BY <1>a, <2>1, <2>2, <2>3, <2>4, PageStepKeeps DEF HashKept, r
<1>6. CASE ClaimRefused(p)
  <2>1. UNCHANGED spent /\ HashKept(p)
    BY <1>6, <1>b DEF ClaimRefused, chains
  <2>2. CASE Fail(p, r)
    BY <1>a, <2>1, <2>2, FailKeeps
  <2>3. CASE Burn(r) \in spent /\ End(p, [r EXCEPT !.status = "complete"])
    <3>1. Good([r EXCEPT !.status = "complete"], spent)
      BY <1>a, <2>3 DEF Good, Record, Burn
    <3> QED BY <2>1, <2>3, <3>1, EndKeeps
  <2>4. CASE End(p, [r EXCEPT !.status = "readyToMint"])
    <3>1. Good([r EXCEPT !.status = "readyToMint"], spent)
      BY <1>a DEF Good, Record, Burn
    <3> QED BY <2>1, <2>4, <3>1, EndKeeps
  <2> QED BY <1>6, <2>2, <2>3, <2>4 DEF ClaimRefused, r
<1>7. CASE RecordClaim(p)
  <2>1. at[p] = "claimSent" /\ UNCHANGED spent /\ HashKept(p)
    BY <1>7, <1>b DEF RecordClaim, At, chains
  <2>2. Burn(r) \in spent
    BY <2>1 DEF TransferInv, r
  <2>3. CASE Await(p, [r EXCEPT !.destination = TRUE], "claimSent")
    <3> DEFINE q == [r EXCEPT !.destination = TRUE]
    <3>1. Good(q, spent) /\ q.attestation > 0 /\ Burn(q) \in spent
      BY <1>a, <2>2 DEF Good, Record, Burn
    <3>2. Await(p, q, "claimSent")
      BY <2>3
    <3> HIDE DEF q
    <3> QED BY <1>c, <2>1, <3>1, <3>2, AwaitKeeps DEF WalletAwaits
  <2>4. CASE End(p, [r EXCEPT !.status = "complete", !.destination = TRUE])
    <3>1. Good([r EXCEPT !.status = "complete", !.destination = TRUE], spent)
      BY <1>a, <2>2 DEF Good, Record, Burn
    <3> QED BY <2>1, <2>4, <3>1, EndKeeps
  <2>5. CASE Fail(p, r)
    BY <1>a, <2>1, <2>5, FailKeeps
  <2> QED BY <1>7, <2>3, <2>4, <2>5 DEF RecordClaim, r
<1> QED BY <1>1, <1>2, <1>3, <1>4, <1>5, <1>6, <1>7

(* Nothing of the invariant moves but the record in storage, which is deleted *)
(* or still good, the set of claimed burns, which grows, and waits for a      *)
(* receipt that see the replacement of their burn.                            *)
OnlyReplaced ==
  /\ at' \in [Pages -> Awaits]
  /\ \A q \in Pages : at'[q] = at[q] \/ (at[q] = "attest" /\ at'[q] = "replaced")

LEMMA SettleOnlyReplaces ==
  ASSUME TransferInv, NEW b \in Burns, Settle(b)
  PROVE  UNCHANGED at \/ OnlyReplaced
<1>1. CASE \E seen \in SUBSET Watching(b) :
             at' = [p \in Pages |-> IF p \in seen THEN "replaced" ELSE at[p]]
  BY <1>1 DEF OnlyReplaced, Watching, At, TransferInv, TypeOK, Awaits
<1> QED BY <1>1 DEF Settle

LEMMA StillKeeps ==
  ASSUME TransferInv, UNCHANGED at \/ OnlyReplaced, UNCHANGED <<copy, how, hash>>,
         stored' # None /\ stored' # stored => Good(stored', spent'),
         spent \subseteq spent', spent' \subseteq Burns
  PROVE  TransferInv'
<1>1. \A r : Good(r, spent) => Good(r, spent')
  BY DEF Good
<1>0. at' \in [Pages -> Awaits]
  BY DEF OnlyReplaced, TransferInv, TypeOK
<1>2. TypeOK'
  BY <1>0 DEF TransferInv, TypeOK, Good
<1>3. (stored # None => Good(stored, spent))'
  BY <1>1 DEF TransferInv
<1>4. ASSUME NEW p \in Pages
      PROVE  (/\ Good(copy[p], spent) /\ Fits(copy[p], at[p], how[p])
              /\ at[p] = "burnSent" => hash[p] \in Burns
              /\ at[p] = "claimSent" => Burn(copy[p]) \in spent)'
  <2>1. at'[p] = at[p] \/ (at[p] = "attest" /\ at'[p] = "replaced")
    BY DEF OnlyReplaced
  <2>2. Good(copy[p], spent)' /\ Fits(copy[p], at[p], how[p])
    BY <1>1 DEF TransferInv
  <2>3. Fits(copy[p], at[p], how[p])'
    BY <2>1, <2>2 DEF Fits, BurnAwaits, ClaimAwaits, WalletAwaits
  <2> QED BY <1>1, <2>1, <2>2, <2>3 DEF TransferInv
<1> QED BY <1>2, <1>3, <1>4 DEF TransferInv

LEMMA RecordStepsKeep ==
  ASSUME TransferInv, NEW p \in Pages,
         Press(p) \/ RetrySponsor(p) \/ SettleClaimed(p) \/ Remove(p) \/ RemoveUnburned(p)
  PROVE  TransferInv'
<1>a. spent \subseteq Burns /\ (stored # None => Good(stored, spent))
  BY DEF TransferInv, TypeOK
<1>1. CASE Press(p)
  <2>1. PICK h \in {"press", "stop", "auto"} : Execute(p, h)
    BY <1>1 DEF Press
  <2>2. h \in Hows /\ h # "load"
    BY DEF Hows
  <2>3. at[p] = "idle" /\ stored # None /\ Begin(p, h) /\ UNCHANGED <<spent, hash>>
    BY <2>1 DEF Execute, At, chains
  <2> QED BY <2>2, <2>3, BeginKeeps
<1>2. CASE RetrySponsor(p)
  <2>1. Execute(p, "load") /\ AwaitsSponsor(stored)
    BY <1>2 DEF RetrySponsor
  <2>2. at[p] = "idle" /\ stored # None /\ Begin(p, "load") /\ UNCHANGED <<spent, hash>>
    BY <2>1 DEF Execute, At, chains
  <2>3. stored.source # None
    BY <2>1, <2>2, <1>a DEF AwaitsSponsor, Good
  <2> QED BY <2>2, <2>3, BeginKeeps DEF Hows
<1>3. CASE SettleClaimed(p)
  <2>1. Good(Completed(stored), spent)
    BY <1>3, <1>a, GoodCompleted DEF SettleClaimed
  <2> QED BY <1>3, <1>a, <2>1, StillKeeps DEF SettleClaimed, chains
<1>4. CASE Remove(p)
  <2>1. stored' = None /\ UNCHANGED <<spent, hash>>
    BY <1>4 DEF Remove, chains
  <2>2. CASE Finish(p)
    BY <2>1, <2>2, NoHashChange, FinishKeeps
  <2>3. CASE UNCHANGED <<at, copy, how>>
    BY <1>a, <2>1, <2>3, StillKeeps
  <2> QED BY <1>4, <2>2, <2>3 DEF Remove
<1>5. CASE RemoveUnburned(p)
  BY <1>5, <1>a, StillKeeps DEF RemoveUnburned, chains
<1> QED BY <1>1, <1>2, <1>3, <1>4, <1>5

LEMMA PageStepsKeep ==
  ASSUME TransferInv, NEW p \in Pages,
         Load(p) \/ LookAgain(p) \/ Leave(p) \/ Freeze(p) \/ Thaw(p) \/ Destroy(p) \/ Renew(p)
  PROVE  TransferInv'
<1>a. spent \subseteq Burns
  BY DEF TransferInv, TypeOK
<1>b. CASE Finish(p) /\ UNCHANGED <<stored, spent, hash>>
  BY <1>b, NoHashChange, FinishKeeps
<1>c. CASE UNCHANGED <<stored, at, copy, how, spent, hash>>
  BY <1>a, <1>c, StillKeeps
<1>1. CASE Load(p)
  BY <1>1, ResumeKeeps DEF Load, chains
<1>2. CASE LookAgain(p)
  BY <1>2, ResumeKeeps DEF LookAgain, At, chains
<1>3. CASE Leave(p)
  <2>1. /\ copy' = [copy EXCEPT ![p] = NewRecord] /\ at' = [at EXCEPT ![p] = "closed"]
        /\ how' = [how EXCEPT ![p] = "auto"] /\ UNCHANGED <<stored, spent>>
    BY <1>3 DEF Leave, chains
  <2>2. HashKept(p)
    BY <1>3 DEF Leave, HashKept, TransferInv, TypeOK
  <2>3. Fits(NewRecord, "closed", "auto") /\ "closed" \in Awaits /\ "auto" \in Hows
    BY DEF Fits, Awaits, BurnAwaits, ClaimAwaits, WalletAwaits, Hows
  <2> QED BY <1>a, <2>1, <2>2, <2>3, NewRecordIsGood, PageStepKeeps DEF HashKept
<1>4. CASE Freeze(p)
  BY <1>4, <1>b, <1>c DEF Freeze, chains
<1>5. CASE Thaw(p)
  <2>1. CASE at[p] = "idle"
    BY <1>5, <2>1, ResumeKeeps DEF Thaw, chains
  <2>2. CASE at[p] # "idle"
    BY <1>5, <2>2, <1>c DEF Thaw, chains
  <2> QED BY <2>1, <2>2
<1>6. CASE Destroy(p)
  BY <1>6, <1>b, <1>c DEF Destroy, chains
<1>7. CASE Renew(p)
  BY <1>7, <1>c DEF Renew, chains, rest
<1> QED BY <1>1, <1>2, <1>3, <1>4, <1>5, <1>6, <1>7

-----------------------------------------------------------------------------
LEMMA TransferInvInit == Init => TransferInv
<1> SUFFICES ASSUME Init PROVE TransferInv
  OBVIOUS
<1>1. NewRecord \in Record
  BY NewRecordIsGood DEF Good
<1>2. TypeOK
  BY <1>1 DEF Init, TypeOK, Awaits
<1>3. Good(stored, spent)
  BY NewRecordIsGood DEF Init, Good, NewRecord
<1>4. ASSUME NEW p \in Pages
      PROVE  /\ Good(copy[p], spent) /\ Fits(copy[p], at[p], how[p])
             /\ at[p] = "burnSent" => hash[p] \in Burns
             /\ at[p] = "claimSent" => Burn(copy[p]) \in spent
  <2>1. copy[p] = stored /\ at[p] = "idle" /\ how[p] = "auto"
    BY DEF Init
  <2> QED BY <1>3, <2>1 DEF Fits, BurnAwaits, ClaimAwaits, WalletAwaits
<1> QED BY <1>2, <1>3, <1>4 DEF TransferInv

LEMMA TransferInvStep == TransferInv /\ [Next]_vars => TransferInv'
<1> SUFFICES ASSUME TransferInv, [Next]_vars PROVE TransferInv'
  OBVIOUS
<1>a. spent \subseteq Burns
  BY DEF TransferInv, TypeOK
<1>1. ASSUME NEW p \in Pages, RunStep(p) PROVE TransferInv'
  BY <1>1, BurnStepsKeep, AttestStepsKeep, ClaimStepsKeep DEF RunStep
<1>2. ASSUME NEW p \in Pages, UserStep(p) PROVE TransferInv'
  BY <1>2, BurnStepsKeep, ClaimStepsKeep, RecordStepsKeep DEF UserStep
<1>3. ASSUME NEW p \in Pages, PageStep(p) PROVE TransferInv'
  BY <1>3, RecordStepsKeep, PageStepsKeep DEF PageStep
<1>4. CASE Lapse
  BY <1>4, <1>a, StillKeeps DEF Lapse, chains
<1>5. CASE Expire
  BY <1>5, <1>a, StillKeeps DEF Expire, run
<1>6. ASSUME NEW b \in Burns, Settle(b) PROVE TransferInv'
  <2>1. /\ UNCHANGED <<copy, how, hash, stored, spent>>
        /\ UNCHANGED at \/ OnlyReplaced
    BY <1>6, SettleOnlyReplaces DEF Settle
  <2> QED BY <1>a, <2>1, StillKeeps
<1>7. ASSUME NEW b \in Burns, ClaimedElsewhere(b) PROVE TransferInv'
  BY <1>7, <1>a, StillKeeps DEF ClaimedElsewhere, run
<1>8. CASE UNCHANGED vars
  BY <1>8, <1>a, StillKeeps DEF vars, run, chains
<1> QED BY <1>1, <1>2, <1>3, <1>4, <1>5, <1>6, <1>7, <1>8 DEF Next

(* Every record, in storage or in a run's hands, says only what the chains    *)
(* bear out, and every run is where its record and its start allow.           *)
THEOREM TransferInvariant == Spec => []TransferInv
BY TransferInvInit, TransferInvStep, PTL DEF Spec

(* A transfer is shown complete only once its message is claimed on the       *)
(* destination, for any number of pages, burns, retries and mishaps.          *)
THEOREM CompleteMeansSpent == Spec => []CompleteIsSpent
<1>1. TransferInv => CompleteIsSpent
  BY DEF TransferInv, CompleteIsSpent, Good
<1> QED BY <1>1, TransferInvariant, PTL

(* A run nobody asked for never opens a wallet, to burn or to claim.          *)
THEOREM UnattendedIsSilent == Spec => []UnattendedNeverPrompts
<1>1. TransferInv => UnattendedNeverPrompts
  BY DEF TransferInv, UnattendedNeverPrompts, AtWallet, Fits, BurnAwaits, WalletAwaits
<1> QED BY <1>1, TransferInvariant, PTL

-----------------------------------------------------------------------------
(* Where the burn is.  Unless a page went away from a wallet, at most one     *)
(* page runs the transfer; its copy is the record, or all there is of it      *)
(* after remove(); and what was burnt is in that record or on its way to it   *)
(* from the wallet, so a wallet is asked only when nothing is.                *)
Runs(p) == at[p] \notin {"closed", "idle"}
Live == {b \in Burns : chain[b] \in {"sent", "landed", "spedUp"}}
Names(r, b) == (r.source # None /\ r.source[1] = b) \/ (r.dropped # None /\ r.dropped[1] = b)

(* Only Solana writes a burn off, and only one that was mined or is dead.     *)
Tidy(r) ==
  /\ r.source # None => r.dropped = None
  /\ r.dropped # None => from = "solana" /\ chain[r.dropped[1]] \in {"dead", "landed", "spedUp"}
NoneLive(r) == r.source = None /\ (r.dropped # None => chain[r.dropped[1]] = "dead")

Held(b) ==
  \/ \E p \in Pages : at[p] = "burnSent" /\ hash[p] = b
  \/ \E p \in Pages : Runs(p) /\ Names(copy[p], b)
  \/ (\A p \in Pages : ~Runs(p)) /\ (IF stored = None THEN removed ELSE Names(stored, b))

OneRun == \A p \in Pages : (Runs(p) => lease = p) /\ (p \in renewing => Runs(p))
RunsTidily(p) ==
  /\ Tidy(copy[p])
  /\ stored = copy[p] \/ (removed /\ stored = None)
  /\ at[p] \in {"approve", "build", "burnWallet", "burnSent"} => NoneLive(copy[p])
BurnInv ==
  /\ chain \in [Burns -> {"unsent", "sent", "landed", "spedUp", "dead"}]
  /\ OneRun
  /\ stored # None => Tidy(stored)
  /\ \A p \in Pages : Runs(p) => RunsTidily(p)
  /\ \A b \in Live : Held(b)
  /\ \A b, c \in Live : b = c

(* What the run of p leaves in r: every burn it may have sent.                *)
KeepsTrack(p, r) ==
  /\ Tidy(r)
  /\ \A b \in Live : Names(copy[p], b) \/ (at[p] = "burnSent" /\ hash[p] = b) => Names(r, b)
SameBurn(q, r) == q.source = r.source /\ q.dropped = r.dropped
Still == UNCHANGED <<from, chain, removed, lost>>

LEMMA HeldByRun ==
  ASSUME BurnInv, NEW p \in Pages, Runs(p)
  PROVE  /\ \A q \in Pages : Runs(q) => q = p
         /\ \A b \in Live : Names(copy[p], b) \/ (at[p] = "burnSent" /\ hash[p] = b)
<1>1. \A q \in Pages : Runs(q) => q = p
  BY DEF BurnInv, OneRun
<1>2. \A q \in Pages : at[q] = "burnSent" => Runs(q)
  BY DEF Runs
<1> QED BY <1>1, <1>2 DEF BurnInv, Held

LEMMA TrackSame ==
  ASSUME NEW p, NEW r, NEW q, SameBurn(q, r), KeepsTrack(p, r)
  PROVE  KeepsTrack(p, q)
BY DEF SameBurn, KeepsTrack, Tidy, Names

LEMMA TrackCopy ==
  ASSUME BurnInv, NEW p \in Pages, Runs(p), at[p] # "burnSent", NEW r, SameBurn(r, copy[p])
  PROVE  KeepsTrack(p, r)
BY DEF SameBurn, KeepsTrack, Tidy, Names, BurnInv, RunsTidily

-----------------------------------------------------------------------------
(* A run goes on with r in hand.                                              *)
Going == Awaits \ {"closed", "idle", "burnSent"}
LEMMA GoOn ==
  ASSUME TransferInv, BurnInv, NEW p \in Pages, Runs(p), NEW r, NEW s \in Going, KeepsTrack(p, r),
         s \in {"approve", "build", "burnWallet"} => NoneLive(r),
         stored' = r \/ (stored' = stored /\ r = copy[p]),
         copy' = [copy EXCEPT ![p] = r], at' = [at EXCEPT ![p] = s],
         UNCHANGED <<lease, renewing>>, Still
  PROVE  BurnInv'
<1>1. /\ \A q \in Pages : at'[q] = (IF q = p THEN s ELSE at[q]) /\ copy'[q] = (IF q = p THEN r ELSE copy[q])
      /\ chain' = chain /\ from' = from /\ removed' = removed /\ lease' = lease /\ renewing' = renewing
  BY DEF TransferInv, TypeOK, Still
<1>2. \A q \in Pages : Runs(q)' <=> q = p
  BY <1>1, HeldByRun DEF Runs, Going
<1>3. OneRun'
  BY <1>1, <1>2, HeldByRun DEF BurnInv, OneRun
<1>4. Tidy(r)'
  BY <1>1 DEF KeepsTrack, Tidy
<1>5. stored' # None => Tidy(stored)'
  BY <1>1, <1>4 DEF BurnInv, Tidy
<1>6. RunsTidily(p)'
  <2>1. copy'[p] = r /\ at'[p] = s /\ s # "burnSent"
    BY <1>1 DEF Going
  <2>2. stored' = r \/ (removed' /\ stored' = None)
    BY <1>1 DEF BurnInv, RunsTidily
  <2>3. s \in {"approve", "build", "burnWallet"} => NoneLive(r)'
    BY <1>1 DEF NoneLive
  <2> QED BY <1>1, <1>4, <2>1, <2>2, <2>3 DEF RunsTidily, Tidy, NoneLive
<1>7. Live' = Live
  BY <1>1 DEF Live
<1>8. ASSUME NEW b \in Live PROVE Held(b)'
  <2>1. Names(r, b)
    BY HeldByRun DEF KeepsTrack
  <2>2. Names(copy[p], b)'
    BY <1>1, <2>1 DEF Names
  <2> QED BY <1>2, <2>2 DEF Held
<1> QED BY <1>1, <1>2, <1>3, <1>5, <1>6, <1>7, <1>8 DEF BurnInv

(* A run ends with r in storage, or with what is there.                       *)
LEMMA RunEnds ==
  ASSUME TransferInv, BurnInv, NEW p \in Pages, Runs(p),
         \/ KeepsTrack(p, stored') /\ stored' # None
         \/ stored' = stored /\ at[p] # "burnSent"
         \/ stored' = None /\ removed',
         NEW s \in {"closed", "idle"}, at' = [at EXCEPT ![p] = s],
         renewing' = renewing \ {p}, removed => removed', UNCHANGED <<from, chain>>
  PROVE  BurnInv'
<1>1. /\ \A q \in Pages : at'[q] = (IF q = p THEN s ELSE at[q])
      /\ chain' = chain /\ from' = from
  BY DEF TransferInv, TypeOK
<1>2. \A q \in Pages : ~Runs(q)'
  BY <1>1, HeldByRun DEF Runs
<1>3. \A q \in Pages : q \notin renewing'
  BY HeldByRun DEF BurnInv, OneRun
<1>4. OneRun'
  BY <1>2, <1>3 DEF OneRun
<1>5. stored' # None => Tidy(stored)'
  BY <1>1 DEF BurnInv, KeepsTrack, Tidy
<1>6. Live' = Live
  BY <1>1 DEF Live
<1>7. ASSUME NEW b \in Live PROVE Held(b)'
  <2>1. CASE KeepsTrack(p, stored') /\ stored' # None
    <3>1. Names(stored', b)
      BY <2>1, HeldByRun DEF KeepsTrack
    <3> QED BY <1>2, <2>1, <3>1 DEF Held, Names
  <2>2. CASE stored' = stored /\ at[p] # "burnSent"
    <3>1. Names(copy[p], b)
      BY <2>2, HeldByRun
    <3>2. (IF stored = None THEN removed ELSE Names(stored, b))'
      BY <2>2, <3>1, RecordAssumption DEF BurnInv, RunsTidily, Names, TransferInv, TypeOK
    <3> QED BY <1>2, <3>2 DEF Held
  <2>3. CASE stored' = None /\ removed'
    BY <1>2, <2>3 DEF Held
  <2> QED BY <2>1, <2>2, <2>3
<1> QED BY <1>1, <1>2, <1>4, <1>5, <1>6, <1>7 DEF BurnInv

(* The steps of a run, as CctpTransfer puts them together.                    *)
LEMMA AwaitHolds ==
  ASSUME TransferInv, BurnInv, NEW p \in Pages, Runs(p), NEW r, NEW s \in Going, KeepsTrack(p, r),
         s \in {"approve", "build", "burnWallet"} => NoneLive(r), Await(p, r, s), Still
  PROVE  BurnInv'
BY GoOn DEF Await

LEMMA MoveHolds ==
  ASSUME TransferInv, BurnInv, NEW p \in Pages, Runs(p), at[p] # "burnSent", NEW s \in Going,
         s \in {"approve", "build", "burnWallet"} => NoneLive(copy[p]), Move(p, s), Still
  PROVE  BurnInv'
<1>1. KeepsTrack(p, copy[p])
  BY TrackCopy DEF SameBurn
<1>2. copy' = [copy EXCEPT ![p] = copy[p]]
  BY DEF Move, TransferInv, TypeOK
<1>3. stored' = stored /\ at' = [at EXCEPT ![p] = s] /\ UNCHANGED <<lease, renewing>>
  BY DEF Move
<1> QED BY <1>1, <1>2, <1>3, GoOn

LEMMA EndHolds ==
  ASSUME TransferInv, BurnInv, NEW p \in Pages, Runs(p), NEW r \in Record, KeepsTrack(p, r), End(p, r),
         Still
  PROVE  BurnInv'
BY RunEnds, RecordAssumption DEF End, Finish, Still

LEMMA StopHolds ==
  ASSUME TransferInv, BurnInv, NEW p \in Pages, Runs(p), at[p] # "burnSent", Stop(p), Still
  PROVE  BurnInv'
BY RunEnds DEF Stop, Finish, Still

LEMMA FailHolds ==
  ASSUME TransferInv, BurnInv, NEW p \in Pages, Runs(p), at[p] # "burnSent",
         NEW r \in Record, KeepsTrack(p, r), Fail(p, r), Still
  PROVE  BurnInv'
<1>1. SameBurn(Failed(r), r) /\ Failed(r) \in Record
  BY DEF SameBurn, Failed, Record
<1>2. KeepsTrack(p, Failed(r))
  BY <1>1, TrackSame
<1> QED BY <1>1, <1>2, StopHolds, EndHolds DEF Fail

LEMMA GoHolds ==
  ASSUME TransferInv, BurnInv, NEW p \in Pages, Runs(p), NEW o, o.at \in Going \cup {"idle"},
         o.record \in Record, KeepsTrack(p, o.record),
         o.at \in {"approve", "build", "burnWallet"} => NoneLive(o.record), Go(p, o), Still
  PROVE  BurnInv'
BY EndHolds, AwaitHolds DEF Go

(* Neither going on nor ending touches what the record says of the burn.      *)
LEMMA SameOutcomes ==
  ASSUME NEW r \in Record, NEW h \in Hows
  PROVE  /\ AtAttest(r).record \in Record /\ SameBurn(AtAttest(r).record, r) /\ AtAttest(r).at = "attest"
         /\ ToMint(r).record \in Record /\ SameBurn(ToMint(r).record, r)
         /\ ToMint(r).at \in {"sponsor", "claimWallet", "farWallets"}
         /\ AtClaim(r, h).record \in Record /\ SameBurn(AtClaim(r, h).record, r)
         /\ AtClaim(r, h).at \in {"idle", "pressWallet", "nonce"}
<1> USE DEF Record
<1>1. AtAttest(r).record \in Record /\ SameBurn(AtAttest(r).record, r) /\ AtAttest(r).at = "attest"
  BY DEF AtAttest, SameBurn
<1>2. /\ ToMint(r).record \in Record /\ SameBurn(ToMint(r).record, r)
      /\ ToMint(r).at \in {"sponsor", "claimWallet", "farWallets"}
  BY DEF ToMint, SameBurn
<1>3. /\ AtClaim(r, h).record \in Record /\ SameBurn(AtClaim(r, h).record, r)
      /\ AtClaim(r, h).at \in {"idle", "pressWallet", "nonce"}
  <2>1. CASE r.destination
    BY <2>1 DEF AtClaim, SameBurn
  <2>2. CASE ~r.destination /\ h \in Stopping /\ ~Served(r)
    BY <2>2 DEF AtClaim, SameBurn
  <2>3. CASE ~r.destination /\ ~(h \in Stopping /\ ~Served(r))
             /\ h = "press" /\ to = "sui" /\ ~Expired(r)
    BY <2>3, ZenonT(40) DEF AtClaim, SameBurn
  <2>4. CASE ~r.destination /\ ~(h = "press" /\ to = "sui" /\ ~Expired(r)) /\ Served(r)
    BY <2>4 DEF AtClaim, SameBurn
  <2>5. CASE ~r.destination /\ ~(h \in Stopping /\ ~Served(r))
             /\ ~(h = "press" /\ to = "sui" /\ ~Expired(r)) /\ ~Served(r)
    BY <2>5, ZenonT(40) DEF AtClaim, SameBurn
  <2> QED BY <2>1, <2>2, <2>3, <2>4, <2>5
<1> QED BY <1>1, <1>2, <1>3

(* burn() up to the wallet's answer: a wallet is asked when no burn is out.   *)
LEMMA BurnStepsHold ==
  ASSUME TransferInv, BurnInv, NEW p \in Pages,
         GotWallets(p) \/ Approved(p) \/ Recheck(p) \/ Built(p) \/ BurnRefused(p)
  PROVE  BurnInv'
<1> DEFINE r == copy[p]
<1>1. /\ at[p] \in BurnAwaits \ {"burnSent"} /\ Runs(p) /\ Still
  BY DEF GotWallets, Approved, Recheck, Built, BurnRefused, At, BurnAwaits, Runs, Still, world, chains, rest
<1>2. /\ r \in Record /\ r.source = None /\ r.attestation = 0
  BY <1>1, CopyFacts
<1>3. KeepsTrack(p, r)
  BY <1>1, TrackCopy DEF SameBurn
<1>4. /\ Tidy(r) /\ (at[p] \in {"approve", "build", "burnWallet"} => NoneLive(r))
  BY <1>1 DEF BurnInv, RunsTidily
<1>5. /\ at[p] = "recheck" => r.dropped # None
      /\ r.dropped # None => r.dropped \in Hashes /\ r.dropped[1] \in Burns
  BY <1>2, CopyFacts DEF Fits, Record, Hashes
<1>6. r = copy[p]
  OBVIOUS
<1> HIDE DEF r
<1>7. ASSUME NEW st \in {"burning", "approving"}
      PROVE  /\ [r EXCEPT !.status = st] \in Record /\ SameBurn([r EXCEPT !.status = st], r)
             /\ KeepsTrack(p, [r EXCEPT !.status = st])
  <2>1. [r EXCEPT !.status = st] \in Record /\ SameBurn([r EXCEPT !.status = st], r)
    BY <1>2 DEF Record, SameBurn
  <2> QED BY <2>1, <1>3, TrackSame
<1>8. CASE Fail(p, r)
  BY <1>1, <1>2, <1>3, <1>8, FailHolds
<1>9. CASE Stop(p)
  BY <1>1, <1>9, StopHolds
<1>10. ASSUME NEW st \in {"burning", "approving"}, NEW s \in {"burnWallet", "approve", "recheck", "build"},
              Await(p, [r EXCEPT !.status = st], s), s = "recheck" \/ NoneLive(r)
       PROVE  BurnInv'
  <2>1. s = "recheck" \/ NoneLive([r EXCEPT !.status = st])
    BY <1>7, <1>10 DEF NoneLive, SameBurn
  <2>2. s \in Going
    BY DEF Going, Awaits, BurnAwaits
  <2> QED BY <1>1, <1>7, <1>10, <2>1, <2>2, AwaitHolds
<1>11. ASSUME NEW s \in {"build", "burnWallet"}, Move(p, s), NoneLive(r)
       PROVE  BurnInv'
  <2>1. s \in Going
    BY DEF Going, Awaits, BurnAwaits
  <2> QED BY <1>1, <1>6, <1>11, <2>1, MoveHolds
<1>12. CASE GotWallets(p)
  <2>1. from \in {"evm"} => NoneLive(r)
    BY <1>2, <1>4 DEF NoneLive, Tidy
  <2>2. r.dropped = None => NoneLive(r)
    BY <1>2 DEF NoneLive
  <2> QED BY <1>6, <1>8, <1>9, <1>10, <1>12, <2>1, <2>2 DEF GotWallets
<1>13. CASE Approved(p)
  <2>1. NoneLive(r)
    BY <1>4, <1>13 DEF Approved, At
  <2> QED BY <1>6, <1>8, <1>9, <1>10, <1>13, <2>1 DEF Approved
<1>14. CASE Recheck(p)
  <2> DEFINE found == [r EXCEPT !.source = r.dropped, !.dropped = None]
  <2>1. r.dropped # None /\ r.dropped[1] \in Burns /\ r.dropped \in Hashes
    BY <1>5, <1>14 DEF Recheck, At
  <2>2. CASE ~Mined(r.dropped[1]) /\ Move(p, "build")
    <3>1. NoneLive(r)
      BY <1>2, <1>4, <2>1, <2>2 DEF NoneLive, Tidy, Mined
    <3> QED BY <1>11, <2>2, <3>1
  <2>3. CASE End(p, found) \/ Go(p, AtAttest(found))
    <3>1. found \in Record /\ found.source = r.dropped /\ found.dropped = None
      BY <1>2, <2>1 DEF Record
    <3> HIDE DEF found
    <3>2. KeepsTrack(p, found)
      BY <1>3, <1>2, <2>1, <3>1, <1>6, <1>1 DEF KeepsTrack, Tidy, Names
    <3>3. CASE End(p, found)
      BY <1>1, <3>1, <3>2, <3>3, EndHolds
    <3>4. CASE Go(p, AtAttest(found))
      <4>1. how[p] \in Hows
        BY CopyFacts
      <4>2. /\ AtAttest(found).record \in Record /\ SameBurn(AtAttest(found).record, found)
            /\ AtAttest(found).at = "attest"
        BY <3>1, <4>1, SameOutcomes
      <4>3. KeepsTrack(p, AtAttest(found).record) /\ "attest" \in Going
        BY <3>2, <4>2, TrackSame DEF Going, Awaits
      <4> QED BY <1>1, <3>4, <4>2, <4>3, GoHolds
    <3> QED BY <2>3, <3>3, <3>4
  <2> QED BY <1>6, <1>8, <1>14, <2>2, <2>3 DEF Recheck
<1>15. CASE Built(p)
  <2>1. NoneLive(r)
    BY <1>4, <1>15 DEF Built, At
  <2> QED BY <1>6, <1>8, <1>11, <1>15, <2>1 DEF Built
<1>16. CASE BurnRefused(p)
  BY <1>6, <1>8, <1>16 DEF BurnRefused
<1> QED BY <1>12, <1>13, <1>14, <1>15, <1>16

(* The wallet sends a burn: it is the only one.                               *)
LEMMA SendBurnHolds ==
  ASSUME TransferInv, BurnInv, NEW p \in Pages, SendBurn(p)
  PROVE  BurnInv'
<1> DEFINE b0 == CHOOSE b \in Unsent : TRUE
           s0 == IF from = "sui" THEN "landed" ELSE "sent"
<1>1. b0 \in Burns /\ chain[b0] = "unsent"
  BY DEF SendBurn, Unsent
<1>2. /\ at[p] = "burnWallet" /\ Runs(p) /\ s0 \in {"sent", "landed"}
      /\ chain' = [chain EXCEPT ![b0] = s0] /\ hash' = [hash EXCEPT ![p] = b0]
      /\ at' = [at EXCEPT ![p] = "burnSent"]
      /\ UNCHANGED <<from, stored, lease, copy, renewing, removed, lost>>
  BY DEF SendBurn, Runs, world, rest
<1> HIDE DEF b0, s0
<1>3. /\ \A q \in Pages : at'[q] = (IF q = p THEN "burnSent" ELSE at[q])
      /\ hash'[p] = b0
      /\ \A b \in Burns : chain'[b] = IF b = b0 THEN s0 ELSE chain[b]
      /\ chain' \in [Burns -> {"unsent", "sent", "landed", "spedUp", "dead"}]
  BY <1>1, <1>2 DEF TransferInv, TypeOK, BurnInv
<1>4. NoneLive(copy[p]) /\ copy[p] \in Record
  BY <1>2, CopyFacts DEF BurnInv, RunsTidily
<1>5. Live = {}
  <2>1. \A b \in Live : Names(copy[p], b)
    BY <1>2, HeldByRun
  <2> QED BY <1>4, <2>1 DEF NoneLive, Names, Live
<1>6. Live' = {b0}
  BY <1>1, <1>2, <1>3, <1>5 DEF Live
<1>7. \A q \in Pages : Runs(q)' <=> q = p
  BY <1>2, <1>3, HeldByRun DEF Runs
<1>8. \A r : Tidy(r) => Tidy(r)'
  BY <1>1, <1>2, <1>3 DEF Tidy, BurnInv
<1>9. NoneLive(copy[p])'
  BY <1>1, <1>2, <1>3, <1>4 DEF NoneLive, BurnInv
<1>10. OneRun'
  BY <1>2, <1>7, HeldByRun DEF BurnInv, OneRun
<1>11. stored' # None => Tidy(stored)'
  BY <1>2, <1>8 DEF BurnInv
<1>12. RunsTidily(p)'
  BY <1>2, <1>8, <1>9 DEF BurnInv, RunsTidily
<1>13. \A b \in Live' : Held(b)'
  BY <1>3, <1>6 DEF Held
<1> QED BY <1>3, <1>6, <1>7, <1>10, <1>11, <1>12, <1>13 DEF BurnInv

(* The page hears of its burn, and the record names it.                       *)
LEMMA RecordBurnHolds ==
  ASSUME TransferInv, BurnInv, NEW p \in Pages, RecordBurn(p)
  PROVE  BurnInv'
<1> DEFINE r == [copy[p] EXCEPT !.source = <<hash[p], "sent">>, !.dropped = None]
<1>1. at[p] = "burnSent" /\ Runs(p) /\ Still /\ hash[p] \in Burns
  BY DEF RecordBurn, At, Runs, Still, world, chains, rest, TransferInv
<1>2. NoneLive(copy[p]) /\ copy[p] \in Record /\ how[p] \in Hows
  BY <1>1, CopyFacts DEF BurnInv, RunsTidily
<1>3. <<hash[p], "sent">> \in Hashes /\ <<hash[p], "sent">> # None
  BY <1>1, HashFacts
<1>4. r \in Record /\ r.source = <<hash[p], "sent">> /\ r.dropped = None
  BY <1>2, <1>3 DEF Record
<1>5. End(p, r) \/ Go(p, AtAttest(r))
  BY DEF RecordBurn
<1> HIDE DEF r
<1>6. KeepsTrack(p, r)
  BY <1>2, <1>3, <1>4 DEF KeepsTrack, Tidy, Names, NoneLive, Live
<1>7. /\ AtAttest(r).record \in Record /\ SameBurn(AtAttest(r).record, r) /\ AtAttest(r).at = "attest"
  BY <1>2, <1>4, SameOutcomes
<1>8. KeepsTrack(p, AtAttest(r).record) /\ "attest" \in Going
  BY <1>6, <1>7, TrackSame DEF Going, Awaits
<1> QED BY <1>1, <1>4, <1>5, <1>6, <1>7, <1>8, EndHolds, GoHolds

(* Past its burn, whatever a run does next leaves the burn as it is.          *)
Onward == Going \ {"approve", "build", "burnWallet"}
LEMMA SameBurnHolds ==
  ASSUME TransferInv, BurnInv, NEW p \in Pages, Runs(p), at[p] # "burnSent", Still,
         NEW r \in Record, SameBurn(r, copy[p]),
         End(p, r) \/ Fail(p, r) \/ \E s \in Onward : Await(p, r, s)
  PROVE  BurnInv'
<1>1. KeepsTrack(p, r)
  BY TrackCopy
<1>2. ASSUME NEW s \in Onward, Await(p, r, s) PROVE BurnInv'
  BY <1>1, <1>2, AwaitHolds DEF Onward
<1> QED BY <1>1, <1>2, EndHolds, FailHolds

LEMMA AttestStepsHold ==
  ASSUME TransferInv, BurnInv, NEW p \in Pages,
         CircleAttests(p) \/ CircleFails(p) \/ ChainConfirms(p) \/ ChainSilent(p) \/ ChainRejects(p)
  PROVE  BurnInv'
<1> DEFINE r == copy[p]
<1>1. at[p] \in {"attest", "replaced"} /\ Runs(p) /\ Still /\ "attest" \in Onward
  BY DEF CircleAttests, CircleFails, ChainConfirms, Confirmable, ChainSilent, ChainRejects, At, Runs, Still,
         world, chains, rest, Onward, Going, Awaits, BurnAwaits
<1>2. /\ r \in Record /\ r.source # None /\ Burn(r) \in Burns /\ r.source \in Hashes /\ how[p] \in Hows
  BY <1>1, CopyFacts
<1>3. Tidy(r) /\ r.dropped = None /\ KeepsTrack(p, r)
  BY <1>1, <1>2, TrackCopy DEF BurnInv, RunsTidily, Tidy, SameBurn
<1>4. r = copy[p]
  OBVIOUS
<1> HIDE DEF r
<1>5. CASE CircleAttests(p)
  <2> DEFINE q == [r EXCEPT !.confirmed = TRUE, !.attestation = 1, !.status = "readyToMint"]
             o == AtClaim(q, how[p])
  <2>1. q \in Record
    BY <1>2, AttestedRecord
  <2>a. q.source = r.source /\ q.dropped = r.dropped
    BY <1>2 DEF Record
  <2>2. Go(p, o)
    BY <1>4, <1>5 DEF CircleAttests
  <2> HIDE DEF q
  <2>3. o.record \in Record /\ SameBurn(o.record, q) /\ SameBurn(q, r) /\ o.at \in {"idle", "pressWallet", "nonce"}
    BY <1>2, <2>1, <2>a, SameOutcomes DEF SameBurn
  <2> HIDE DEF o
  <2>4. KeepsTrack(p, o.record) /\ o.at \in Going \cup {"idle"} /\ o.at \notin {"approve", "build", "burnWallet"}
    BY <1>3, <2>3, TrackSame DEF Going, Awaits, ClaimAwaits, WalletAwaits
  <2> QED BY <1>1, <2>2, <2>3, <2>4, GoHolds
<1>6. CASE CircleFails(p)
  BY <1>1, <1>2, <1>4, <1>6, SameBurnHolds DEF CircleFails, SameBurn
<1>7. CASE ChainConfirms(p)
  <2> DEFINE q == [r EXCEPT !.confirmed = TRUE, !.status = "attesting", !.source = MinedAs(Burn(r))]
  <2>1. MinedAs(Burn(r)) \in Hashes /\ MinedAs(Burn(r)) # None /\ MinedAs(Burn(r))[1] = r.source[1]
    BY <1>2, HashFacts DEF Burn
  <2>2. q \in Record /\ q.dropped = None /\ q.source = MinedAs(Burn(r))
    BY <1>2, <1>3, <2>1 DEF Record
  <2>3. Await(p, q, "attest")
    BY <1>4, <1>7 DEF ChainConfirms
  <2> HIDE DEF q
  <2>4. KeepsTrack(p, q)
    BY <1>1, <1>3, <2>1, <2>2 DEF KeepsTrack, Tidy, Names
  <2> QED BY <1>1, <2>3, <2>4, AwaitHolds DEF Onward
<1>8. CASE ChainSilent(p)
  <2>1. [r EXCEPT !.status = "attesting"] \in Record /\ SameBurn([r EXCEPT !.status = "attesting"], r)
    BY <1>2 DEF Record, SameBurn
  <2>2. Await(p, [r EXCEPT !.status = "attesting"], "attest")
    BY <1>4, <1>8 DEF ChainSilent
  <2> QED BY <1>1, <1>4, <2>1, <2>2, SameBurnHolds
<1>9. CASE ChainRejects(p)
  <2> DEFINE d == IF from = "solana" THEN r.source ELSE r.dropped
             q == [r EXCEPT !.source = None, !.dropped = d]
  <2>1. q \in Record /\ q.source = None /\ q.dropped = d
    BY <1>2, <1>3 DEF Record
  <2>2. End(p, Failed(q))
    BY <1>4, <1>9 DEF ChainRejects
  <2>3. chain[r.source[1]] = "dead" \/ (from = "solana" /\ chain[r.source[1]] \in {"landed", "spedUp"})
    BY <1>4, <1>9 DEF ChainRejects, Mined, Burn
  <2> HIDE DEF q
  <2>4. KeepsTrack(p, q)
    <3>1. CASE from = "solana"
      BY <1>1, <1>2, <1>3, <2>1, <2>3, <3>1 DEF KeepsTrack, Tidy, Names
    <3>2. CASE from # "solana"
      BY <1>1, <1>2, <1>3, <1>4, <2>1, <2>3, <3>2 DEF KeepsTrack, Tidy, Names, Live
    <3> QED BY <3>1, <3>2
  <2>5. Failed(q) \in Record /\ SameBurn(Failed(q), q)
    BY <2>1 DEF Failed, Record, SameBurn
  <2> QED BY <1>1, <2>2, <2>4, <2>5, TrackSame, EndHolds
<1> QED BY <1>5, <1>6, <1>7, <1>8, <1>9

LEMMA ClaimStepsHold ==
  ASSUME TransferInv, BurnInv, NEW p \in Pages,
         ReadNonce(p) \/ Reattested(p) \/ AskSponsor(p) \/ FarWallets(p) \/ SendClaim(p)
           \/ ClaimRefused(p) \/ RecordClaim(p)
  PROVE  BurnInv'
<1> DEFINE r == copy[p]
<1>1. at[p] \in ClaimAwaits /\ Runs(p) /\ Still /\ at[p] # "burnSent"
  BY DEF ReadNonce, Reattested, AskSponsor, FarWallets, SendClaim, ClaimRefused, RecordClaim, At,
         Runs, Still, world, chains, rest, ClaimAwaits, WalletAwaits
<1>2. r \in Record /\ how[p] \in Hows /\ SameBurn(r, r)
  BY CopyFacts DEF SameBurn
<1>3. ClaimAwaits \subseteq Onward
  BY DEF Onward, Going, Awaits, BurnAwaits, ClaimAwaits, WalletAwaits
<1>4. r = copy[p]
  OBVIOUS
<1> HIDE DEF r
<1>5. CASE Fail(p, r)
  BY <1>1, <1>2, <1>4, <1>5, SameBurnHolds
<1>6. ASSUME NEW q \in Record, SameBurn(q, r), Go(p, ToMint(q)) PROVE BurnInv'
  <2>1. /\ ToMint(q).record \in Record /\ SameBurn(ToMint(q).record, q)
        /\ ToMint(q).at \in {"sponsor", "claimWallet", "farWallets"}
    BY <1>2, SameOutcomes
  <2>2. /\ ToMint(q).at \in Going /\ ToMint(q).at \notin {"approve", "build", "burnWallet"}
        /\ SameBurn(ToMint(q).record, r)
    BY <1>3, <1>6, <2>1 DEF ClaimAwaits, WalletAwaits, Onward, SameBurn
  <2>3. KeepsTrack(p, ToMint(q).record)
    BY <1>1, <1>4, <2>2, TrackCopy
  <2> QED BY <1>1, <1>6, <2>1, <2>2, <2>3, GoHolds
<1>7. ASSUME NEW c \in {None, "unavailable", "refused"}, GiveUpSponsor(p, r, c) PROVE BurnInv'
  <2>1. /\ [r EXCEPT !.status = "readyToMint", !.claim = c] \in Record
        /\ SameBurn([r EXCEPT !.status = "readyToMint", !.claim = c], r)
        /\ [r EXCEPT !.claim = c] \in Record /\ SameBurn([r EXCEPT !.claim = c], r)
    BY <1>2 DEF Record, SameBurn
  <2>2. "claimWallet" \in Onward
    BY <1>3 DEF ClaimAwaits, WalletAwaits
  <2> QED BY <1>1, <1>4, <1>7, <2>1, <2>2, SameBurnHolds DEF GiveUpSponsor
<1>8. CASE ReadNonce(p)
  <2>1. /\ Completed(r) \in Record /\ SameBurn(Completed(r), r)
        /\ [r EXCEPT !.status = "attesting"] \in Record /\ SameBurn([r EXCEPT !.status = "attesting"], r)
        /\ "reattest" \in Onward
    BY <1>2, <1>3 DEF Completed, Record, SameBurn, ClaimAwaits
  <2>2. CASE End(p, Completed(r))
    BY <1>1, <1>4, <2>1, <2>2, SameBurnHolds
  <2>3. CASE End(p, [r EXCEPT !.status = "attesting"]) \/ Await(p, [r EXCEPT !.status = "attesting"], "reattest")
    BY <1>1, <1>4, <2>1, <2>3, SameBurnHolds
  <2> QED BY <1>2, <1>4, <1>6, <1>8, <2>2, <2>3 DEF ReadNonce
<1>9. CASE Reattested(p)
  <2>1. [r EXCEPT !.attestation = 2] \in Record /\ SameBurn([r EXCEPT !.attestation = 2], r)
    BY <1>2 DEF Record, SameBurn
  <2> QED BY <1>4, <1>5, <1>6, <1>7, <1>9, <2>1 DEF Reattested
<1>10. CASE AskSponsor(p)
  <2>1. ASSUME NEW found \in BOOLEAN, End(p, [Completed(r) EXCEPT !.destination = found])
        PROVE  BurnInv'
    <3>1. /\ [Completed(r) EXCEPT !.destination = found] \in Record
          /\ SameBurn([Completed(r) EXCEPT !.destination = found], r)
      BY <1>2 DEF Completed, Record, SameBurn
    <3> QED BY <1>1, <1>4, <2>1, <3>1, SameBurnHolds
  <2> QED BY <1>4, <1>7, <1>10, <2>1 DEF AskSponsor
<1>11. CASE FarWallets(p)
  <2>1. CASE Move(p, "claimWallet")
    BY <1>1, <1>3, <2>1, MoveHolds DEF ClaimAwaits, WalletAwaits, Onward
  <2> QED BY <1>4, <1>5, <1>11, <2>1 DEF FarWallets
<1>12. CASE SendClaim(p)
  <2>1. Move(p, "claimSent")
    BY <1>12 DEF SendClaim, Move
  <2> QED BY <1>1, <1>3, <2>1, MoveHolds DEF ClaimAwaits, WalletAwaits, Onward
<1>13. CASE ClaimRefused(p)
  <2>1. ASSUME NEW st \in {"complete", "readyToMint"}, End(p, [r EXCEPT !.status = st])
        PROVE  BurnInv'
    <3>1. [r EXCEPT !.status = st] \in Record /\ SameBurn([r EXCEPT !.status = st], r)
      BY <1>2 DEF Record, SameBurn
    <3> QED BY <1>1, <1>4, <2>1, <3>1, SameBurnHolds
  <2> QED BY <1>4, <1>5, <1>13, <2>1 DEF ClaimRefused
<1>14. CASE RecordClaim(p)
  <2>1. /\ [r EXCEPT !.destination = TRUE] \in Record /\ SameBurn([r EXCEPT !.destination = TRUE], r)
        /\ [r EXCEPT !.status = "complete", !.destination = TRUE] \in Record
        /\ SameBurn([r EXCEPT !.status = "complete", !.destination = TRUE], r)
        /\ "claimSent" \in Onward
    BY <1>2, <1>3 DEF Record, SameBurn, ClaimAwaits, WalletAwaits
  <2>2. CASE Await(p, [r EXCEPT !.destination = TRUE], "claimSent")
    BY <1>1, <1>4, <2>1, <2>2, SameBurnHolds
  <2>3. CASE End(p, [r EXCEPT !.status = "complete", !.destination = TRUE])
    BY <1>1, <1>4, <2>1, <2>3, SameBurnHolds
  <2> QED BY <1>4, <1>5, <1>14, <2>2, <2>3 DEF RecordClaim
<1> QED BY <1>8, <1>9, <1>10, <1>11, <1>12, <1>13, <1>14

-----------------------------------------------------------------------------
(* What happens while no run has the record, or behind the back of the one    *)
(* that has it.                                                               *)
LEMMA NobodyElse ==
  ASSUME BurnInv, NEW p \in Pages, ~Runs(p), lease \in {None, p} \/ lease \notin Pages
  PROVE  \A q \in Pages : ~Runs(q) /\ q \notin renewing
BY PageAssumption DEF BurnInv, OneRun

(* The record at rest is rewritten without touching the burn, or deleted      *)
(* while it names none, or by remove().                                       *)
LEMMA RestHolds ==
  ASSUME TransferInv, BurnInv, \A q \in Pages : ~Runs(q) /\ q \notin renewing, \A q \in Pages : ~Runs(q)',
         UNCHANGED <<from, renewing, chain, removed>>,
         \/ stored # None /\ stored' # None /\ SameBurn(stored', stored)
         \/ stored # None /\ stored' = None /\ Unburned(stored)
  PROVE  BurnInv'
<1>1. \A q \in Pages : ~Runs(q)' /\ q \notin renewing'
  OBVIOUS
<1>2. OneRun' /\ Live' = Live
  BY <1>1 DEF OneRun, Live
<1>3. stored' # None => Tidy(stored)'
  BY DEF BurnInv, Tidy, SameBurn
<1>4. ASSUME NEW b \in Live PROVE Held(b)'
  <2>1. stored # None => Names(stored, b)
    BY DEF BurnInv, Held, Runs
  <2>2. (IF stored = None THEN removed ELSE Names(stored, b))'
    BY <2>1 DEF Names, SameBurn, Unburned
  <2> QED BY <1>1, <2>2 DEF Held
<1> QED BY <1>1, <1>2, <1>3, <1>4 DEF BurnInv

(* No page moves: the record is deleted by remove(), a lease nobody runs under*)
(* goes, or a burn that was sent settles.                                     *)
LEMMA StayHolds ==
  ASSUME TransferInv, BurnInv, UNCHANGED at \/ OnlyReplaced, UNCHANGED <<from, copy, hash, renewing>>,
         lease' = lease \/ lease \notin Pages,
         UNCHANGED <<stored, removed>> \/ (stored' = None /\ removed'),
         chain' \in [Burns -> {"unsent", "sent", "landed", "spedUp", "dead"}],
         \A b \in Burns : chain'[b] = chain[b]
                          \/ (chain[b] = "sent" /\ chain'[b] \in {"landed", "spedUp", "dead"})
  PROVE  BurnInv'
<1>1. \A q \in Pages : Runs(q)' <=> Runs(q)
  BY DEF Runs, OnlyReplaced
<1>a. \A q \in Pages : at'[q] \in {"approve", "build", "burnWallet", "burnSent"} \/ at[q] = "burnSent"
                       => at'[q] = at[q]
  BY DEF OnlyReplaced
<1>2. OneRun'
  BY <1>1 DEF BurnInv, OneRun
<1>3. \A r : r.dropped # None /\ r.dropped[1] \in Burns
             => (Tidy(r) => Tidy(r)') /\ (NoneLive(r) => NoneLive(r)')
  BY DEF Tidy, NoneLive
<1>4. \A r : r.dropped = None => (Tidy(r) => Tidy(r)') /\ (NoneLive(r) => NoneLive(r)')
  BY DEF Tidy, NoneLive
<1>5. \A r \in Record : r.dropped # None => r.dropped[1] \in Burns
  BY DEF Record, Hashes
<1>6. \A r \in Record : (Tidy(r) => Tidy(r)') /\ (NoneLive(r) => NoneLive(r)')
  BY <1>3, <1>4, <1>5
<1>7. stored' # None => Tidy(stored)'
  BY <1>6 DEF BurnInv, TransferInv, TypeOK
<1>8. ASSUME NEW q \in Pages, Runs(q) PROVE RunsTidily(q)'
  <2>1. RunsTidily(q) /\ copy[q] \in Record
    BY <1>8, CopyFacts DEF BurnInv
  <2>2. Tidy(copy[q])' /\ (NoneLive(copy[q]) => NoneLive(copy[q])')
    BY <1>6, <2>1 DEF RunsTidily
  <2> QED BY <1>a, <2>1, <2>2 DEF RunsTidily
<1>9. \A b \in Live' : b \in Live
  BY DEF Live, BurnInv
<1>10. ASSUME NEW b \in Live PROVE Held(b)'
  BY <1>1, <1>a DEF BurnInv, Held, Names
<1> QED BY <1>1, <1>2, <1>7, <1>8, <1>9, <1>10 DEF BurnInv

(* A page that runs nothing comes, goes or gives up what it holds.            *)
LEMMA AsideHolds ==
  ASSUME TransferInv, BurnInv, NEW p \in Pages, ~Runs(p),
         NEW s \in {"closed", "idle"}, at' = [at EXCEPT ![p] = s],
         \A q \in Pages \ {p} : copy'[q] = copy[q] /\ hash'[q] = hash[q],
         renewing' \in {renewing, renewing \ {p}}, lease' = lease \/ lease = p,
         UNCHANGED <<from, chain, stored, removed>>
  PROVE  BurnInv'
<1>1. at'[p] = s /\ \A q \in Pages \ {p} : at'[q] = at[q]
  BY DEF TransferInv, TypeOK
<1>2. \A q \in Pages : (Runs(q)' <=> Runs(q)) /\ (Runs(q) => q # p)
  BY <1>1 DEF Runs
<1>3. \A q \in Pages : Runs(q) => at'[q] = at[q] /\ copy'[q] = copy[q] /\ hash'[q] = hash[q] /\ lease' = lease
  BY <1>1, <1>2 DEF BurnInv, OneRun
<1>4. OneRun'
  BY <1>2, <1>3 DEF BurnInv, OneRun
<1>5. \A r : Tidy(r)' <=> Tidy(r)
  BY DEF Tidy
<1>6. ASSUME NEW q \in Pages, Runs(q) PROVE RunsTidily(q)'
  <2>1. RunsTidily(q) /\ copy'[q] = copy[q] /\ at'[q] = at[q]
    BY <1>3, <1>6 DEF BurnInv
  <2> QED BY <2>1 DEF RunsTidily, Tidy, NoneLive
<1>7. Live' = Live
  BY DEF Live
<1>8. ASSUME NEW b \in Live PROVE Held(b)'
  <2>1. CASE \E q \in Pages : Runs(q) /\ (Names(copy[q], b) \/ (at[q] = "burnSent" /\ hash[q] = b))
    BY <1>2, <1>3, <2>1 DEF Held, Names
  <2>2. CASE \A q \in Pages : ~Runs(q)
    BY <1>2, <2>2 DEF BurnInv, Held, Names, Runs
  <2> QED BY <2>1, <2>2, HeldByRun
<1> QED BY <1>2, <1>4, <1>5, <1>6, <1>7, <1>8 DEF BurnInv

-----------------------------------------------------------------------------
(* Where a run sets out from: a wallet is asked at once only for a burn on    *)
(* Sui, which no record there was ever written off.                           *)
LEMMA SameStart ==
  ASSUME NEW r \in Record, NEW h \in Hows
  PROVE  /\ AtStart(r, h).record \in Record /\ SameBurn(AtStart(r, h).record, r)
         /\ AtStart(r, h).at \in {"idle", "burnWallet", "wallets", "attest", "pressWallet", "nonce"}
         /\ AtStart(r, h).at = "burnWallet" => from = "sui" /\ r.source = None
<1>1. CASE r.source = None
  <2>1. [r EXCEPT !.status = "burning"] \in Record /\ SameBurn([r EXCEPT !.status = "burning"], r)
    BY DEF Record, SameBurn
  <2> QED BY <1>1, <2>1 DEF AtStart, SameBurn
<1>2. CASE r.source # None /\ r.attestation = 0
  BY <1>2, SameOutcomes DEF AtStart
<1>3. CASE r.source # None /\ r.attestation # 0
  BY <1>3, SameOutcomes DEF AtStart
<1> QED BY <1>1, <1>2, <1>3

LEMMA BeginHolds ==
  ASSUME TransferInv, BurnInv, NEW p \in Pages, NEW h \in Hows, ~Runs(p), ~Elsewhere(p), stored # None,
         Begin(p, h), UNCHANGED <<from, chain, removed>>
  PROVE  BurnInv'
<1> DEFINE o == AtStart(stored, h)
<1>1. \A q \in Pages : ~Runs(q) /\ q \notin renewing
  BY NobodyElse DEF Elsewhere
<1>2. /\ o.record \in Record /\ SameBurn(o.record, stored)
      /\ o.at \in {"idle", "burnWallet", "wallets", "attest", "pressWallet", "nonce"}
      /\ o.at = "burnWallet" => from = "sui" /\ stored.source = None
  BY SameStart DEF TransferInv, TypeOK
<1>3. stored' = o.record /\ at' = [at EXCEPT ![p] = o.at]
  BY DEF Begin
<1>4. CASE o.at = "idle"
  <2>1. renewing' = renewing
    BY <1>4 DEF Begin
  <2> HIDE DEF o
  <2>2. \A q \in Pages : ~Runs(q)'
    BY <1>1, <1>3, <1>4 DEF TransferInv, TypeOK, Runs
  <2> QED BY <1>1, <1>2, <1>3, <2>1, <2>2, RestHolds, RecordAssumption
<1>5. CASE o.at # "idle"
  <2>1. lease' = p /\ renewing' = renewing \cup {p} /\ copy' = [copy EXCEPT ![p] = o.record]
    BY <1>5 DEF Begin
  <2> HIDE DEF o
  <2>2. copy'[p] = o.record /\ at'[p] = o.at /\ \A q \in Pages \ {p} : at'[q] = at[q]
    BY <1>3, <2>1 DEF TransferInv, TypeOK
  <2>3. \A q \in Pages : Runs(q)' <=> q = p
    BY <1>1, <1>2, <1>5, <2>2 DEF Runs
  <2>4. OneRun'
    BY <1>1, <2>1, <2>3 DEF OneRun
  <2>5. Tidy(o.record)
    BY <1>2 DEF BurnInv, Tidy, SameBurn
  <2>6. o.at = "burnWallet" => NoneLive(o.record)
    BY <1>2, <2>5 DEF NoneLive, Tidy, SameBurn
  <2>7. stored' # None => Tidy(stored)'
    BY <1>3, <2>5 DEF Tidy
  <2>8. RunsTidily(p)'
    BY <1>2, <1>3, <2>2, <2>5, <2>6 DEF RunsTidily, Tidy, NoneLive
  <2>9. Live' = Live
    BY DEF Live
  <2>10. ASSUME NEW b \in Live PROVE Held(b)'
    <3>1. Names(stored, b)
      BY <1>1 DEF BurnInv, Held, Runs
    <3>2. Names(copy[p], b)'
      BY <1>2, <2>2, <3>1 DEF Names, SameBurn
    <3> QED BY <2>3, <3>2 DEF Held
  <2> QED BY <2>3, <2>4, <2>7, <2>8, <2>9, <2>10 DEF BurnInv
<1> QED BY <1>4, <1>5

LEMMA ResumeHolds ==
  ASSUME TransferInv, BurnInv, NEW p \in Pages, ~Runs(p), ResumeInterrupted(p),
         UNCHANGED <<from, chain, removed, hash>>
  PROVE  BurnInv'
<1>1. CASE Wanted /\ ~Elsewhere(p)
  BY <1>1, BeginHolds DEF ResumeInterrupted, Wanted, Hows
<1>2. CASE ~(Wanted /\ ~Elsewhere(p))
  BY <1>2, AsideHolds DEF ResumeInterrupted
<1> QED BY <1>1, <1>2

LEMMA RecordStepsHold ==
  ASSUME TransferInv, BurnInv, NEW p \in Pages,
         Press(p) \/ RetrySponsor(p) \/ SettleClaimed(p) \/ Remove(p) \/ RemoveUnburned(p)
  PROVE  BurnInv'
<1>1. ASSUME NEW h \in Hows, Execute(p, h) PROVE BurnInv'
  <2>1. ~Runs(p) /\ ~Elsewhere(p) /\ stored # None /\ Begin(p, h) /\ UNCHANGED <<from, chain, removed>>
    BY <1>1 DEF Execute, At, Runs, world, chains, rest
  <2> QED BY <2>1, BeginHolds
<1>2. CASE Press(p) \/ RetrySponsor(p)
  BY <1>1, <1>2 DEF Press, RetrySponsor, Hows
<1>3. CASE SettleClaimed(p) \/ RemoveUnburned(p)
  <2>1. /\ ~Runs(p) /\ ~Elsewhere(p) /\ stored # None
        /\ UNCHANGED <<at, from, renewing, chain, removed>>
    BY <1>3 DEF SettleClaimed, RemoveUnburned, At, Runs, world, chains, rest
  <2>2. (\A q \in Pages : ~Runs(q) /\ q \notin renewing) /\ \A q \in Pages : ~Runs(q)'
    BY <2>1, NobodyElse DEF Elsewhere, Runs
  <2>3. stored \in Record
    BY <2>1 DEF TransferInv, TypeOK
  <2>4. Completed(stored) # None /\ SameBurn(Completed(stored), stored)
    BY <2>3, RecordAssumption DEF Completed, Record, SameBurn
  <2> QED BY <1>3, <2>1, <2>2, <2>4, RestHolds DEF SettleClaimed, RemoveUnburned
<1>4. CASE Remove(p)
  <2>1. stored' = None /\ removed' /\ UNCHANGED <<from, chain, hash>>
    BY <1>4 DEF Remove, world, chains
  <2>2. CASE at[p] # "idle" /\ Finish(p)
    <3>1. Runs(p) /\ at' = [at EXCEPT ![p] = "idle"] /\ renewing' = renewing \ {p}
      BY <1>4, <2>2 DEF Remove, Open, Runs, Finish
    <3> QED BY <2>1, <3>1, RunEnds
  <2>3. CASE UNCHANGED <<lease, at, copy, how, renewing>>
    BY <2>1, <2>3, StayHolds DEF BurnInv
  <2> QED BY <1>4, <2>2, <2>3 DEF Remove
<1> QED BY <1>2, <1>3, <1>4

(* A page that goes away from its run, which keeps its lease or ends, or else *)
(* lost says so.                                                              *)
LEMMA PageStepsHold ==
  ASSUME TransferInv, BurnInv, NEW p \in Pages,
         Load(p) \/ LookAgain(p) \/ Leave(p) \/ Freeze(p) \/ Thaw(p) \/ Destroy(p) \/ Renew(p), ~lost'
  PROVE  BurnInv'
<1>1. ASSUME Finish(p), UNCHANGED <<from, chain, stored, removed, hash>>, at[p] = "idle" \/ Heeds(p)
      PROVE  BurnInv'
  <2>1. CASE at[p] = "idle"
    <3>1. ~Runs(p) /\ (\A q \in Pages \ {p} : copy'[q] = copy[q]) /\ at' = [at EXCEPT ![p] = "idle"]
      BY <1>1, <2>1 DEF Finish, Runs, TransferInv, TypeOK
    <3> QED BY <1>1, <3>1, AsideHolds DEF Finish
  <2>2. CASE Heeds(p)
    <3>1. Runs(p) /\ at[p] # "burnSent"
      BY <2>2 DEF Heeds, Runs
    <3> QED BY <1>1, <3>1, RunEnds DEF Finish
  <2> QED BY <1>1, <2>1, <2>2
<1>2. ASSUME UNCHANGED <<from, at, copy, hash, renewing, lease, stored, removed, chain>>
      PROVE  BurnInv'
  BY <1>2, StayHolds DEF BurnInv
<1>3. CASE Load(p)
  BY <1>3, ResumeHolds DEF Load, Runs, world, chains
<1>4. CASE LookAgain(p)
  BY <1>4, ResumeHolds DEF LookAgain, At, Runs, world, chains
<1>5. CASE Leave(p)
  <2>1. /\ at' = [at EXCEPT ![p] = "closed"] /\ renewing' = renewing \ {p} /\ at[p] # "burnSent"
        /\ UNCHANGED <<from, chain, stored, removed>>
        /\ lease' = lease \/ lease = p
    BY <1>5 DEF Leave, world, chains
  <2>2. CASE Runs(p)
    BY <2>1, <2>2, RunEnds
  <2>3. CASE ~Runs(p)
    <3>1. \A q \in Pages \ {p} : copy'[q] = copy[q] /\ hash'[q] = hash[q]
      BY <1>5 DEF Leave, TransferInv, TypeOK
    <3> QED BY <2>1, <2>3, <3>1, AsideHolds
  <2> QED BY <2>2, <2>3
<1>6. CASE Freeze(p)
  BY <1>1, <1>6 DEF Freeze, world, chains
<1>7. CASE Thaw(p)
  <2>1. CASE at[p] = "idle"
    BY <1>7, <2>1, ResumeHolds DEF Thaw, Runs, world, chains
  <2>2. CASE at[p] # "idle"
    BY <1>2, <1>7, <2>2 DEF Thaw, world, chains
  <2> QED BY <2>1, <2>2
<1>8. CASE Destroy(p)
  BY <1>1, <1>2, <1>8 DEF Destroy, world, chains
<1>9. CASE Renew(p)
  BY <1>9 DEF Renew, BurnInv, OneRun
<1> QED BY <1>3, <1>4, <1>5, <1>6, <1>7, <1>8, <1>9

LEMMA LostStays == lost /\ [Next]_vars => lost'
<1> SUFFICES ASSUME lost, [Next]_vars PROVE lost'
  OBVIOUS
<1>1. ASSUME NEW p \in Pages, RunStep(p) PROVE lost'
  BY <1>1 DEF RunStep, GotWallets, Recheck, Built, RecordBurn, CircleAttests, CircleFails,
     ChainConfirms, ChainSilent, ChainRejects, ReadNonce, Reattested, AskSponsor, FarWallets,
     RecordClaim, rest
<1>2. ASSUME NEW p \in Pages, UserStep(p) PROVE lost'
  BY <1>2 DEF UserStep, Press, Execute, Approved, SendBurn, BurnRefused, BurnUnheard, SendClaim, ClaimRefused,
     Remove, RemoveUnburned, rest
<1>3. ASSUME NEW p \in Pages, PageStep(p) PROVE lost'
  BY <1>3 DEF PageStep, RetrySponsor, Execute, SettleClaimed, Load, LookAgain, Leave, Freeze, Thaw,
     Destroy, Renew, rest
<1> QED BY <1>1, <1>2, <1>3 DEF Next, Lapse, Expire, Settle, ClaimedElsewhere, rest, vars

LEMMA BurnInvStep == TransferInv /\ (lost \/ BurnInv) /\ [Next]_vars => (lost \/ BurnInv)'
<1> SUFFICES ASSUME TransferInv, BurnInv, [Next]_vars, ~lost' PROVE BurnInv'
  BY LostStays
<1>1. ASSUME NEW p \in Pages, RunStep(p) PROVE BurnInv'
  BY <1>1, BurnStepsHold, RecordBurnHolds, AttestStepsHold, ClaimStepsHold DEF RunStep
<1>2. ASSUME NEW p \in Pages, UserStep(p) PROVE BurnInv'
  BY <1>2, BurnStepsHold, SendBurnHolds, ClaimStepsHold, RecordStepsHold DEF UserStep, BurnUnheard
<1>3. ASSUME NEW p \in Pages, PageStep(p) PROVE BurnInv'
  BY <1>3, RecordStepsHold, PageStepsHold DEF PageStep
<1>4. CASE Lapse
  <2>1. lease = Gone /\ UNCHANGED <<from, at, copy, hash, renewing, stored, removed, chain>>
    BY <1>4 DEF Lapse, world, chains
  <2> QED BY <2>1, StayHolds, PageAssumption DEF BurnInv
<1>5. CASE Expire
  BY <1>5, StayHolds DEF Expire, BurnInv, world, run, rest
<1>6. ASSUME NEW b \in Burns, Settle(b) PROVE BurnInv'
  <2>1. PICK s \in {"landed", "dead", "spedUp"} : chain' = [chain EXCEPT ![b] = s]
    BY <1>6 DEF Settle
  <2>2. /\ chain[b] = "sent" /\ UNCHANGED <<from, copy, hash, renewing, lease, stored, removed>>
        /\ UNCHANGED at \/ OnlyReplaced
    BY <1>6, SettleOnlyReplaces DEF Settle, world, rest
  <2>3. /\ chain' \in [Burns -> {"unsent", "sent", "landed", "spedUp", "dead"}]
        /\ \A c \in Burns : chain'[c] = chain[c]
                            \/ (chain[c] = "sent" /\ chain'[c] \in {"landed", "spedUp", "dead"})
    BY <2>1, <2>2 DEF BurnInv
  <2> QED BY <2>2, <2>3, StayHolds
<1>7. ASSUME NEW b \in Burns, ClaimedElsewhere(b) PROVE BurnInv'
  BY <1>7, StayHolds DEF ClaimedElsewhere, BurnInv, world, run, rest
<1>8. CASE UNCHANGED vars
  BY <1>8, StayHolds DEF vars, BurnInv, world, chains, run, rest
<1> QED BY <1>1, <1>2, <1>3, <1>4, <1>5, <1>6, <1>7, <1>8 DEF Next

LEMMA BurnInvInit == Init => BurnInv
<1> SUFFICES ASSUME Init PROVE BurnInv
  OBVIOUS
<1>1. \A p \in Pages : ~Runs(p) /\ p \notin renewing
  BY DEF Init, Runs
<1>2. stored # None => Tidy(stored)
  BY DEF Init, NewRecord, Tidy
<1>3. Live = {} /\ chain \in [Burns -> {"unsent", "sent", "landed", "spedUp", "dead"}]
  BY DEF Init, Live
<1> QED BY <1>1, <1>2, <1>3 DEF BurnInv, OneRun

(* Unless a run went on without its lease, or a burn went out that no page    *)
(* heard of: at most one page runs the transfer, and what was burnt is in the *)
(* record, in the one run's hands, or was deleted by remove().                *)
THEOREM TheBurnIsHeld == Spec => [](lost \/ BurnInv)
<1>1. Init => lost \/ BurnInv
  BY BurnInvInit
<1> QED BY <1>1, BurnInvStep, TransferInvariant, PTL DEF Spec

(* The transfer burns once: at most one burn is ever sent that is not dead,   *)
(* for any number of pages, burns, retries, misreadings and removals, with    *)
(* the two exceptions of TheBurnIsHeld.                                       *)
THEOREM TransferBurnsOnce == Spec => []BurnsOnce
<1>1. BurnInv => Cardinality(Live) <= 1
  <2> SUFFICES ASSUME BurnInv PROVE Cardinality(Live) <= 1
    OBVIOUS
  <2>1. CASE Live = {}
    BY <2>1, FS_EmptySet
  <2>2. ASSUME NEW b \in Live PROVE Cardinality(Live) <= 1
    <3>1. Live = {b}
      BY <2>2 DEF BurnInv
    <3>2. Cardinality({b}) = 1
      BY FS_Singleton
    <3> QED BY <3>1, <3>2
  <2> QED BY <2>1, <2>2
<1>2. lost \/ BurnInv => BurnsOnce
  BY <1>1 DEF BurnsOnce, Live
<1> QED BY <1>2, TheBurnIsHeld, PTL

(* A burn that may have moved funds is named by the record in storage, unless *)
(* its hash is on its way from the wallet to the page, remove() was asked to  *)
(* delete the record, or with the two exceptions of TheBurnIsHeld.            *)
THEOREM TransferKeepsBurn == Spec => []BurnIsKept
<1>1. TransferInv /\ (lost \/ BurnInv) => BurnIsKept
  <2> SUFFICES ASSUME TransferInv, BurnInv, ~lost, ~removed, NEW b \in Live, \A p \in Pages : hash[p] # b
               PROVE  stored # None /\ \E s \in {"sent", "spedUp"} : <<b, s>> \in {stored.source, stored.dropped}
    BY DEF BurnIsKept, Live, BurnInv
  <2>1. \A r \in Record : Names(r, b) => \E s \in {"sent", "spedUp"} : <<b, s>> \in {r.source, r.dropped}
    BY DEF Names, Record, Hashes
  <2>2. stored # None /\ Names(stored, b)
    <3>1. CASE \E p \in Pages : Runs(p) /\ Names(copy[p], b)
      BY <3>1, CopyFacts, RecordAssumption DEF BurnInv, RunsTidily
    <3>2. CASE \A p \in Pages : ~Runs(p)
      BY <3>2 DEF BurnInv, Held, Runs
    <3> QED BY <3>1, <3>2, HeldByRun
  <2> QED BY <2>1, <2>2 DEF TransferInv, TypeOK
<1> QED BY <1>1, TransferInvariant, TheBurnIsHeld, PTL

=============================================================================
