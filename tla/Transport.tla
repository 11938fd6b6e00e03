------------------------------- MODULE Transport -------------------------------
(***************************************************************************)
(* A batch's way from the tracker in a page to the collector: in the clear *)
(* to /tracker, or sealed to the encrypted endpoint (snowplow.ts, seal.js, *)
(* encrypted.py, tracker.py, body_limit.py), while the operator rotates    *)
(* the collector's keys and either side stops.                             *)
(*                                                                         *)
(* The tracker keeps its batches across pages, posts the oldest and waits  *)
(* for the answer.  The browser keeps the sealer's script for MaxAge; a    *)
(* page keeps the sealer it loaded.  Time is discrete; a request takes     *)
(* less than a tick.  ClosePage settles what becomes of its request.       *)
(*                                                                         *)
(* The operator starts a key by putting it first and retires an old one    *)
(* when the new one has been served for Overlap; no page stays open for    *)
(* more than PageLife.                                                     *)
(***************************************************************************)
EXTENDS Envelope

CONSTANTS
  NoKid, NoWire,
  FirstKid,   \* the id of the first key
  Clear,      \* stands for a body in the clear
  Pendings,   \* what batches a tracker may hold, oldest first
  Invalid,    \* batches that PayloadModel refuses
  Raising,    \* batches whose processing raises, every time (_safe_uuid)
  MaxBody,    \* security.max_request_body_bytes
  MaxAge,     \* _SEAL_SCRIPT_MAX_AGE
  PageLife,   \* how long a page is open
  Overlap     \* how long a new key is served before an old one is retired

\* What a sealer writes, and what may become of it.
Sealed == {Seal(kid, batch, packed) : kid \in Kids, batch \in Batches, packed \in BOOLEAN}
Wires == Sealed \union UNION {Altered(wire) : wire \in Sealed}

ASSUME TransportAssumption ==
  /\ FirstKid \in Kids /\ NoKid \notin Kids
  /\ NoWire \notin Wires /\ Clear \notin Wires /\ NoWire # Clear
  /\ Pendings \subseteq Seq(Batches)
  /\ Invalid \subseteq Batches
  /\ Raising \subseteq Batches
  /\ MaxBody \in Nat
  /\ MaxAge \in Nat \ {0}
  /\ PageLife \in Nat
  /\ Overlap \in Nat
  /\ MaxAge + PageLife <= Overlap

VARIABLES
  encrypt,   \* initSnowplow's option
  x25519,    \* supported()
  gzips,     \* CompressionStream is there
  queue,     \* the tracker's batches
  script,    \* the cached script: [kid, age], kid = NoKid when there is none
  page,      \* [open, age, sealer]: sealer is a key id once the script has run
  req,       \* the POST of Head(queue): [stage, wire, status]
  up,        \* the collector serves
  config,    \* encryption.keys
  keyring,   \* app.state.keyring: [primary, keys]
  since,     \* how long keyring.primary has been the primary, up to Overlap
  stored,    \* batches whose rows are inserted
  inClear,   \* batches that left a page unsealed
  broken     \* what broke of req: "nothing", "sealing", "envelope" or "fetch"

mode == <<encrypt, x25519, gzips>>
browser == <<queue, script, page>>
collector == <<up, config, keyring>>
fate == <<stored, inClear, broken>>
vars == <<mode, browser, req, collector, since, fate>>

NoRequest == [stage |-> "none", wire |-> NoWire, status |-> 0]
NoScript == [kid |-> NoKid, age |-> 0]
NoPage == [open |-> FALSE, age |-> 0, sealer |-> NoKid]

Batch == Head(queue)

\* encryptedFetch seals; otherwise the tracker's own POST goes out.
Sealing == encrypt /\ x25519

KeyringOf(keys) == [primary |-> PrimaryOf(keys), keys |-> KidsOf(keys)]

\* Only what a page that encrypts can do tells its modes apart.
Init ==
  /\ encrypt \in BOOLEAN /\ x25519 \in BOOLEAN /\ gzips \in BOOLEAN
  /\ ~encrypt => x25519
  /\ ~Sealing => gzips
  /\ queue \in Pendings
  /\ script = NoScript
  /\ page = NoPage
  /\ req = NoRequest
  /\ up = TRUE
  /\ \E m \in Materials : config = <<[kid |-> FirstKid, enabled |-> TRUE, material |-> m]>>
  /\ Builds(config)
  /\ keyring = KeyringOf(config)
  /\ since = Overlap
  /\ stored = {} /\ inClear = {} /\ broken = "nothing"

-----------------------------------------------------------------------------
(***************************************************************************)
(* The page.                                                               *)
(***************************************************************************)

OpenPage ==
  /\ ~page.open
  /\ page' = [NoPage EXCEPT !.open = TRUE]
  /\ UNCHANGED <<mode, queue, script, req, collector, since, fate>>

\* Mutation of CachedFresh: a cached script does not expire.
CachedForever == script.kid # NoKid

CachedFresh == script.kid # NoKid /\ script.age < MaxAge

\* loadSealer: the script comes from the browser's cache while it is fresh,
\* else from encrypted_script.
LoadSealer ==
  /\ page.open /\ page.sealer = NoKid /\ encrypt
  /\ \/ CachedFresh /\ UNCHANGED script
     \/ ~CachedFresh /\ up /\ script' = [kid |-> keyring.primary, age |-> 0]
  /\ page' = [page EXCEPT !.sealer = script'.kid]
  /\ UNCHANGED <<mode, queue, req, collector, since, fate>>

\* Mutation of Flush: customFetch left undefined until the sealer is there.
FlushUnsealed ==
  /\ page.open /\ queue # <<>> /\ req.stage = "none"
  /\ IF Sealing /\ page.sealer # NoKid
     THEN req' = [req EXCEPT !.stage = "seal"] /\ UNCHANGED inClear
     ELSE /\ req' = [req EXCEPT !.stage = "net", !.wire = Clear]
          /\ inClear' = inClear \union {Batch}
  /\ broken' = "nothing"
  /\ UNCHANGED <<mode, browser, collector, since, stored>>

\* A flush before the sealer has loaded is rejected and the batch is kept.
Flush ==
  /\ page.open /\ queue # <<>> /\ req.stage = "none"
  /\ encrypt => page.sealer # NoKid
  /\ IF Sealing
     THEN req' = [req EXCEPT !.stage = "seal"] /\ UNCHANGED inClear
     ELSE /\ req' = [req EXCEPT !.stage = "net", !.wire = Clear]
          /\ inClear' = inClear \union {Batch}
  /\ broken' = "nothing"
  /\ UNCHANGED <<mode, browser, collector, since, stored>>

SealBatch ==
  /\ req.stage = "seal"
  /\ req' = [req EXCEPT !.stage = "net", !.wire = Seal(page.sealer, Batch, gzips)]
  /\ UNCHANGED <<mode, browser, collector, since, fate>>

\* The catch of encryptedFetch answers 400, whatever rejected: the sealing or
\* the fetch.  A rejection of the tracker's own fetch is not an answer.
Rejected(what) ==
  /\ IF Sealing
     THEN /\ req' = [stage |-> "answer", wire |-> NoWire, status |-> 400]
          /\ broken' = what
     ELSE req' = NoRequest /\ UNCHANGED broken

SealFails ==
  /\ req.stage = "seal"
  /\ Rejected("sealing")
  /\ UNCHANGED <<mode, browser, collector, since, stored, inClear>>

\* Mutation of NoRetry: 500 is among the statuses.
NoRetryWith500 == {400, 401, 403, 410, 422, 500} \union (IF encrypt THEN {413} ELSE {})

\* Mutation of NoRetry: without dontRetryStatusCodes.
NoRetryWithout413 == {400, 401, 403, 410, 422}

\* The tracker's no-retry list and dontRetryStatusCodes.
NoRetry == {400, 401, 403, 410, 422} \union (IF encrypt THEN {413} ELSE {})

Receive ==
  /\ req.stage = "answer"
  /\ IF req.status = 204 \/ req.status \in NoRetry
     THEN queue' = Tail(queue)
     ELSE UNCHANGED queue
  /\ req' = NoRequest
  /\ UNCHANGED <<mode, script, page, collector, since, stored, inClear, broken>>

-----------------------------------------------------------------------------
(***************************************************************************)
(* The network and the endpoints.                                          *)
(***************************************************************************)

BodySize(wire) ==
  IF wire # Clear /\ wire.ct.packed THEN Packed[Batch] ELSE Size[Batch]

\* The status of an answer without processing, 0 for none: the body limit of
\* every endpoint, validation of a plain body, and for an envelope its own
\* limit and one opaque 400.
Refusal(wire) ==
  IF BodySize(wire) > MaxBody THEN 413
  ELSE IF wire = Clear THEN IF Batch \in Invalid THEN 422 ELSE 0
  ELSE IF BodySize(wire) > MaxEnvelope THEN 413
  ELSE IF ~Opens(keyring.keys, wire) \/ Batch \in Invalid THEN 400
  ELSE 0

Arrive(wire) ==
  /\ req.stage = "net" /\ up
  /\ req' = IF Refusal(wire) = 0
            THEN [req EXCEPT !.stage = "insert", !.wire = wire]
            ELSE [stage |-> "answer", wire |-> NoWire, status |-> Refusal(wire)]

Deliver ==
  /\ Arrive(req.wire)
  /\ UNCHANGED <<mode, browser, collector, since, fate>>

\* An envelope that was cut or changed on its way.
DeliverAltered ==
  /\ req.stage = "net" /\ req.wire # Clear
  /\ \E wire \in Altered(req.wire) : Arrive(wire)
  /\ broken' = "envelope"
  /\ UNCHANGED <<mode, browser, collector, since, stored, inClear>>

\* process_data and connector.insert_rows.
Insert ==
  /\ req.stage = "insert" /\ up
  /\ Batch \notin Raising
  /\ req' = [stage |-> "answer", wire |-> NoWire, status |-> 204]
  /\ stored' = stored \union {Batch}
  /\ UNCHANGED <<mode, browser, collector, since, inClear, broken>>

\* process_data raises, which nothing catches.
ProcessingFails ==
  /\ req.stage = "insert" /\ up
  /\ Batch \in Raising
  /\ req' = [stage |-> "answer", wire |-> NoWire, status |-> 500]
  /\ UNCHANGED <<mode, browser, collector, since, fate>>

\* An insert that raises may have landed.
InsertFails ==
  /\ req.stage = "insert" /\ up
  /\ Batch \notin Raising
  /\ req' = [stage |-> "answer", wire |-> NoWire, status |-> 500]
  /\ stored' \in {stored, stored \union {Batch}}
  /\ UNCHANGED <<mode, browser, collector, since, inClear, broken>>

\* What is left of a request that nobody waits for is done or is not.
MayLand ==
  LET arrives == req.stage = "insert" \/ (req.stage = "net" /\ up /\ Refusal(req.wire) = 0) IN
  stored' \in {stored} \union
    (IF arrives /\ Batch \notin Raising THEN {stored \union {Batch}} ELSE {})

\* The request or its answer is lost, or nothing answers.
Lose ==
  /\ req.stage \in {"net", "insert"}
  /\ MayLand
  /\ Rejected("fetch")
  /\ UNCHANGED <<mode, browser, collector, since, inClear>>

\* The page goes with its request; the tracker has its batches in storage.
ClosePage ==
  /\ page.open
  /\ page' = NoPage
  /\ req' = NoRequest
  /\ MayLand
  /\ UNCHANGED <<mode, queue, script, collector, since, inClear, broken>>

-----------------------------------------------------------------------------
(***************************************************************************)
(* The collector's process and its operator.                               *)
(***************************************************************************)

\* A stop, at any moment: the connection of a request breaks.
Stop ==
  /\ up
  /\ up' = FALSE
  /\ IF req.stage \in {"net", "insert"}
     THEN MayLand /\ Rejected("fetch")
     ELSE UNCHANGED <<stored, req, broken>>
  /\ UNCHANGED <<mode, browser, config, keyring, since, inClear>>

\* _configure_encryption, before anything is served.
Start ==
  /\ ~up /\ Builds(config)
  /\ up' = TRUE
  /\ keyring' = KeyringOf(config)
  /\ since' = IF PrimaryOf(config) = keyring.primary THEN since ELSE 0
  /\ UNCHANGED <<mode, browser, req, config, fate>>

\* The running keyring is the configured one, and old enough for an edit.
Settled == up /\ Builds(config) /\ keyring = KeyringOf(config) /\ since >= Overlap

\* A rotation: the new key goes first, the old ones stay.  The edit may be
\* one that does not start: a material that is no key, or an id in use.
AddKey ==
  /\ Settled
  /\ \E kid \in Kids, m \in Materials :
       /\ \A i \in DOMAIN config : config[i].kid = kid => config[i].enabled
       /\ config' = <<[kid |-> kid, enabled |-> TRUE, material |-> m]>> \o config
  /\ UNCHANGED <<mode, browser, req, up, keyring, since, fate>>

\* The old keys are disabled.
RetireKeys ==
  /\ Settled
  /\ config' = [i \in DOMAIN config |-> [config[i] EXCEPT !.enabled = @ /\ i = 1]]
  /\ UNCHANGED <<mode, browser, req, up, keyring, since, fate>>

\* An edit that does not start is taken back.
MendKeys ==
  /\ ~Builds(config)
  /\ config' = Tail(config)
  /\ UNCHANGED <<mode, browser, req, up, keyring, since, fate>>

\* Time passes; a page is closed before it is older than PageLife.
Tick ==
  /\ req.stage = "none"
  /\ page.open => page.age < PageLife
  /\ page' = [page EXCEPT !.age = IF page.open THEN @ + 1 ELSE 0]
  /\ script' = IF CachedFresh THEN [script EXCEPT !.age = @ + 1] ELSE NoScript
  /\ since' = IF since < Overlap THEN since + 1 ELSE since
  /\ UNCHANGED <<mode, queue, req, collector, fate>>

Next ==
  \/ OpenPage \/ LoadSealer \/ Flush \/ SealBatch \/ SealFails \/ Receive
  \/ Deliver \/ DeliverAltered \/ Insert \/ ProcessingFails \/ InsertFails
  \/ Lose \/ ClosePage
  \/ Stop \/ Start \/ AddKey \/ RetireKeys \/ MendKeys
  \/ Tick

Spec == Init /\ [][Next]_vars

\* Pages end, the visitor comes back and the operator mends; now and then,
\* while the collector serves, a visit is long enough for the next step and
\* the network works, and so does the insert of a batch that can be processed.
Fairness ==
  /\ WF_vars(ClosePage) /\ WF_vars(Start) /\ WF_vars(MendKeys)
  /\ SF_vars(up /\ OpenPage) /\ SF_vars(up /\ LoadSealer)
  /\ SF_vars(up /\ Flush) /\ SF_vars(up /\ SealBatch)
  /\ SF_vars(Deliver) /\ SF_vars(Insert) /\ SF_vars(req.status # 500 /\ Receive)

FairSpec == Spec /\ Fairness

-----------------------------------------------------------------------------
Stages == {"none", "seal", "net", "insert", "answer"}
Statuses == {0, 204, 400, 413, 422, 500}
Breakages == {"nothing", "sealing", "envelope", "fetch"}

\* The types: what is cached or open is never older than its limit, and a wire
\* is one a page wrote.
TypeOK ==
  /\ encrypt \in BOOLEAN /\ x25519 \in BOOLEAN /\ gzips \in BOOLEAN
  /\ queue \in Seq(Batches)
  /\ script \in [kid : Kids \union {NoKid}, age : 0..MaxAge]
  /\ page \in [open : BOOLEAN, age : 0..PageLife, sealer : Kids \union {NoKid}]
  /\ req \in [stage : Stages, wire : Sealed \union {NoWire, Clear}, status : Statuses]
  /\ up \in BOOLEAN
  /\ config \in Seq([kid : Kids, enabled : BOOLEAN, material : Materials])
  /\ keyring \in [primary : Kids, keys : SUBSET Kids]
  /\ since \in 0..Overlap
  /\ stored \subseteq Batches /\ inClear \subseteq Batches
  /\ broken \in Breakages

\* A batch of a page that is to encrypt leaves it sealed, also before the
\* sealer is there and when the sealing fails (seal.js:22-24, snowplow.ts:60-61).
NeverInTheClear == Sealing => inClear = {}

\* What the ceilings and the schema admit, in the form it is sent in.
Acceptable(b) ==
  LET size == IF Sealing /\ gzips THEN Packed[b] ELSE Size[b] IN
  /\ b \notin Invalid
  /\ size <= MaxBody
  /\ Sealing => size <= MaxEnvelope /\ Size[b] <= MaxPlaintext

\* The collector answered, not the catch of encryptedFetch in its place.
Answered == broken \notin {"sealing", "fetch"}

\* The collector's answers make the tracker give up only a batch whose rows are
\* inserted or that no retry could store: none for a rotation, an error of the
\* processing or a failed insert, and in the clear none for an outage either.
\* Sealed, also one whose envelope was altered (snowplow.ts:80-84,
\* encrypted.py:51-59).
DroppedForCause ==
  [][queue' # queue /\ (Answered \/ ~Sealing) =>
       /\ queue' = Tail(queue)
       /\ \/ Batch \in stored
          \/ ~Acceptable(Batch)
          \/ Sealing /\ broken = "envelope"]_vars

\* seal.js:234: the catch's 400 has the batch "dropped rather than retried forever
\* against a broken sealer": no batch that could be stored is dropped unstored
\* by a page whose sealer works.
DroppedForBrokenSealer ==
  [][queue' # queue => Batch \in stored \/ ~Acceptable(Batch)
                         \/ broken \in {"sealing", "envelope"}]_vars

\* What is processed as sealed was sealed to a key of the keyring, unchanged,
\* and is within the ceiling also after the gunzip (crypto.py:480-497).
OpensOnlyWhatWasSealed ==
  req.stage = "insert" /\ req.wire # Clear =>
    /\ \E kid \in keyring.keys, packed \in BOOLEAN : req.wire = Seal(kid, Batch, packed)
    /\ Size[Batch] <= MaxPlaintext

\* Through a rotation every key a page holds or may still load opens, and once
\* the overlap is over every page seals to the new one (crypto.py:323-327).
RotationIsSeamless ==
  /\ page.sealer # NoKid => page.sealer \in keyring.keys
  /\ CachedFresh => script.kid \in keyring.keys
  /\ since >= MaxAge + PageLife => page.sealer \in {NoKid, keyring.primary}

\* The oldest batch is one the tracker retries for ever, as the collector never
\* takes it: in the clear 413 is retried, and so is the 500 of a batch whose
\* processing raises every time.
RetriedForever ==
  /\ queue # <<>>
  /\ \/ ~encrypt /\ Size[Batch] > MaxBody
     \/ Acceptable(Batch) /\ Batch \in Raising

\* The queue drains, through failures, stops and rotations, or is held up for ever
\* by a batch the collector never takes (snowplow.ts:80-84, payload.py:111-115).
QueueDrains == <>[](queue = <<>> \/ RetriedForever)
=============================================================================
