---------------------------- MODULE TransportProofs ----------------------------
(***************************************************************************)
(* Proofs about Transport, for every set of keys and batches and every     *)
(* limit: nothing leaves a page in the clear that should be sealed, no     *)
(* rotation breaks an open page or a cached script, only what was sealed   *)
(* is opened, and no batch is given up without a cause.                    *)
(*                                                                         *)
(* KeysInv follows a key from the script the collector served to the page  *)
(* that holds it: whoever holds an old key got it before the primary       *)
(* changed, so the time since then is bounded by the age of what holds it. *)
(***************************************************************************)
EXTENDS Transport, SequenceTheorems, TLAPS

Entries == [kid : Kids, enabled : BOOLEAN, material : Materials]

-----------------------------------------------------------------------------
(***************************************************************************)
(* Envelopes.                                                              *)
(***************************************************************************)

\* A keyring that has the key opens what was sealed, up to the ceiling.
LEMMA OpensSealed ==
  ASSUME NEW kid \in Kids, NEW batch \in Batches, NEW packed \in BOOLEAN,
         NEW keys
  PROVE  Opens(keys, Seal(kid, batch, packed))
           <=> kid \in keys /\ Size[batch] <= MaxPlaintext
<1> DEFINE wire == Seal(kid, batch, packed)
<1>1. /\ wire.whole
      /\ wire.header = Header(kid, packed)
      /\ wire.nonce = Fresh
      /\ wire.ct.key = DeriveKey(kid, Fresh)
      /\ wire.ct.nonce = Fresh
      /\ wire.ct.aad = Header(kid, packed)
      /\ wire.ct.body = batch
      /\ wire.ct.packed = packed
  BY DEF Seal, Header
<1>2. /\ wire.header.magic = "EVN1"
      /\ wire.header.version = 1
      /\ wire.header.flags = IF packed THEN GzipFlag ELSE 0
      /\ wire.header.kid = kid
      /\ wire.header.epk = Fresh
  BY <1>1 DEF Header
<1> HIDE DEF wire
<1>3. WellFormed(wire)
  BY <1>1, <1>2 DEF WellFormed, GzipFlag
<1>4. Authentic(wire)
  BY <1>1, <1>2 DEF Authentic, Fresh, LowOrder
<1>5. (wire.header.flags = GzipFlag) = wire.ct.packed
  BY <1>1, <1>2 DEF GzipFlag
<1>6. Opens(keys, wire) <=> kid \in keys /\ Size[batch] <= MaxPlaintext
  BY <1>1, <1>2, <1>3, <1>4, <1>5 DEF Opens, WithinCeiling
<1> QED
  BY <1>6 DEF wire

\* No keyring opens what was sealed and altered.
LEMMA AlteredNeverOpens ==
  ASSUME NEW kid \in Kids, NEW batch \in Batches, NEW packed \in BOOLEAN,
         NEW keys, NEW wire \in Altered(Seal(kid, batch, packed))
  PROVE  ~Opens(keys, wire)
<1> DEFINE sealed == Seal(kid, batch, packed)
           withHeader(h) == [sealed EXCEPT !.header = h]
<1>1. /\ sealed.header = Header(kid, packed)
      /\ sealed.ct.aad = Header(kid, packed)
      /\ sealed.nonce = Fresh /\ sealed.ct.nonce = Fresh
      /\ DOMAIN sealed = {"whole", "header", "nonce", "ct"}
      /\ DOMAIN sealed.ct = {"key", "nonce", "aad", "body", "packed"}
  BY DEF Seal, Header
<1>2. CASE wire = [sealed EXCEPT !.whole = FALSE]
  BY <1>1, <1>2 DEF Opens, WellFormed
<1>3. CASE wire = [sealed EXCEPT !.nonce = Other]
  BY <1>1, <1>3 DEF Opens, Authentic, Fresh, Other
<1>4. CASE wire = [sealed EXCEPT !.ct.body = Other]
  BY <1>1, <1>4, EnvelopeAssumption DEF Opens, Authentic
<1>5. ASSUME NEW h, wire = withHeader(h), h # Header(kid, packed)
      PROVE  ~Opens(keys, wire)
  <2>1. wire.header = h /\ wire.ct.aad = Header(kid, packed)
    BY <1>1, <1>5
  <2> QED
    BY <2>1, <1>5 DEF Opens, Authentic
<1>6. /\ Header(kid, packed).magic = "EVN1"
      /\ Header(kid, packed).version = 1
      /\ Header(kid, packed).flags \in {0, 1}
      /\ Header(kid, packed).kid = kid
      /\ Header(kid, packed).epk = Fresh
      /\ DOMAIN Header(kid, packed) = {"magic", "version", "flags", "kid", "epk"}
  BY DEF Header, GzipFlag
<1> DEFINE header == Header(kid, packed)
<1>7. /\ [header EXCEPT !.magic = Other].magic = Other
      /\ [header EXCEPT !.version = 2].version = 2
      /\ [header EXCEPT !.flags = 2].flags = 2
      /\ [header EXCEPT !.flags = GzipFlag - @].flags = GzipFlag - header.flags
      /\ [header EXCEPT !.kid = BadId].kid = BadId
      /\ [header EXCEPT !.epk = Other].epk = Other
      /\ [header EXCEPT !.epk = LowOrder].epk = LowOrder
      /\ \A k : [header EXCEPT !.kid = k].kid = k
  BY <1>6
<1> HIDE DEF header
<1>8. /\ [header EXCEPT !.magic = Other] # header
      /\ [header EXCEPT !.version = 2] # header
      /\ [header EXCEPT !.flags = 2] # header
      /\ [header EXCEPT !.flags = GzipFlag - @] # header
      /\ [header EXCEPT !.kid = BadId] # header
      /\ [header EXCEPT !.epk = Other] # header
      /\ [header EXCEPT !.epk = LowOrder] # header
      /\ \A k \in Kids \ {kid} : [header EXCEPT !.kid = k] # header
  <2> USE <1>6, <1>7 DEF header
  <2>1. /\ [header EXCEPT !.magic = Other] # header
        /\ [header EXCEPT !.epk = Other] # header
        /\ [header EXCEPT !.epk = LowOrder] # header
    BY DEF Other, Fresh, LowOrder
  <2>2. /\ [header EXCEPT !.version = 2] # header
        /\ [header EXCEPT !.flags = 2] # header
        /\ [header EXCEPT !.flags = GzipFlag - @] # header
    BY DEF GzipFlag
  <2>3. [header EXCEPT !.kid = BadId] # header
    BY EnvelopeAssumption
  <2>4. \A k \in Kids \ {kid} : [header EXCEPT !.kid = k] # header
    OBVIOUS
  <2> QED
    BY <2>1, <2>2, <2>3, <2>4
<1>9. sealed.header = header /\ sealed.header.kid = kid
  BY <1>1, <1>6 DEF header
<1> HIDE DEF sealed, withHeader
<1>10. \/ wire \in {[sealed EXCEPT !.whole = FALSE], [sealed EXCEPT !.nonce = Other],
                    [sealed EXCEPT !.ct.body = Other]}
       \/ \E h : wire = withHeader(h) /\ h # header
  <2>1. wire \in Altered(sealed)
    BY DEF sealed
  <2>2. \/ wire \in {[sealed EXCEPT !.whole = FALSE], [sealed EXCEPT !.nonce = Other],
                     [sealed EXCEPT !.ct.body = Other]}
        \/ wire = withHeader([header EXCEPT !.magic = Other])
        \/ wire = withHeader([header EXCEPT !.version = 2])
        \/ wire = withHeader([header EXCEPT !.flags = 2])
        \/ wire = withHeader([header EXCEPT !.flags = GzipFlag - @])
        \/ wire = withHeader([header EXCEPT !.kid = BadId])
        \/ wire = withHeader([header EXCEPT !.epk = Other])
        \/ wire = withHeader([header EXCEPT !.epk = LowOrder])
        \/ \E k \in Kids \ {kid} : wire = withHeader([header EXCEPT !.kid = k])
    BY <2>1, <1>9 DEF Altered, withHeader
  <2> QED
    BY <2>2, <1>8
<1> QED
  BY <1>2, <1>3, <1>4, <1>5, <1>10 DEF header, sealed

-----------------------------------------------------------------------------
(***************************************************************************)
(* Configurations.                                                         *)
(***************************************************************************)

\* The primary is the first key, when that one is enabled.
LEMMA PrimaryIsFirst ==
  ASSUME NEW c \in Seq(Entries), c # <<>>, c[1].enabled
  PROVE  /\ PrimaryOf(c) = c[1].kid
         /\ PrimaryOf(c) \in KidsOf(c)
         /\ KidsOf(c) \subseteq Kids
<1>1. 1 \in EnabledIn(c) /\ EnabledIn(c) \subseteq 1 .. Len(c)
  BY DEF EnabledIn
<1>2. FirstEnabled(c) = 1
  <2>1. \A j \in EnabledIn(c) : 1 <= j
    BY <1>1
  <2>2. \A i \in EnabledIn(c) : i <= 1 => i = 1
    BY <1>1
  <2> QED
    BY <1>1, <2>1, <2>2 DEF FirstEnabled
<1>3. PrimaryOf(c) = c[1].kid
  BY <1>2 DEF PrimaryOf
<1>4. \A i \in EnabledIn(c) : c[i] \in Entries
  BY <1>1
<1>5. KidsOf(c) \subseteq Kids
  BY <1>4 DEF KidsOf, Entries
<1>6. c[1].kid \in KidsOf(c)
  BY <1>1 DEF KidsOf
<1> QED
  BY <1>3, <1>5, <1>6

\* AddKey's new configuration.
LEMMA AddedConfig ==
  ASSUME NEW c \in Seq(Entries), NEW e \in Entries, e.enabled
  PROVE  LET t == <<e>> \o c IN
         /\ t \in Seq(Entries) /\ t # <<>> /\ t[1].enabled
         /\ Len(t) = Len(c) + 1
         /\ Tail(t) = c
         /\ KidsOf(c) \subseteq KidsOf(t)
<1> DEFINE t == <<e>> \o c
<1>1. /\ <<e>> \in Seq(Entries)
      /\ Len(<<e>>) = 1
      /\ <<e>>[1] = e
  OBVIOUS
<1>2. /\ t \in Seq(Entries)
      /\ Len(t) = Len(c) + 1
      /\ t[1] = e
      /\ \A i \in 1 .. Len(c) : t[i + 1] = c[i]
  BY <1>1
<1> HIDE DEF t
<1>3. t # <<>>
  BY <1>2
<1>4. /\ Tail(t) \in Seq(Entries)
      /\ Len(Tail(t)) = Len(c)
      /\ \A i \in 1 .. Len(c) : Tail(t)[i] = t[i + 1]
  BY <1>2, <1>3
<1>5. Tail(t) = c
  BY <1>2, <1>4, SeqEqual
<1>6. \A i \in EnabledIn(c) : i + 1 \in EnabledIn(t) /\ t[i + 1].kid = c[i].kid
  BY <1>2 DEF EnabledIn
<1>7. KidsOf(c) \subseteq KidsOf(t)
  BY <1>6 DEF KidsOf
<1> QED
  BY <1>2, <1>3, <1>5, <1>7 DEF t

\* RetireKeys' new configuration: the first key alone, and it still starts.
LEMMA RetiredConfig ==
  ASSUME NEW c \in Seq(Entries), c # <<>>, c[1].enabled, Builds(c)
  PROVE  LET t == [i \in DOMAIN c |-> [c[i] EXCEPT !.enabled = @ /\ i = 1]] IN
         /\ t \in Seq(Entries) /\ t # <<>> /\ t[1].enabled /\ t[1].kid = c[1].kid
         /\ Builds(t)
<1> DEFINE t == [i \in DOMAIN c |-> [c[i] EXCEPT !.enabled = @ /\ i = 1]]
<1>1. DOMAIN c = 1 .. Len(c) /\ Len(c) \in Nat \ {0}
  OBVIOUS
<1>2. \A i \in 1 .. Len(c) : c[i] \in Entries
  OBVIOUS
<1>3. ASSUME NEW i \in 1 .. Len(c)
      PROVE  /\ t[i] \in Entries
             /\ t[i].kid = c[i].kid
             /\ t[i].material = c[i].material
             /\ t[i].enabled = (c[i].enabled /\ i = 1)
  BY <1>1, <1>2 DEF Entries
<1>4. DOMAIN t = 1 .. Len(c)
  BY <1>1
<1> HIDE DEF t
<1>5. t \in Seq(Entries) /\ Len(t) = Len(c)
  <2>1. t = [i \in 1 .. Len(c) |-> t[i]]
    BY <1>1, <1>4 DEF t
  <2> QED
    BY <2>1, <1>1, <1>3, <1>4, IsASeq
<1>6. 1 \in 1 .. Len(c)
  BY <1>1
<1>7. t[1].enabled /\ t[1].kid = c[1].kid /\ t # <<>>
  BY <1>1, <1>3, <1>5, <1>6
<1>8. EnabledIn(t) = {1}
  BY <1>3, <1>4, <1>6, <1>7 DEF EnabledIn
<1>9. 1 \in EnabledIn(c)
  BY <1>1 DEF EnabledIn
<1>10. Builds(t)
  BY <1>1, <1>3, <1>4, <1>6, <1>8, <1>9 DEF Builds
<1> QED
  BY <1>5, <1>7, <1>10 DEF t

-----------------------------------------------------------------------------
(***************************************************************************)
(* Types, and what a request and the configuration always look like.       *)
(***************************************************************************)

\* The first key is enabled, and what an edit that does not start hides
\* starts and is what runs.
ConfigOK ==
  /\ config # <<>> /\ config[1].enabled
  /\ ~Builds(config) =>
       /\ Tail(config) # <<>> /\ Tail(config)[1].enabled
       /\ Builds(Tail(config))
       /\ keyring = KeyringOf(Tail(config))

\* A request is of an open page with a sealer, and its wire is the page's.
RequestOK ==
  /\ req.stage # "none" =>
       page.open /\ queue # <<>> /\ (encrypt => page.sealer # NoKid)
  /\ req.stage = "seal" => Sealing
  /\ req.stage \in {"net", "insert"} =>
       req.wire = IF Sealing THEN Seal(page.sealer, Batch, gzips) ELSE Clear

ShapeInv == TypeOK /\ ConfigOK /\ RequestOK

LEMMA ShapeInit == Init => ShapeInv
<1> SUFFICES ASSUME Init PROVE ShapeInv
  OBVIOUS
<1>1. PICK m \in Materials :
        config = <<[kid |-> FirstKid, enabled |-> TRUE, material |-> m]>>
  BY DEF Init
<1>2. config \in Seq(Entries) /\ config # <<>> /\ config[1].enabled
  BY <1>1, TransportAssumption DEF Entries
<1>3. ConfigOK
  BY <1>2 DEF Init, ConfigOK
<1>4. keyring \in [primary : Kids, keys : SUBSET Kids]
  BY <1>2, PrimaryIsFirst DEF Init, KeyringOf
<1>5. TypeOK
  <2>1. encrypt \in BOOLEAN /\ x25519 \in BOOLEAN /\ gzips \in BOOLEAN
    BY DEF Init
  <2>2. script \in [kid : Kids \union {NoKid}, age : 0 .. MaxAge]
    BY TransportAssumption DEF Init, NoScript
  <2>3. page \in [open : BOOLEAN, age : 0 .. PageLife, sealer : Kids \union {NoKid}]
    BY TransportAssumption DEF Init, NoPage
  <2>4. req \in [stage : Stages, wire : Sealed \union {NoWire, Clear}, status : Statuses]
    BY DEF Init, NoRequest, Stages, Statuses
  <2>5. queue \in Seq(Batches) /\ since \in 0 .. Overlap
    BY TransportAssumption DEF Init
  <2>6. up \in BOOLEAN /\ broken \in Breakages /\ stored \subseteq Batches /\ inClear \subseteq Batches
    BY DEF Init, Breakages
  <2> QED
    BY <2>1, <2>2, <2>3, <2>4, <2>5, <2>6, <1>2, <1>4 DEF TypeOK, Entries
<1>6. RequestOK
  BY DEF Init, RequestOK, NoRequest
<1> QED
  BY <1>3, <1>5, <1>6 DEF ShapeInv

\* While the configuration and the keyring stay, ConfigOK does.
LEMMA ConfigStays ==
  ASSUME ConfigOK, UNCHANGED <<config, keyring>>
  PROVE  ConfigOK'
BY DEF ConfigOK

\* While no request is under way, RequestOK says nothing.
LEMMA NoRequestOK == req' = NoRequest => RequestOK'
BY DEF RequestOK, NoRequest

\* The status of a refusal.
LEMMA RefusalStatus ==
  ASSUME NEW wire PROVE Refusal(wire) \in {0, 400, 413, 422}
BY DEF Refusal

\* What an envelope altered on its way is answered.
LEMMA AlteredRefused ==
  ASSUME NEW wire, NEW kid \in Kids, NEW batch \in Batches, NEW packed \in BOOLEAN,
         wire \in Altered(Seal(kid, batch, packed))
  PROVE  Refusal(wire) \in {400, 413}
<1>1. wire # Clear
  BY TransportAssumption DEF Wires, Sealed
<1>2. ~Opens(keyring.keys, wire)
  BY AlteredNeverOpens
<1> QED
  BY <1>1, <1>2 DEF Refusal

LEMMA ShapeNext == ShapeInv /\ [Next]_vars => ShapeInv'
<1> SUFFICES ASSUME ShapeInv, [Next]_vars PROVE ShapeInv'
  OBVIOUS
<1> USE DEF mode, browser, collector, fate
<1>0. TypeOK /\ ConfigOK /\ RequestOK
  BY DEF ShapeInv
<1>b. req.stage # "none" => Batch \in Batches
  BY <1>0 DEF TypeOK, RequestOK, Batch
<1>c. UNCHANGED <<config, keyring>> => ConfigOK'
  BY <1>0, ConfigStays
<1>1. CASE OpenPage
  <2>1. req.stage = "none"
    BY <1>0, <1>1 DEF OpenPage, RequestOK
  <2>2. page' \in [open : BOOLEAN, age : 0 .. PageLife, sealer : Kids \union {NoKid}]
    <3>1. page' = [open |-> TRUE, age |-> 0, sealer |-> NoKid]
      BY <1>1 DEF OpenPage, NoPage
    <3> QED
      BY <3>1, TransportAssumption
  <2>4. TypeOK'
    <3>1. UNCHANGED <<encrypt, x25519, gzips, queue, script, req, up, config, keyring, since, stored, inClear, broken>>
      BY <1>1 DEF OpenPage
    <3> QED
      BY <2>2, <3>1, <1>0 DEF TypeOK
  <2>3. RequestOK'
    BY <2>1, <1>0, <1>1 DEF OpenPage, RequestOK
  <2> QED
    BY <2>3, <2>4, <1>1, <1>c DEF OpenPage, ShapeInv
<1>2. CASE LoadSealer
  <2>1. script' \in [kid : Kids, age : 0 .. MaxAge]
    BY <1>0, <1>2, TransportAssumption DEF LoadSealer, CachedFresh, TypeOK
  <2>2. TypeOK'
    BY <2>1, <1>0, <1>2 DEF LoadSealer, TypeOK
  <2>3. req.stage = "none"
    BY <1>0, <1>2 DEF LoadSealer, RequestOK
  <2>4. RequestOK'
    BY <2>3, <1>2 DEF LoadSealer, RequestOK
  <2> QED
    BY <2>2, <2>4, <1>2, <1>c DEF LoadSealer, ShapeInv
<1>3. CASE Flush
  <2>1. Batch \in Batches
    BY <1>0, <1>3 DEF Flush, TypeOK, Batch
  <2>2. CASE Sealing
    <3>1. req' = [req EXCEPT !.stage = "seal"] /\ inClear' = inClear
      BY <1>3, <2>2 DEF Flush
    <3>2. TypeOK'
      BY <3>1, <1>0, <1>3 DEF Flush, TypeOK, Stages, Breakages
    <3>3. RequestOK'
      BY <3>1, <1>0, <1>3, <2>2 DEF Flush, RequestOK, TypeOK, Sealing
    <3> QED
      BY <3>2, <3>3, <1>3, <1>c DEF Flush, ShapeInv
  <2>3. CASE ~Sealing
    <3>1. req' = [req EXCEPT !.stage = "net", !.wire = Clear] /\ inClear' = inClear \union {Batch}
      BY <1>3, <2>3 DEF Flush
    <3>2. TypeOK'
      BY <3>1, <2>1, <1>0, <1>3 DEF Flush, TypeOK, Stages, Breakages
    <3>3. RequestOK'
      BY <3>1, <1>0, <1>3, <2>3 DEF Flush, RequestOK, TypeOK, Sealing
    <3> QED
      BY <3>2, <3>3, <1>3, <1>c DEF Flush, ShapeInv
  <2> QED
    BY <2>2, <2>3
<1>4. CASE SealBatch
  <2>1. page.sealer \in Kids /\ Batch \in Batches /\ Sealing
    BY <1>0, <1>b, <1>4 DEF SealBatch, RequestOK, TypeOK, Sealing
  <2>2. Seal(page.sealer, Batch, gzips) \in Sealed
    BY <2>1, <1>0 DEF Sealed, TypeOK
  <2>3. TypeOK'
    BY <2>2, <1>0, <1>4 DEF SealBatch, TypeOK, Stages
  <2>4. RequestOK'
    BY <2>1, <1>0, <1>4 DEF SealBatch, RequestOK, TypeOK, Sealing, Batch
  <2> QED
    BY <2>3, <2>4, <1>4, <1>c DEF SealBatch, ShapeInv
<1>r. ASSUME NEW what \in Breakages, Rejected(what), req.stage # "none",
             UNCHANGED <<mode, browser>>
      PROVE  /\ req' \in [stage : Stages, wire : Sealed \union {NoWire, Clear}, status : Statuses]
             /\ broken' \in Breakages
             /\ RequestOK'
  <2>1. CASE Sealing
    <3>1. req' = [stage |-> "answer", wire |-> NoWire, status |-> 400] /\ broken' = what
      BY <1>r, <2>1 DEF Rejected
    <3>2. RequestOK'
      BY <3>1, <1>r, <1>0 DEF RequestOK
    <3> QED
      BY <3>1, <3>2 DEF Stages, Statuses
  <2>2. CASE ~Sealing
    <3>1. req' = NoRequest /\ broken' = broken
      BY <1>r, <2>2 DEF Rejected
    <3> QED
      BY <3>1, <1>0, NoRequestOK DEF TypeOK, NoRequest, Stages, Statuses
  <2> QED
    BY <2>1, <2>2
<1>m. ASSUME MayLand, queue # <<>> PROVE stored' \subseteq Batches
  <2>1. Batch \in Batches
    BY <1>m, <1>0 DEF TypeOK, Batch
  <2> QED
    BY <2>1, <1>m, <1>0 DEF MayLand, TypeOK
<1>5. CASE SealFails
  <2>1. Rejected("sealing") /\ "sealing" \in Breakages
    BY <1>5 DEF SealFails, Breakages
  <2>2. TypeOK'
    BY <2>1, <1>r, <1>0, <1>5 DEF SealFails, TypeOK
  <2> QED
    BY <2>1, <2>2, <1>r, <1>5, <1>c DEF SealFails, ShapeInv
<1>6. CASE Receive
  <2>1. queue' \in Seq(Batches)
    <3>1. queue \in Seq(Batches) /\ queue # <<>>
      BY <1>0, <1>6 DEF Receive, TypeOK, RequestOK
    <3>2. Tail(queue) \in Seq(Batches)
      BY <3>1
    <3> QED
      BY <3>1, <3>2, <1>6 DEF Receive
  <2>2. TypeOK'
    BY <2>1, <1>0, <1>6 DEF Receive, TypeOK, NoRequest, Stages, Statuses
  <2> QED
    BY <2>2, <1>6, <1>c, NoRequestOK DEF Receive, ShapeInv
<1>7. CASE Deliver
  <2>1. req.wire \in Sealed \union {Clear}
    BY <1>0, <1>b, <1>7 DEF Deliver, Arrive, RequestOK, TypeOK, Sealed, Sealing
  <2>2. CASE Refusal(req.wire) = 0
    <3>1. req' = [req EXCEPT !.stage = "insert", !.wire = req.wire]
      BY <1>7, <2>2 DEF Deliver, Arrive
    <3>2. TypeOK'
      BY <3>1, <1>0, <1>7 DEF Deliver, TypeOK, Stages
    <3>3. RequestOK'
      BY <3>1, <1>0, <1>7 DEF Deliver, Arrive, RequestOK, TypeOK, Sealing, Batch
    <3> QED
      BY <3>2, <3>3, <1>7, <1>c DEF Deliver, ShapeInv
  <2>3. CASE Refusal(req.wire) # 0
    <3>1. req' = [stage |-> "answer", wire |-> NoWire, status |-> Refusal(req.wire)]
      BY <1>7, <2>3 DEF Deliver, Arrive
    <3>2. TypeOK'
      BY <3>1, <1>0, <1>7, RefusalStatus DEF Deliver, TypeOK, Stages, Statuses
    <3>3. RequestOK'
      BY <3>1, <1>0, <1>7 DEF Deliver, Arrive, RequestOK
    <3> QED
      BY <3>2, <3>3, <1>7, <1>c DEF Deliver, ShapeInv
  <2> QED
    BY <2>2, <2>3
<1>8. CASE DeliverAltered
  <2>1. PICK wire \in Altered(req.wire) : Arrive(wire)
    BY <1>8 DEF DeliverAltered
  <2>2. /\ page.sealer \in Kids /\ Batch \in Batches /\ gzips \in BOOLEAN
        /\ req.wire = Seal(page.sealer, Batch, gzips)
    BY <1>0, <1>b, <1>8 DEF DeliverAltered, RequestOK, TypeOK, Sealing
  <2>3. Refusal(wire) \in {400, 413}
    BY <2>1, <2>2, AlteredRefused
  <2>4. req' = [stage |-> "answer", wire |-> NoWire, status |-> Refusal(wire)]
    BY <2>1, <2>3 DEF Arrive
  <2>5. TypeOK'
    BY <2>3, <2>4, <1>0, <1>8 DEF DeliverAltered, TypeOK, Stages, Statuses, Breakages
  <2>6. RequestOK'
    BY <2>4, <1>0, <1>8 DEF DeliverAltered, RequestOK
  <2> QED
    BY <2>5, <2>6, <1>8, <1>c DEF DeliverAltered, ShapeInv
<1>9. CASE Insert
  <2>1. TypeOK'
    BY <1>0, <1>b, <1>9 DEF Insert, TypeOK, Stages, Statuses
  <2>2. RequestOK'
    BY <1>0, <1>9 DEF Insert, RequestOK
  <2> QED
    BY <2>1, <2>2, <1>9, <1>c DEF Insert, ShapeInv
<1>10. CASE InsertFails
  <2>1. TypeOK'
    BY <1>0, <1>b, <1>10 DEF InsertFails, TypeOK, Stages, Statuses
  <2>2. RequestOK'
    BY <1>0, <1>10 DEF InsertFails, RequestOK
  <2> QED
    BY <2>1, <2>2, <1>10, <1>c DEF InsertFails, ShapeInv
<1>11. CASE Lose
  <2>1. Rejected("fetch") /\ "fetch" \in Breakages
    BY <1>11 DEF Lose, Breakages
  <2>2. TypeOK'
    BY <2>1, <1>r, <1>m, <1>0, <1>11 DEF Lose, TypeOK, RequestOK
  <2> QED
    BY <2>1, <2>2, <1>r, <1>11, <1>c DEF Lose, ShapeInv
<1>12. CASE ClosePage
  <2>1. stored' \subseteq Batches
    BY <1>m, <1>0, <1>12 DEF ClosePage, MayLand, RequestOK, TypeOK
  <2>2. TypeOK'
    BY <2>1, <1>0, <1>12, TransportAssumption
       DEF ClosePage, TypeOK, NoPage, NoRequest, Stages, Statuses
  <2> QED
    BY <2>2, <1>12, <1>c, NoRequestOK DEF ClosePage, ShapeInv
<1>13. CASE Stop
  <2>1. CASE req.stage \in {"net", "insert"}
    <3>1. MayLand /\ Rejected("fetch") /\ "fetch" \in Breakages
      BY <1>13, <2>1 DEF Stop, Breakages
    <3>2. TypeOK'
      BY <3>1, <2>1, <1>r, <1>m, <1>0, <1>13 DEF Stop, TypeOK, RequestOK
    <3> QED
      BY <3>1, <3>2, <2>1, <1>r, <1>13, <1>c DEF Stop, ShapeInv
  <2>2. CASE req.stage \notin {"net", "insert"}
    <3>1. UNCHANGED <<stored, req, broken>>
      BY <1>13, <2>2 DEF Stop
    <3>2. TypeOK' /\ RequestOK'
      BY <3>1, <2>2, <1>0, <1>13 DEF Stop, TypeOK, RequestOK, Sealing
    <3> QED
      BY <3>2, <1>13, <1>c DEF Stop, ShapeInv
  <2> QED
    BY <2>1, <2>2
<1>k. config \in Seq(Entries)
  BY <1>0 DEF TypeOK, Entries
<1>q. ASSUME UNCHANGED <<mode, browser, req>> PROVE RequestOK'
  BY <1>q, <1>0 DEF RequestOK, Sealing, Batch
<1>14. CASE Start
  <2>1. keyring' \in [primary : Kids, keys : SUBSET Kids]
    BY <1>0, <1>k, <1>14, PrimaryIsFirst DEF Start, KeyringOf, ConfigOK
  <2>2. since' \in 0 .. Overlap
    BY <1>0, <1>14, TransportAssumption DEF Start, TypeOK
  <2>3. TypeOK'
    BY <2>1, <2>2, <1>0, <1>14 DEF Start, TypeOK
  <2>4. ConfigOK'
    BY <1>0, <1>14 DEF Start, ConfigOK
  <2> QED
    BY <2>3, <2>4, <1>q, <1>14 DEF Start, ShapeInv
<1>15. CASE AddKey
  <2>1. PICK kid \in Kids, m \in Materials :
          config' = <<[kid |-> kid, enabled |-> TRUE, material |-> m]>> \o config
    BY <1>15 DEF AddKey
  <2> DEFINE e == [kid |-> kid, enabled |-> TRUE, material |-> m]
  <2>2. e \in Entries /\ e.enabled
    BY DEF Entries
  <2>3. config' = <<e>> \o config
    BY <2>1
  <2> HIDE DEF e
  <2>4. /\ config' \in Seq(Entries) /\ config' # <<>> /\ config'[1].enabled
        /\ Tail(config') = config
    BY <2>2, <2>3, <1>k, AddedConfig
  <2>5. TypeOK'
    BY <2>4, <1>0, <1>15 DEF AddKey, TypeOK, Entries
  <2>6. Builds(config) /\ keyring' = KeyringOf(config)
    BY <1>15 DEF AddKey, Settled
  <2>7. ConfigOK'
    <3>1. keyring' = KeyringOf(Tail(config'))
      BY <2>4, <2>6
    <3>2. Builds(Tail(config')) /\ Tail(config') # <<>> /\ Tail(config')[1].enabled
      BY <2>4, <2>6, <1>0 DEF ConfigOK
    <3> QED
      BY <3>1, <3>2, <2>4 DEF ConfigOK
  <2> QED
    BY <2>5, <2>7, <1>q, <1>15 DEF AddKey, ShapeInv
<1>16. CASE RetireKeys
  <2>1. Builds(config)
    BY <1>16 DEF RetireKeys, Settled
  <2>2. config' \in Seq(Entries) /\ config' # <<>> /\ config'[1].enabled /\ Builds(config')
    BY <2>1, <1>0, <1>k, <1>16, RetiredConfig DEF RetireKeys, ConfigOK
  <2>3. TypeOK'
    BY <2>2, <1>0, <1>16 DEF RetireKeys, TypeOK, Entries
  <2>4. ConfigOK'
    BY <2>2 DEF ConfigOK
  <2> QED
    BY <2>3, <2>4, <1>q, <1>16 DEF RetireKeys, ShapeInv
<1>17. CASE MendKeys
  <2>1. config' = Tail(config) /\ keyring' = keyring
    BY <1>17 DEF MendKeys
  <2>2. config' \in Seq(Entries)
    BY <2>1, <1>0, <1>k DEF ConfigOK
  <2>3. TypeOK'
    BY <2>2, <1>0, <1>17 DEF MendKeys, TypeOK, Entries
  <2>4. ConfigOK'
    BY <2>1, <1>0, <1>17 DEF MendKeys, ConfigOK
  <2> QED
    BY <2>3, <2>4, <1>q, <1>17 DEF MendKeys, ShapeInv
<1>18. CASE Tick
  <2>1. page' \in [open : BOOLEAN, age : 0 .. PageLife, sealer : Kids \union {NoKid}]
    <3>1. CASE page.open
      <4>1. page' = [page EXCEPT !.age = page.age + 1] /\ page.age < PageLife
        BY <1>18, <3>1 DEF Tick
      <4>2. page.age + 1 \in 0 .. PageLife
        BY <4>1, <1>0, TransportAssumption DEF TypeOK
      <4> QED
        BY <4>1, <4>2, <1>0 DEF TypeOK
    <3>2. CASE ~page.open
      <4>1. page' = [page EXCEPT !.age = 0]
        BY <1>18, <3>2 DEF Tick
      <4>2. 0 \in 0 .. PageLife
        BY TransportAssumption
      <4> QED
        BY <4>1, <4>2, <1>0 DEF TypeOK
    <3> QED
      BY <3>1, <3>2
  <2>2. script' \in [kid : Kids \union {NoKid}, age : 0 .. MaxAge]
    <3>1. script \in [kid : Kids \union {NoKid}, age : 0 .. MaxAge] /\ MaxAge \in Nat
      BY <1>0, TransportAssumption DEF TypeOK
    <3>2. CASE CachedFresh
      <4>1. script' = [script EXCEPT !.age = script.age + 1] /\ script.age < MaxAge
        BY <1>18, <3>2 DEF Tick, CachedFresh
      <4>2. script.age + 1 \in 0 .. MaxAge
        BY <4>1, <3>1
      <4> QED
        BY <4>1, <4>2, <3>1
    <3>3. CASE ~CachedFresh
      BY <1>18, <3>1, <3>3 DEF Tick, NoScript
    <3> QED
      BY <3>2, <3>3
  <2>3. since' \in 0 .. Overlap
    BY <1>0, <1>18, TransportAssumption DEF Tick, TypeOK
  <2>4. TypeOK'
    <3>1. UNCHANGED <<encrypt, x25519, gzips, queue, req, up, config, keyring, stored, inClear, broken>>
      BY <1>18 DEF Tick
    <3> QED
      BY <2>1, <2>2, <2>3, <3>1, <1>0 DEF TypeOK
  <2>5. RequestOK'
    BY <1>18 DEF Tick, RequestOK
  <2> QED
    BY <2>4, <2>5, <1>18, <1>c DEF Tick, ShapeInv
<1>19. CASE UNCHANGED vars
  <2>1. TypeOK' /\ RequestOK'
    BY <1>0, <1>19 DEF vars, TypeOK, RequestOK, Sealing, Batch
  <2> QED
    BY <2>1, <1>19, <1>c DEF vars, ShapeInv
<1>20. CASE ProcessingFails
  <2>1. TypeOK'
    BY <1>0, <1>20 DEF ProcessingFails, TypeOK, Stages, Statuses
  <2>2. RequestOK'
    BY <1>0, <1>20 DEF ProcessingFails, RequestOK
  <2> QED
    BY <2>1, <2>2, <1>20, <1>c DEF ProcessingFails, ShapeInv
<1> QED
  BY <1>1, <1>2, <1>3, <1>4, <1>5, <1>6, <1>7, <1>8, <1>9, <1>10, <1>11, <1>12, <1>13,
     <1>14, <1>15, <1>16, <1>17, <1>18, <1>19, <1>20 DEF Next

\* The types, and the shape of requests and configurations, hold always.
THEOREM TypeCorrect == Spec => []TypeOK
<1>1. Init => ShapeInv
  BY ShapeInit
<1>2. ShapeInv /\ [Next]_vars => ShapeInv'
  BY ShapeNext
<1>3. ShapeInv => TypeOK
  BY DEF ShapeInv
<1> QED
  BY <1>1, <1>2, <1>3, PTL DEF Spec

-----------------------------------------------------------------------------
(***************************************************************************)
(* Rotation.                                                               *)
(***************************************************************************)

\* A configuration that starts keeps the keys that are served, or retires the
\* old ones of them when the new one has been served for Overlap.  An old key
\* in the cache or in a page was got before the primary changed.
KeysInv ==
  /\ keyring.primary \in keyring.keys
  /\ Builds(config) =>
       \/ keyring.keys \subseteq KidsOf(config)
       \/ since >= Overlap /\ PrimaryOf(config) = keyring.primary
  /\ ~page.open => page.sealer = NoKid
  /\ page.sealer # NoKid =>
       /\ page.sealer \in keyring.keys
       /\ page.sealer # keyring.primary => since < MaxAge + page.age
  /\ CachedFresh =>
       /\ script.kid \in keyring.keys
       /\ script.kid # keyring.primary => since <= script.age

LEMMA KeysInit == Init => KeysInv
<1> SUFFICES ASSUME Init PROVE KeysInv
  OBVIOUS
<1>1. PICK m \in Materials :
        config = <<[kid |-> FirstKid, enabled |-> TRUE, material |-> m]>>
  BY DEF Init
<1>2. config \in Seq(Entries) /\ config # <<>> /\ config[1].enabled
  BY <1>1, TransportAssumption DEF Entries
<1>3. PrimaryOf(config) \in KidsOf(config)
  BY <1>2, PrimaryIsFirst
<1> QED
  BY <1>3 DEF Init, KeysInv, KeyringOf, NoPage, NoScript, CachedFresh

\* What the steps of the browser and the collector read and leave.
LEMMA KeysStay ==
  ASSUME KeysInv, UNCHANGED <<script, page, config, keyring, since>>
  PROVE  KeysInv'
BY DEF KeysInv, CachedFresh

LEMMA KeysNext == ShapeInv /\ KeysInv /\ [Next]_vars => KeysInv'
<1> SUFFICES ASSUME ShapeInv, KeysInv, [Next]_vars PROVE KeysInv'
  OBVIOUS
<1> USE DEF mode, browser, collector, fate
<1>0. TypeOK /\ ConfigOK
  BY DEF ShapeInv
<1>k. config \in Seq(Entries) /\ config # <<>> /\ config[1].enabled
  BY <1>0 DEF TypeOK, Entries, ConfigOK
<1>n. /\ page.age \in 0 .. PageLife /\ since \in 0 .. Overlap /\ script.age \in 0 .. MaxAge
      /\ MaxAge \in Nat \ {0} /\ PageLife \in Nat /\ Overlap \in Nat
      /\ MaxAge + PageLife <= Overlap
  BY <1>0, TransportAssumption DEF TypeOK
<1>1. CASE OpenPage
  <2>1. page'.open /\ page'.sealer = NoKid
    BY <1>1 DEF OpenPage, NoPage
  <2> QED
    BY <2>1, <1>1 DEF OpenPage, KeysInv, CachedFresh
<1>2. CASE LoadSealer
  <2>1. page' = [page EXCEPT !.sealer = script'.kid] /\ page.open
    BY <1>2 DEF LoadSealer
  <2>2. /\ page'.sealer = script'.kid /\ page'.age = page.age /\ page'.open
    BY <2>1, <1>0 DEF TypeOK
  <2>3. UNCHANGED <<config, keyring, since>>
    BY <1>2 DEF LoadSealer
  <2>4. CASE CachedFresh /\ UNCHANGED script
    <3>1. script'.kid \in keyring.keys
      BY <2>4 DEF KeysInv
    <3>2. script'.kid # keyring.primary => since < MaxAge + page.age
      BY <2>4, <1>n DEF KeysInv, CachedFresh
    <3> QED
      BY <3>1, <3>2, <2>2, <2>3, <2>4 DEF KeysInv, CachedFresh
  <2>5. CASE script' = [kid |-> keyring.primary, age |-> 0]
    <3>1. script'.kid = keyring.primary
      BY <2>5
    <3> QED
      BY <3>1, <2>2, <2>3 DEF KeysInv, CachedFresh
  <2> QED
    BY <2>4, <2>5, <1>2 DEF LoadSealer
<1>3. CASE ClosePage
  <2>1. page'.sealer = NoKid
    BY <1>3 DEF ClosePage, NoPage
  <2> QED
    BY <2>1, <1>3 DEF ClosePage, KeysInv, CachedFresh
<1>4. CASE Start
  <2>1. /\ Builds(config) /\ keyring'.primary = PrimaryOf(config)
        /\ keyring'.keys = KidsOf(config)
        /\ since' = IF PrimaryOf(config) = keyring.primary THEN since ELSE 0
        /\ UNCHANGED <<page, script, config>>
    BY <1>4 DEF Start, KeyringOf
  <2>2. keyring'.primary \in keyring'.keys
    BY <2>1, <1>k, PrimaryIsFirst
  <2>3. CASE keyring.keys \subseteq KidsOf(config)
    <3>1. CASE PrimaryOf(config) = keyring.primary
      BY <2>1, <2>2, <2>3, <3>1 DEF KeysInv, CachedFresh
    <3>2. CASE PrimaryOf(config) # keyring.primary
      <4>1. since' = 0 /\ 0 < MaxAge + page.age /\ 0 <= script.age
        BY <2>1, <3>2, <1>n
      <4> QED
        BY <4>1, <2>1, <2>2, <2>3 DEF KeysInv, CachedFresh
    <3> QED
      BY <3>1, <3>2
  <2>4. CASE since >= Overlap /\ PrimaryOf(config) = keyring.primary
    <3>1. page.sealer # NoKid => page.sealer = keyring.primary
      BY <2>4, <1>n DEF KeysInv
    <3>2. CachedFresh => script.kid = keyring.primary
      BY <2>4, <1>n DEF KeysInv, CachedFresh
    <3> QED
      BY <3>1, <3>2, <2>1, <2>2, <2>4 DEF KeysInv, CachedFresh
  <2> QED
    BY <2>1, <2>3, <2>4 DEF KeysInv
<1>5. ASSUME UNCHANGED <<script, page, keyring, since>>,
             Builds(config') =>
               \/ keyring.keys \subseteq KidsOf(config')
               \/ since >= Overlap /\ PrimaryOf(config') = keyring.primary
      PROVE  KeysInv'
  BY <1>5 DEF KeysInv, CachedFresh
<1>6. CASE AddKey
  <2>1. PICK kid \in Kids, m \in Materials :
          config' = <<[kid |-> kid, enabled |-> TRUE, material |-> m]>> \o config
    BY <1>6 DEF AddKey
  <2> DEFINE e == [kid |-> kid, enabled |-> TRUE, material |-> m]
  <2>2. e \in Entries /\ e.enabled /\ config' = <<e>> \o config
    BY <2>1 DEF Entries
  <2> HIDE DEF e
  <2>3. KidsOf(config) \subseteq KidsOf(config')
    BY <2>2, <1>k, AddedConfig
  <2>4. keyring.keys = KidsOf(config)
    BY <1>6 DEF AddKey, Settled, KeyringOf
  <2> QED
    BY <2>3, <2>4, <1>5, <1>6 DEF AddKey
<1>7. CASE RetireKeys
  <2>1. Builds(config) /\ keyring.primary = PrimaryOf(config) /\ since >= Overlap
    BY <1>7 DEF RetireKeys, Settled, KeyringOf
  <2>2. /\ config' \in Seq(Entries) /\ config' # <<>> /\ config'[1].enabled
        /\ config'[1].kid = config[1].kid
    BY <2>1, <1>k, <1>7, RetiredConfig DEF RetireKeys
  <2>3. PrimaryOf(config') = PrimaryOf(config)
    BY <2>2, <1>k, PrimaryIsFirst
  <2> QED
    BY <2>1, <2>3, <1>5, <1>7 DEF RetireKeys
<1>8. CASE MendKeys
  <2>1. keyring.keys = KidsOf(config')
    BY <1>0, <1>8 DEF MendKeys, ConfigOK, KeyringOf
  <2> QED
    BY <2>1, <1>5, <1>8 DEF MendKeys
<1>9. CASE Tick
  <2>1. /\ UNCHANGED <<config, keyring>>
        /\ since' \in {since, since + 1}
        /\ since >= Overlap => since' = since
        /\ page'.open = page.open /\ page'.sealer = page.sealer
        /\ page.open => page'.age = page.age + 1
    BY <1>0, <1>9, <1>n DEF Tick, TypeOK
  <2>2. CachedFresh' => CachedFresh /\ script'.kid = script.kid /\ script'.age = script.age + 1
    BY <1>0, <1>9 DEF Tick, TypeOK, CachedFresh, NoScript
  <2>3. page'.sealer # NoKid /\ page'.sealer # keyring.primary => since' < MaxAge + page'.age
    BY <2>1, <1>n DEF KeysInv
  <2>4. CachedFresh' /\ script'.kid # keyring.primary => since' <= script'.age
    BY <2>1, <2>2, <1>n DEF KeysInv
  <2> QED
    BY <2>1, <2>2, <2>3, <2>4 DEF KeysInv
<1>10. CASE Flush \/ SealBatch \/ SealFails \/ Receive \/ Deliver \/ DeliverAltered
            \/ Insert \/ ProcessingFails \/ InsertFails \/ Lose \/ Stop
            \/ UNCHANGED vars
  <2>1. UNCHANGED <<script, page, config, keyring, since>>
    BY <1>10 DEF Flush, SealBatch, SealFails, Receive, Deliver, DeliverAltered,
                 Insert, ProcessingFails, InsertFails, Lose, Stop, vars
  <2> QED
    BY <2>1, KeysStay
<1> QED
  BY <1>1, <1>2, <1>3, <1>4, <1>6, <1>7, <1>8, <1>9, <1>10 DEF Next

\* Through every rotation, every key an open page holds or may still load
\* opens, and after the overlap every page seals to the new key.
THEOREM Rotation == Spec => []RotationIsSeamless
<1>1. Init => ShapeInv /\ KeysInv
  BY ShapeInit, KeysInit
<1>2. ShapeInv /\ KeysInv /\ [Next]_vars => (ShapeInv /\ KeysInv)'
  BY ShapeNext, KeysNext
<1>3. ShapeInv /\ KeysInv => RotationIsSeamless
  <2> SUFFICES ASSUME ShapeInv, KeysInv PROVE RotationIsSeamless
    OBVIOUS
  <2>1. page.age \in 0 .. PageLife /\ since \in Nat /\ MaxAge \in Nat /\ PageLife \in Nat
    BY TransportAssumption DEF ShapeInv, TypeOK
  <2> QED
    BY <2>1 DEF KeysInv, RotationIsSeamless
<1> QED
  BY <1>1, <1>2, <1>3, PTL DEF Spec

-----------------------------------------------------------------------------
(***************************************************************************)
(* The fate of a batch.                                                    *)
(***************************************************************************)

\* What the answer to a request says of its batch.
AnswerOK ==
  /\ req.stage = "insert" => up /\ Refusal(req.wire) = 0
  /\ req.stage = "answer" /\ req.status = 204 => Batch \in stored
  /\ req.stage = "answer" /\ req.status \in NoRetry =>
       ~Acceptable(Batch) \/ (Sealing /\ broken # "nothing")

FateInv == AnswerOK /\ NeverInTheClear

LEMMA FateInit == Init => FateInv
BY DEF Init, FateInv, AnswerOK, NeverInTheClear, NoRequest

\* A batch the ceilings and the schema admit is refused neither in the clear
\* nor sealed to a key of the keyring.
LEMMA AcceptableAccepted ==
  ASSUME ShapeInv, KeysInv, req.stage = "net", Acceptable(Batch)
  PROVE  Refusal(req.wire) = 0
<1>1. Batch \in Batches /\ gzips \in BOOLEAN
  BY DEF ShapeInv, TypeOK, RequestOK, Batch
<1>2. /\ Size[Batch] \in Nat /\ Packed[Batch] \in Nat
      /\ MaxBody \in Nat /\ MaxEnvelope \in Nat /\ MaxPlaintext \in Nat
  BY <1>1, EnvelopeAssumption, TransportAssumption
<1>3. CASE Sealing
  <2>1. req.wire = Seal(page.sealer, Batch, gzips)
    BY <1>3 DEF ShapeInv, RequestOK
  <2>2. page.sealer \in Kids /\ page.sealer \in keyring.keys
    BY <1>3 DEF ShapeInv, RequestOK, TypeOK, KeysInv, Sealing
  <2>3. req.wire # Clear
    BY <1>1, <2>1, <2>2, TransportAssumption DEF Wires, Sealed
  <2>4. req.wire.ct.packed = gzips
    BY <2>1 DEF Seal
  <2>5. BodySize(req.wire) <= MaxBody /\ BodySize(req.wire) <= MaxEnvelope
    BY <1>1, <1>2, <1>3, <2>3, <2>4 DEF BodySize, Acceptable
  <2>6. Opens(keyring.keys, req.wire)
    BY <1>1, <1>3, <2>1, <2>2, OpensSealed DEF Acceptable
  <2> QED
    BY <1>2, <2>3, <2>5, <2>6, <1>1 DEF Refusal, Acceptable, BodySize
<1>4. CASE ~Sealing
  <2>1. req.wire = Clear
    BY <1>4 DEF ShapeInv, RequestOK
  <2> QED
    BY <1>2, <1>4, <2>1 DEF Refusal, BodySize, Acceptable
<1> QED
  BY <1>3, <1>4

LEMMA FateNext == ShapeInv /\ KeysInv /\ FateInv /\ [Next]_vars => FateInv'
<1> SUFFICES ASSUME ShapeInv, KeysInv, FateInv, [Next]_vars PROVE FateInv'
  OBVIOUS
<1> USE DEF mode, browser, collector, fate
<1>0. TypeOK /\ RequestOK /\ AnswerOK /\ NeverInTheClear
  BY DEF ShapeInv, FateInv
<1>a. UNCHANGED <<inClear, mode>> => NeverInTheClear'
  BY <1>0 DEF NeverInTheClear, Sealing
<1>n. ASSUME req'.stage \in {"none", "seal", "net"} PROVE AnswerOK'
  BY <1>n DEF AnswerOK
<1>s. ASSUME UNCHANGED <<mode, queue, req, keyring, stored, broken>>,
             req.stage = "insert" => up'
      PROVE  AnswerOK'
  BY <1>s, <1>0 DEF AnswerOK, Refusal, BodySize, NoRetry, Acceptable, Sealing, Batch
<1>r. ASSUME NEW what, what # "nothing", Rejected(what), UNCHANGED <<mode, queue>>
      PROVE  AnswerOK'
  <2>1. CASE Sealing
    BY <1>r, <2>1 DEF Rejected, AnswerOK, Sealing
  <2>2. CASE ~Sealing
    BY <1>r, <2>2, <1>n DEF Rejected, NoRequest
  <2> QED
    BY <2>1, <2>2
<1>1. CASE OpenPage \/ LoadSealer
  <2>1. UNCHANGED <<mode, queue, req, up, keyring, stored, inClear, broken>>
    BY <1>1 DEF OpenPage, LoadSealer
  <2>2. AnswerOK'
    BY <2>1, <1>s, <1>0 DEF AnswerOK
  <2> QED
    BY <2>1, <2>2, <1>a DEF FateInv
<1>2. CASE Flush
  <2>1. req'.stage \in {"seal", "net"}
    BY <1>0, <1>2 DEF Flush, TypeOK
  <2>2. NeverInTheClear'
    BY <1>0, <1>2 DEF Flush, NeverInTheClear, Sealing
  <2> QED
    BY <2>1, <2>2, <1>n DEF FateInv
<1>3. CASE SealBatch
  <2>1. req'.stage = "net"
    BY <1>0, <1>3 DEF SealBatch, TypeOK
  <2> QED
    BY <2>1, <1>n, <1>a, <1>3 DEF SealBatch, FateInv
<1>4. CASE SealFails \/ Lose
  <2>1. /\ Rejected("sealing") \/ Rejected("fetch")
        /\ UNCHANGED <<mode, queue, inClear>>
    BY <1>4 DEF SealFails, Lose
  <2> QED
    BY <2>1, <1>r, <1>a DEF FateInv
<1>5. CASE Receive \/ ClosePage
  <2>1. req'.stage = "none" /\ UNCHANGED <<mode, inClear>>
    BY <1>5 DEF Receive, ClosePage, NoRequest
  <2> QED
    BY <2>1, <1>n, <1>a DEF FateInv
<1>6. CASE Deliver
  <2>1. req.stage = "net" /\ up /\ UNCHANGED <<mode, queue, up, keyring, stored, inClear, broken>>
    BY <1>6 DEF Deliver, Arrive
  <2>2. CASE Refusal(req.wire) = 0
    <3>1. req'.stage = "insert" /\ req'.wire = req.wire
      BY <1>0, <1>6, <2>2 DEF Deliver, Arrive, TypeOK
    <3>2. Refusal(req.wire)' = 0
      BY <3>1, <2>1, <2>2 DEF Refusal, BodySize, Batch
    <3> QED
      BY <2>1, <3>1, <3>2, <1>a DEF AnswerOK, FateInv
  <2>3. CASE Refusal(req.wire) # 0
    <3>1. req' = [stage |-> "answer", wire |-> NoWire, status |-> Refusal(req.wire)]
      BY <1>6, <2>3 DEF Deliver, Arrive
    <3>2. ~Acceptable(Batch)
      BY <2>1, <2>3, AcceptableAccepted
    <3>3. ~Acceptable(Batch)'
      BY <3>2, <2>1 DEF Acceptable, Batch, Sealing
    <3>4. Refusal(req.wire) # 204
      BY RefusalStatus
    <3> QED
      BY <2>1, <3>1, <3>3, <3>4, <1>a DEF AnswerOK, FateInv
  <2> QED
    BY <2>2, <2>3
<1>7. CASE DeliverAltered
  <2>1. PICK wire \in Altered(req.wire) : Arrive(wire)
    BY <1>7 DEF DeliverAltered
  <2>2. /\ page.sealer \in Kids /\ Batch \in Batches /\ gzips \in BOOLEAN
        /\ req.wire = Seal(page.sealer, Batch, gzips)
    BY <1>0, <1>7 DEF DeliverAltered, RequestOK, TypeOK, Sealing, Batch
  <2>3. Refusal(wire) \in {400, 413}
    BY <2>1, <2>2, AlteredRefused
  <2>4. req' = [stage |-> "answer", wire |-> NoWire, status |-> Refusal(wire)]
    BY <2>1, <2>3 DEF Arrive
  <2>5. broken' = "envelope" /\ Sealing /\ UNCHANGED <<inClear, mode>>
    BY <1>0, <1>7 DEF DeliverAltered, RequestOK
  <2> QED
    BY <2>3, <2>4, <2>5, <1>a DEF AnswerOK, FateInv, Sealing
<1>8. CASE Insert
  <2>1. /\ req' = [stage |-> "answer", wire |-> NoWire, status |-> 204]
        /\ Batch \in stored' /\ UNCHANGED <<mode, queue, inClear>>
    BY <1>8 DEF Insert
  <2>2. Batch' \in stored' /\ 204 \notin NoRetry'
    BY <2>1 DEF Batch, NoRetry
  <2> QED
    BY <2>1, <2>2, <1>a DEF AnswerOK, FateInv
<1>9. CASE ProcessingFails \/ InsertFails
  <2>1. /\ req' = [stage |-> "answer", wire |-> NoWire, status |-> 500]
        /\ UNCHANGED <<mode, inClear>>
    BY <1>9 DEF ProcessingFails, InsertFails
  <2>2. 500 \notin NoRetry'
    BY DEF NoRetry
  <2> QED
    BY <2>1, <2>2, <1>a DEF AnswerOK, FateInv
<1>10. CASE Stop
  <2>1. UNCHANGED <<mode, queue, keyring, inClear>>
    BY <1>10 DEF Stop
  <2>2. CASE req.stage \in {"net", "insert"}
    BY <2>1, <2>2, <1>10, <1>r, <1>a DEF Stop, FateInv
  <2>3. CASE req.stage \notin {"net", "insert"}
    <3>1. UNCHANGED <<stored, req, broken>>
      BY <1>10, <2>3 DEF Stop
    <3> QED
      BY <2>1, <2>3, <3>1, <1>s, <1>a DEF FateInv
  <2> QED
    BY <2>2, <2>3
<1>11. CASE Start
  <2>1. req.stage # "insert" /\ UNCHANGED <<mode, queue, req, stored, inClear, broken>>
    BY <1>0, <1>11 DEF Start, AnswerOK
  <2>2. AnswerOK'
    BY <2>1, <1>0 DEF AnswerOK, NoRetry, Acceptable, Sealing, Batch
  <2> QED
    BY <2>1, <2>2, <1>a DEF FateInv
<1>12. CASE AddKey \/ RetireKeys \/ MendKeys \/ Tick \/ UNCHANGED vars
  <2>1. UNCHANGED <<mode, queue, req, up, keyring, stored, inClear, broken>>
    BY <1>12 DEF AddKey, RetireKeys, MendKeys, Tick, vars
  <2>2. AnswerOK'
    BY <2>1, <1>s, <1>0 DEF AnswerOK
  <2> QED
    BY <2>1, <2>2, <1>a DEF FateInv
<1> QED
  BY <1>1, <1>2, <1>3, <1>4, <1>5, <1>6, <1>7, <1>8, <1>9, <1>10, <1>11, <1>12 DEF Next

\* The three parts of the invariant, together.
LEMMA TransportInvariant == Spec => [](ShapeInv /\ KeysInv /\ FateInv)
<1>1. Init => ShapeInv /\ KeysInv /\ FateInv
  BY ShapeInit, KeysInit, FateInit
<1>2. ShapeInv /\ KeysInv /\ FateInv /\ [Next]_vars => (ShapeInv /\ KeysInv /\ FateInv)'
  BY ShapeNext, KeysNext, FateNext
<1> QED
  BY <1>1, <1>2, PTL DEF Spec

\* A page that is to encrypt, and can, never sends a batch in the clear.
THEOREM Confidential == Spec => []NeverInTheClear
<1>1. ShapeInv /\ KeysInv /\ FateInv => NeverInTheClear
  BY DEF FateInv
<1> QED
  BY <1>1, TransportInvariant, PTL

\* What is processed as sealed was sealed to a key of the keyring, unchanged.
THEOREM OnlySealedOpens == Spec => []OpensOnlyWhatWasSealed
<1>1. ShapeInv /\ KeysInv /\ FateInv => OpensOnlyWhatWasSealed
  <2> SUFFICES ASSUME ShapeInv, KeysInv, FateInv, req.stage = "insert", req.wire # Clear
               PROVE  /\ \E kid \in keyring.keys, packed \in BOOLEAN :
                           req.wire = Seal(kid, Batch, packed)
                      /\ Size[Batch] <= MaxPlaintext
    BY DEF OpensOnlyWhatWasSealed
  <2>1. /\ Sealing /\ req.wire = Seal(page.sealer, Batch, gzips)
        /\ page.sealer \in Kids /\ page.sealer \in keyring.keys
        /\ gzips \in BOOLEAN /\ Batch \in Batches
    BY DEF ShapeInv, RequestOK, TypeOK, KeysInv, Sealing, Batch
  <2>2. Opens(keyring.keys, req.wire)
    BY DEF FateInv, AnswerOK, Refusal
  <2>3. Size[Batch] <= MaxPlaintext
    BY <2>1, <2>2, OpensSealed
  <2> QED
    BY <2>1, <2>3
<1> QED
  BY <1>1, TransportInvariant, PTL

\* Whatever the collector answers, the tracker gives up only a batch that is
\* stored or that no retry could store, or one whose envelope was altered;
\* in the clear it gives up none for an outage either.
THEOREM NoLossWithoutCause == Spec => DroppedForCause
<1>1. ASSUME ShapeInv, FateInv, Next, queue' # queue, Answered \/ ~Sealing
      PROVE  /\ queue' = Tail(queue)
             /\ \/ Batch \in stored
                \/ ~Acceptable(Batch)
                \/ Sealing /\ broken = "envelope"
  <2>1. Receive
    BY <1>1 DEF Next, OpenPage, LoadSealer, Flush, SealBatch, SealFails, Deliver,
                DeliverAltered, Insert, ProcessingFails, InsertFails, Lose, ClosePage, Stop,
                Start, AddKey, RetireKeys, MendKeys, Tick, browser
  <2>2. /\ queue' = Tail(queue) /\ req.stage = "answer"
        /\ req.status = 204 \/ req.status \in NoRetry
    BY <1>1, <2>1 DEF Receive
  <2>3. Batch \in stored \/ ~Acceptable(Batch) \/ (Sealing /\ broken # "nothing")
    BY <1>1, <2>2 DEF FateInv, AnswerOK
  <2>4. broken \in Breakages
    BY <1>1 DEF ShapeInv, TypeOK
  <2> QED
    BY <1>1, <2>2, <2>3, <2>4 DEF Answered, Breakages
<1>2. ShapeInv /\ KeysInv /\ FateInv /\ [Next]_vars =>
        [queue' # queue /\ (Answered \/ ~Sealing) =>
           /\ queue' = Tail(queue)
           /\ \/ Batch \in stored
              \/ ~Acceptable(Batch)
              \/ Sealing /\ broken = "envelope"]_vars
  BY <1>1
<1> QED
  BY <1>2, TransportInvariant, PTL DEF Spec, DroppedForCause
=============================================================================
