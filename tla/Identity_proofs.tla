---------------------------- MODULE Identity_proofs ----------------------------
(***************************************************************************)
(* IdentityInvariant is inductive.  Hence, however many receivers and dial *)
(* positions there are and whenever power is lost, what is read back from  *)
(* the EEPROM is what was stored last, or was torn.                        *)
(***************************************************************************)
EXTENDS Identity, SequenceTheorems, TLAPS

-----------------------------------------------------------------------------
(***************************************************************************)
(* Places and bytes.                                                       *)
(***************************************************************************)
\* The places of the stores do not overlap.
LEMMA PlacesApart ==
  /\ BYTES \in 1 .. 4 /\ TXID = 10 /\ MARK = 20
  /\ \A d \in Dials : d \in 1 .. 15 /\ FixedId(d) = 30 + d
  /\ \A n \in Receivers : ReceiverId(n) \in Nat /\ ReceiverId(n) >= 50
  /\ \A n, m \in Receivers :
       n # m => ReceiverId(n) + 4 <= ReceiverId(m) \/ ReceiverId(m) + 4 <= ReceiverId(n)
<1>1. \A n \in Receivers : n \in 0 .. 15 /\ ReceiverId(n) = 50 + n * 4
  BY IdentityAssumption DEF ReceiverId
<1> QED BY <1>1, IdentityAssumption DEF FixedId, TXID, MARK

LEMMA InAddresses ==
  /\ MARK \in Addresses
  /\ \A k \in 1 .. BYTES : TXID + k - 1 \in Addresses
  /\ \A n \in Receivers : \A k \in 1 .. BYTES : ReceiverId(n) + k - 1 \in Addresses
  /\ \A d \in Dials : FixedId(d) \in Addresses
<1>1. \A k \in 1 .. BYTES : TXID + k - 1 \in Places(TXID)
  BY PlacesApart DEF Places
<1>2. ASSUME NEW n \in Receivers, NEW k \in 1 .. BYTES
      PROVE  ReceiverId(n) + k - 1 \in Places(ReceiverId(n))
  BY PlacesApart DEF Places
<1> QED BY <1>1, <1>2 DEF Addresses

LEMMA BytesDiffer ==
  /\ Fixed(0) # Fixed(1) /\ Erased # Fixed(1) /\ Erased # Mark
  /\ \A b : b[1] = "id" \/ b[1] = "rx" => b # Fixed(1) /\ b # Mark
BY DEF Fixed, Erased, Mark

LEMMA NumbersAre ==
  ASSUME NEW kind, NEW n
  PROVE  \A k \in 1 .. BYTES : /\ Number(kind, n)[k] = <<kind, n, k>>
                               /\ Number(kind, n)[k][1] = kind
                               /\ Number(kind, n)[k][3] = k
BY DEF Number

\* What shifting the stored byte out of id does.
LEMMA ShiftedOut ==
  ASSUME NEW n \in Nat, n > 0, NEW S, NEW f \in [1 .. n -> S], NEW x \in S
  PROVE  /\ Head(f) = f[1]
         /\ Append(Tail(f), x) = [k \in 1 .. n |-> IF k < n THEN f[k + 1] ELSE x]
<1>1. f \in Seq(S) /\ Len(f) = n /\ f # << >>
  OBVIOUS
<1>2. Tail(f) \in Seq(S) /\ Len(Tail(f)) = n - 1
      /\ \A k \in 1 .. n - 1 : Tail(f)[k] = f[k + 1]
  BY <1>1
<1>3. /\ Append(Tail(f), x) \in Seq(S) /\ Len(Append(Tail(f), x)) = n
      /\ \A k \in 1 .. n : Append(Tail(f), x)[k] = IF k < n THEN f[k + 1] ELSE x
  BY <1>2
<1>4. Append(Tail(f), x) \in [1 .. n -> S]
  BY <1>3, LenProperties
<1>5. Head(f) = f[1] BY <1>1
<1> QED BY <1>3, <1>4, <1>5

LEMMA NextCases ==
  Next => \/ PowerUp \/ PowerLost \/ ReadId \/ CreateId \/ WriteId \/ WriteMark
          \/ BindButton \/ ReadAFHDS2A \/ WriteReceiver
          \/ \E m \in Models :
               \/ StartOther(m) \/ StartHubsan(m) \/ StartDevo(m)
               \/ \E autobind \in BOOLEAN : StartAFHDS2A(m, autobind)
BY DEF Next, protocol_init

LEMMA Written ==
  ASSUME NEW address \in Addresses, NEW byte, DOMAIN eeprom = Addresses,
         Write(address, byte)
  PROVE  /\ DOMAIN eeprom' = Addresses
         /\ \A a \in Addresses : eeprom'[a] = IF a = address THEN byte ELSE eeprom[a]
BY DEF Write

\* Where the bytes are that are written while a number is stored.
LEMMA ReadsAre ==
  /\ \A address : \A k \in 1 .. BYTES : Read(address)[k] = eeprom[address + k - 1]
  /\ \A address : Read(address)' = Read(address)
       <=> \A k \in 1 .. BYTES : eeprom'[address + k - 1] = eeprom[address + k - 1]
BY DEF Read

-----------------------------------------------------------------------------
(***************************************************************************)
(* Types.                                                                  *)
(***************************************************************************)
\* What the EEPROM holds, and the rest.
StoreType ==
  /\ DOMAIN eeprom = Addresses
  /\ Holds(TXID, "id") /\ \A n \in Receivers : Holds(ReceiverId(n), "rx")
PlainType ==
  /\ pc \in {"off", "setup", "create", "renew", "loop", "answer"}
  /\ i \in 0 .. BYTES /\ mode_select \in Dials \cup {0} /\ BIND_BUTTON_FLAG \in {0, 1}
  /\ model \in Models \cup {NoModel} /\ option \in {0, 1} /\ binding \in BOOLEAN
  /\ created \in 0 .. MaxCreated /\ answers \in 0 .. MaxAnswers
  /\ torn \subseteq {TXID} \cup {ReceiverId(n) : n \in Receivers}
LEMMA TypeParts == (TypeOK <=> StoreType /\ PlainType) /\ (TypeOK' <=> StoreType' /\ PlainType')
BY DEF TypeOK, StoreType, PlainType

LEMMA TypeInit == Init => TypeOK
<1> SUFFICES ASSUME Init PROVE TypeOK OBVIOUS
<1>1. \A a \in Addresses : eeprom[a] = Erased BY DEF Init
<1>2. Holds(TXID, "id") /\ \A n \in Receivers : Holds(ReceiverId(n), "rx")
  BY <1>1, InAddresses DEF Holds
<1>3. StoreType BY <1>2 DEF Init, StoreType
<1>4. PlainType
  <2>1. i \in 0 .. BYTES /\ created \in 0 .. MaxCreated /\ answers \in 0 .. MaxAnswers
    BY PlacesApart, IdentityAssumption DEF Init
  <2> QED BY <2>1 DEF Init, PlainType
<1> QED BY <1>3, <1>4, TypeParts

LEMMA HoldsStill ==
  ASSUME NEW address, NEW kind, Holds(address, kind),
         \A k \in 1 .. BYTES : eeprom'[address + k - 1] = eeprom[address + k - 1]
  PROVE  Holds(address, kind)'
BY DEF Holds

LEMMA StoreTypeStill == ASSUME StoreType, UNCHANGED eeprom PROVE StoreType'
BY DEF StoreType, Holds

\* A mark, or a choice, is outside the numbers' places.
LEMMA StoreTypeMarked ==
  ASSUME StoreType, NEW address \in Addresses, NEW byte, Write(address, byte), address \in 20 .. 45
  PROVE  StoreType'
<1>1. Holds(TXID, "id")' BY Written, InAddresses, PlacesApart, HoldsStill DEF StoreType
<1>2. ASSUME NEW n \in Receivers PROVE Holds(ReceiverId(n), "rx")'
  <2>1. ASSUME NEW k \in 1 .. BYTES
        PROVE  eeprom'[ReceiverId(n) + k - 1] = eeprom[ReceiverId(n) + k - 1]
    <3>1. ReceiverId(n) + k - 1 # address BY PlacesApart
    <3> QED BY <3>1, Written, InAddresses DEF StoreType
  <2> QED BY <2>1, HoldsStill DEF StoreType
<1> QED BY <1>1, <1>2, Written DEF StoreType

LEMMA WriteIdStore ==
  ASSUME IdentityInvariant, WriteId
  PROVE  /\ i + 1 \in 1 .. BYTES /\ TXID + i \in Addresses /\ Head(id) = made[i + 1]
         /\ id' = [k \in 1 .. BYTES |-> IF k + (i + 1) <= BYTES THEN made[k + (i + 1)] ELSE ZeroByte]
         /\ StoreType'
<1>1. PlainType /\ StoreType BY TypeParts DEF IdentityInvariant
<1>2. i \in Nat /\ i + 1 \in 1 .. BYTES BY <1>1, PlacesApart DEF WriteId, PlainType
<1>3. TXID + i \in Addresses
  <2>1. TXID + (i + 1) - 1 \in Addresses BY <1>2, InAddresses
  <2> QED BY <1>2, <2>1, PlacesApart
<1>4. PICK new \in 0 .. MaxCreated : made = Number("id", new)
  BY DEF WriteId, WritesInOrder, IdentityInvariant
<1>5. id = [k \in 1 .. BYTES |-> IF k + i <= BYTES THEN made[k + i] ELSE ZeroByte]
  BY DEF WriteId, WritesInOrder, IdentityInvariant
<1> DEFINE Bytes == {made[k] : k \in 1 .. BYTES} \cup {ZeroByte}
<1>6. id \in [1 .. BYTES -> Bytes] /\ ZeroByte \in Bytes
  <2>1. \A k \in 1 .. BYTES : k + i <= BYTES => k + i \in 1 .. BYTES
    BY <1>2, PlacesApart
  <2> QED BY <1>5, <2>1
<1>7. /\ Head(id) = id[1]
      /\ Append(Tail(id), ZeroByte) =
           [k \in 1 .. BYTES |-> IF k < BYTES THEN id[k + 1] ELSE ZeroByte]
  <2> HIDE DEF Bytes
  <2>1. BYTES \in Nat /\ BYTES > 0 BY PlacesApart
  <2> QED BY <1>6, <2>1, ShiftedOut
<1>8. Head(id) = made[i + 1]
  BY <1>2, <1>5, <1>7, PlacesApart
<1>9. id' = [k \in 1 .. BYTES |-> IF k + (i + 1) <= BYTES THEN made[k + (i + 1)] ELSE ZeroByte]
  <2>1. ASSUME NEW k \in 1 .. BYTES
        PROVE  (IF k < BYTES THEN id[k + 1] ELSE ZeroByte)
                 = IF k + (i + 1) <= BYTES THEN made[k + (i + 1)] ELSE ZeroByte
    <3>1. CASE k < BYTES
      <4>1. k + 1 \in 1 .. BYTES /\ (k + 1) + i = k + (i + 1) BY <1>2, <3>1, PlacesApart
      <4>2. id[k + 1] = IF (k + 1) + i <= BYTES THEN made[(k + 1) + i] ELSE ZeroByte
        BY <1>5, <4>1
      <4> QED BY <3>1, <4>1, <4>2
    <3>2. CASE ~(k < BYTES) BY <1>2, <3>2, PlacesApart
    <3> QED BY <3>1, <3>2
  <2> QED BY <1>7, <2>1 DEF WriteId
<1>10. Holds(TXID, "id")'
  <2>1. ASSUME NEW k \in 1 .. BYTES
        PROVE  LET byte == eeprom'[TXID + k - 1]
               IN  byte = Erased \/ (byte[1] = "id" /\ byte[3] = k)
    <3>1. CASE k = i + 1
      <4>1. eeprom'[TXID + k - 1] = made[k]
        BY <1>1, <1>2, <1>3, <1>8, <3>1, Written, InAddresses, PlacesApart DEF WriteId, StoreType
      <4> QED BY <4>1, <1>4, NumbersAre
    <3>2. CASE k # i + 1
      <4>1. eeprom'[TXID + k - 1] = eeprom[TXID + k - 1]
        BY <1>1, <1>2, <1>3, <3>2, Written, InAddresses, PlacesApart DEF WriteId, StoreType
      <4> QED BY <4>1, <1>1 DEF StoreType, Holds
    <3> QED BY <3>1, <3>2
  <2> QED BY <2>1 DEF Holds
<1>11. ASSUME NEW n \in Receivers PROVE Holds(ReceiverId(n), "rx")'
  <2>1. ASSUME NEW k \in 1 .. BYTES
        PROVE  eeprom'[ReceiverId(n) + k - 1] = eeprom[ReceiverId(n) + k - 1]
    <3>1. ReceiverId(n) \in Nat /\ ReceiverId(n) >= 50 BY PlacesApart
    <3>2. ReceiverId(n) + k - 1 # TXID + i BY <1>2, <3>1, PlacesApart
    <3> QED BY <1>1, <1>3, <3>2, Written, InAddresses DEF WriteId, StoreType
  <2> QED BY <1>1, <2>1, HoldsStill DEF StoreType
<1> QED BY <1>1, <1>2, <1>3, <1>8, <1>9, <1>10, <1>11, Written DEF WriteId, StoreType

LEMMA WriteReceiverStore ==
  ASSUME IdentityInvariant, WriteReceiver
  PROVE  /\ i \in Nat /\ i + 1 \in 1 .. BYTES /\ model.RX_num \in Receivers
         /\ ReceiverId(model.RX_num) + i \in Addresses
         /\ \A a \in Addresses : a # ReceiverId(model.RX_num) + i => eeprom'[a] = eeprom[a]
         /\ \A k \in 1 .. BYTES :
              k <= i + 1 => eeprom'[ReceiverId(model.RX_num) + k - 1] = rx_id[k]
         /\ StoreType'
<1> DEFINE place == ReceiverId(model.RX_num)
<1>1. PlainType /\ StoreType BY TypeParts DEF IdentityInvariant
<1>2. i \in Nat /\ i + 1 \in 1 .. BYTES /\ model.RX_num \in Receivers
  <2>1. i \in 0 .. BYTES /\ i < BYTES
    BY <1>1 DEF WriteReceiver, PlainType, WritesInOrder, IdentityInvariant
  <2>2. model \in Models
    BY <1>1 DEF WriteReceiver, PlainType, WritesInOrder, IdentityInvariant, NoModel
  <2> QED BY <2>1, <2>2, PlacesApart DEF Models
<1>3. place \in Nat /\ place >= 50 BY <1>2, PlacesApart
<1>4. place + i \in Addresses
  <2>1. place + (i + 1) - 1 \in Addresses BY <1>2, InAddresses
  <2> QED BY <1>2, <1>3, <2>1
<1>5. PICK new \in 1 .. MaxAnswers : rx_id = Number("rx", new)
  BY DEF WriteReceiver, WritesInOrder, IdentityInvariant
<1>6. /\ DOMAIN eeprom' = Addresses
      /\ \A a \in Addresses : eeprom'[a] = IF a = place + i THEN rx_id[i + 1] ELSE eeprom[a]
  BY <1>1, <1>4, Written DEF WriteReceiver, StoreType
<1>7. ASSUME NEW k \in 1 .. BYTES, k <= i + 1 PROVE eeprom'[place + k - 1] = rx_id[k]
  <2>1. place + k - 1 \in Addresses BY <1>2, InAddresses
  <2>2. CASE k = i + 1
    <3>1. place + k - 1 = place + i BY <1>2, <1>3, <2>2
    <3> QED BY <1>6, <2>1, <2>2, <3>1
  <2>3. CASE k <= i
    <3>1. place + k - 1 # place + i BY <1>2, <1>3, <2>3
    <3>2. eeprom[place + k - 1] = rx_id[k]
      BY <2>3 DEF WriteReceiver, WritesInOrder, IdentityInvariant
    <3> QED BY <1>6, <2>1, <3>1, <3>2
  <2> QED BY <1>2, <1>7, <2>2, <2>3
<1>8. Holds(TXID, "id")'
  <2>1. ASSUME NEW k \in 1 .. BYTES PROVE eeprom'[TXID + k - 1] = eeprom[TXID + k - 1]
    <3>1. TXID + k - 1 # place + i BY <1>2, <1>3, PlacesApart
    <3> QED BY <1>6, <3>1, InAddresses
  <2> QED BY <1>1, <2>1, HoldsStill DEF StoreType
<1>9. ASSUME NEW n \in Receivers PROVE Holds(ReceiverId(n), "rx")'
  <2>1. ASSUME NEW k \in 1 .. BYTES
        PROVE  LET byte == eeprom'[ReceiverId(n) + k - 1]
               IN  byte = Erased \/ (byte[1] = "rx" /\ byte[3] = k)
    <3>0. ReceiverId(n) \in Nat BY PlacesApart
    <3>1. ReceiverId(n) + k - 1 \in Addresses BY InAddresses
    <3>2. LET byte == eeprom[ReceiverId(n) + k - 1]
          IN  byte = Erased \/ (byte[1] = "rx" /\ byte[3] = k)
      BY <1>1 DEF StoreType, Holds
    <3>3. CASE n = model.RX_num /\ k = i + 1
      <4>1. eeprom'[ReceiverId(n) + k - 1] = rx_id[k] BY <1>2, <1>7, <3>3
      <4> QED BY <4>1, <1>5, NumbersAre
    <3>4. CASE n = model.RX_num /\ k # i + 1
      <4>1. ReceiverId(n) + k - 1 # place + i BY <1>2, <3>0, <3>4
      <4> QED BY <4>1, <1>6, <3>1, <3>2
    <3>5. CASE n # model.RX_num
      <4>1. ReceiverId(n) + 4 <= place \/ place + 4 <= ReceiverId(n)
        BY <1>2, <3>5, PlacesApart
      <4>2. ReceiverId(n) + k - 1 # place + i BY <1>2, <1>3, <3>0, <4>1, PlacesApart
      <4> QED BY <4>2, <1>6, <3>1, <3>2
    <3> QED BY <3>3, <3>4, <3>5
  <2> QED BY <2>1 DEF Holds
<1> QED BY <1>2, <1>4, <1>6, <1>7, <1>8, <1>9 DEF StoreType

LEMMA TypeStep == ASSUME IdentityInvariant, Next PROVE TypeOK'
<1>0. PlainType /\ StoreType /\ BYTES \in Nat
  BY TypeParts, PlacesApart DEF IdentityInvariant
<1>c. MaxCreated \in Nat /\ MaxAnswers \in Nat /\ PPM_prot \in [Dials -> Models]
  BY IdentityAssumption
<1>1. CASE PowerUp
  BY <1>0, <1>1, StoreTypeStill, TypeParts DEF PowerUp, store, session, bounds, history, PlainType
<1>2. CASE PowerLost
  <2>1. i' \in 0 .. BYTES BY <1>0, <1>2 DEF PowerLost, Off
  <2> QED BY <1>0, <1>2, <2>1, StoreTypeStill, TypeParts
          DEF PowerLost, Off, bounds, history, PlainType
<1>3. CASE ReadId
  BY <1>0, <1>3, StoreTypeStill, TypeParts DEF ReadId, store, power, bounds, history, PlainType
<1>4. ASSUME NEW step \in {"create", "renew"}, Begin(step), UNCHANGED <<option, rx_id, binding>>,
             model' \in Models \cup {NoModel}, UNCHANGED mode_select,
             BIND_BUTTON_FLAG' \in {0, 1}
      PROVE  TypeOK'
  <2>1. i' \in 0 .. BYTES /\ created' \in 0 .. MaxCreated
    BY <1>0, <1>c, <1>4 DEF Begin, BeginOver, PlainType
  <2> QED BY <1>0, <1>4, <2>1, StoreTypeStill, TypeParts DEF Begin, BeginOver, PlainType
<1>5. CASE WriteId
  BY <1>0, <1>5, WriteIdStore, TypeParts DEF WriteId, power, session, bounds, history, PlainType
<1>6. CASE WriteMark
  <2>1. StoreType'
    BY <1>0, <1>6, PlacesApart, InAddresses, StoreTypeMarked DEF WriteMark
  <2>2. i' \in 0 .. BYTES BY <1>0, <1>6 DEF WriteMark
  <2> QED BY <1>0, <1>6, <2>1, <2>2, TypeParts DEF WriteMark, power, bounds, PlainType
<1>7. CASE BindButton
  <2>1. mode_select \in Dials BY <1>0, <1>7 DEF BindButton, PlainType
  <2>2. FixedId(mode_select) \in 20 .. 45 BY <2>1, PlacesApart
  <2>3. StoreType' BY <1>0, <1>7, <2>1, <2>2, InAddresses, StoreTypeMarked DEF BindButton
  <2> QED BY <1>0, <1>7, <2>3, TypeParts DEF BindButton, store, power, bounds, PlainType
<1>8. CASE ReadAFHDS2A
  <2>1. model.RX_num \in Receivers
    BY <1>0, <1>8 DEF ReadAFHDS2A, PlainType, Models, NoModel
  <2>2. i' \in 0 .. BYTES /\ answers' \in 0 .. MaxAnswers
    BY <1>0, <1>c, <1>8 DEF ReadAFHDS2A, PlainType
  <2> QED BY <1>0, <1>8, <2>1, <2>2, StoreTypeStill, TypeParts DEF ReadAFHDS2A, power, PlainType
<1>9. CASE WriteReceiver
  <2>0. i \in Nat BY <1>9, WriteReceiverStore
  <2>1. i' \in 0 .. BYTES
    <3>1. CASE i + 1 < BYTES BY <1>0, <1>9, <2>0, <3>1 DEF WriteReceiver
    <3>2. CASE ~(i + 1 < BYTES) BY <1>0, <1>9, <3>2 DEF WriteReceiver
    <3> QED BY <3>1, <3>2
  <2> QED BY <1>0, <1>9, <2>1, WriteReceiverStore, TypeParts
          DEF WriteReceiver, power, bounds, PlainType
<1>10. ASSUME NEW m \in Models, StartOther(m) PROVE TypeOK'
  BY <1>0, <1>10, StoreTypeStill, TypeParts
     DEF StartOther, Start, store, bounds, history, PlainType
<1>11. ASSUME NEW m \in Models, StartHubsan(m) PROVE TypeOK'
  <2>1. CASE Begin("renew")
    BY <1>4, <1>11, <2>1 DEF StartHubsan, Start
  <2>2. CASE UNCHANGED <<eeprom, pc, store, bounds, history>>
    BY <1>0, <1>11, <2>2, StoreTypeStill, TypeParts
       DEF StartHubsan, Start, store, bounds, history, PlainType
  <2> QED BY <1>11, <2>1, <2>2 DEF StartHubsan
<1>12. ASSUME NEW m \in Models, StartDevo(m) PROVE TypeOK'
  <2>1. CASE eeprom' = eeprom
    BY <1>0, <1>12, <2>1, StoreTypeStill, TypeParts DEF StartDevo, Start, store, bounds, PlainType
  <2>2. CASE mode_select # 0 /\ Write(FixedId(mode_select), Fixed(0)) /\ option' = 0
    <3>1. mode_select \in Dials BY <1>0, <2>2 DEF PlainType
    <3>2. FixedId(mode_select) \in 20 .. 45 BY <3>1, PlacesApart
    <3>3. StoreType' BY <1>0, <2>2, <3>1, <3>2, InAddresses, StoreTypeMarked
    <3> QED BY <1>0, <1>12, <2>2, <3>3, TypeParts DEF StartDevo, Start, store, bounds, PlainType
  <2> QED BY <1>12, <2>1, <2>2 DEF StartDevo
<1>13. ASSUME NEW m \in Models, NEW autobind \in BOOLEAN, StartAFHDS2A(m, autobind)
       PROVE  TypeOK'
  BY <1>0, <1>13, StoreTypeStill, TypeParts
     DEF StartAFHDS2A, Start, store, bounds, history, PlainType
<1>14. CASE CreateId
  BY <1>0, <1>4, <1>14 DEF CreateId, power, session, PlainType
<1> QED
  BY NextCases, <1>1, <1>2, <1>3, <1>5, <1>6, <1>7, <1>8, <1>9, <1>10, <1>11, <1>12,
     <1>13, <1>14

-----------------------------------------------------------------------------
(***************************************************************************)
(* The order of writes.                                                    *)
(***************************************************************************)
LEMMA BeginOrder ==
  ASSUME IdentityInvariant, NEW step, Begin(step)
  PROVE  /\ \E n \in 0 .. MaxCreated : made' = Number("id", n)
         /\ id' = [k \in 1 .. BYTES |-> IF k + i' <= BYTES THEN made'[k + i'] ELSE ZeroByte]
         /\ i' = 0
<1>1. created + 1 \in 0 .. MaxCreated /\ 0 \in 0 .. MaxCreated
  BY IdentityAssumption DEF IdentityInvariant, TypeOK, Begin, BeginOver
<1>2. /\ id' = made' /\ i' = 0
      /\ made' = Number("id", created + 1) \/ made' = Number("id", 0)
  BY DEF Begin, BeginOver, Random, SEED_0
<1>3. PICK n \in 0 .. MaxCreated : made' = Number("id", n)
  BY <1>1, <1>2
<1>4. \A k \in 1 .. BYTES : k + i' <= BYTES /\ k + i' = k
  BY <1>2, PlacesApart
<1> QED BY <1>2, <1>3, <1>4 DEF Number

LEMMA OrderStep == ASSUME IdentityInvariant, Next PROVE WritesInOrder'
<1>0. WritesInOrder /\ TypeOK BY DEF IdentityInvariant
<1>1. ASSUME pc' \notin {"create", "renew", "answer"}, pc' \in {"off", "setup"} => model' = NoModel
      PROVE  WritesInOrder'
  BY <1>1 DEF WritesInOrder
<1>3. CASE CreateId
  <2>1. pc' = "create" /\ model' = NoModel
    BY <1>0, <1>3 DEF CreateId, Begin, BeginOver, session, WritesInOrder
  <2>2. \A k \in 1 .. BYTES : ~(k <= i') BY <1>3, BeginOrder DEF CreateId
  <2> QED BY <1>3, <2>1, <2>2, BeginOrder DEF CreateId, WritesInOrder
<1>4. CASE WriteId
  <2>1. pc' = pc /\ model' = model /\ made' = made /\ i' = i + 1 /\ pc \in {"create", "renew"}
    BY <1>4 DEF WriteId, session
  <2>2. StoreType /\ i \in Nat /\ i + 1 \in 1 .. BYTES /\ TXID + i \in Addresses
        /\ Head(id) = made[i + 1]
    BY <1>0, <1>4, TypeParts, WriteIdStore DEF WriteId, TypeOK
  <2>3. ASSUME NEW k \in 1 .. BYTES, k <= i' PROVE eeprom'[TXID + k - 1] = made'[k]
    <3>1. /\ TXID + k - 1 \in Addresses
          /\ \A a \in Addresses : eeprom'[a] = IF a = TXID + i THEN made[i + 1] ELSE eeprom[a]
      BY <1>4, <2>2, InAddresses, Written DEF StoreType, WriteId
    <3>2. CASE k = i + 1
      <4>1. TXID + k - 1 = TXID + i BY <2>2, <3>2, PlacesApart
      <4> QED BY <2>1, <2>2, <3>1, <3>2, <4>1
    <3>3. CASE k <= i
      <4>1. TXID + k - 1 # TXID + i BY <2>2, <3>3, PlacesApart
      <4> QED BY <1>0, <2>1, <3>1, <3>3, <4>1 DEF WritesInOrder
    <3> QED BY <2>1, <2>2, <2>3, <3>2, <3>3
  <2> QED BY <1>0, <1>4, <2>1, <2>3, WriteIdStore DEF WritesInOrder
<1>5. CASE ReadAFHDS2A
  <2>1. /\ pc' = "answer" /\ i' = 0 /\ UNCHANGED <<eeprom, model>>
        /\ model.protocol = "AFHDS2A" /\ ReceiverId(model.RX_num) \in torn'
    BY <1>5 DEF ReadAFHDS2A
  <2>2. answers + 1 \in 1 .. MaxAnswers
    BY <1>0, <1>5, IdentityAssumption DEF ReadAFHDS2A, TypeOK
  <2>3. \A k \in 1 .. BYTES : ~(k <= 0) OBVIOUS
  <2>4. 0 < BYTES BY PlacesApart
  <2>5. rx_id' = Number("rx", answers + 1) BY <1>5 DEF ReadAFHDS2A
  <2> QED BY <2>1, <2>2, <2>3, <2>4, <2>5 DEF WritesInOrder
<1>6. CASE WriteReceiver
  <2>1. CASE i + 1 < BYTES
    <3>1. UNCHANGED <<pc, torn, rx_id, model>> /\ i' = i + 1 /\ pc = "answer"
      BY <1>6, <2>1 DEF WriteReceiver
    <3> QED BY <1>0, <1>6, <2>1, <3>1, WriteReceiverStore DEF WritesInOrder
  <2>2. CASE ~(i + 1 < BYTES) BY <1>1, <1>6, <2>2 DEF WriteReceiver
  <2> QED BY <2>1, <2>2
<1>7. ASSUME NEW m \in Models, StartHubsan(m) PROVE WritesInOrder'
  <2>1. CASE Begin("renew")
    <3>1. pc' = "renew" /\ model'.protocol = "HUBSAN"
      BY <1>7, <2>1 DEF StartHubsan, Start, Begin, BeginOver
    <3>2. \A k \in 1 .. BYTES : ~(k <= i') BY <2>1, BeginOrder
    <3> QED BY <2>1, <3>1, <3>2, BeginOrder DEF WritesInOrder
  <2>2. CASE UNCHANGED <<eeprom, pc, store, bounds, history>>
    BY <1>1, <1>7, <2>2 DEF StartHubsan, Start
  <2> QED BY <1>7, <2>1, <2>2 DEF StartHubsan
<1>8. CASE PowerUp BY <1>0, <1>1, <1>8 DEF PowerUp, session, WritesInOrder
<1>9. CASE PowerLost BY <1>1, <1>9 DEF PowerLost, Off
<1>10. CASE ReadId BY <1>1, <1>10 DEF ReadId
<1>11. CASE WriteMark BY <1>1, <1>11 DEF WriteMark
<1>12. CASE BindButton BY <1>1, <1>12 DEF BindButton
<1>13. ASSUME NEW m \in Models, StartOther(m) \/ StartDevo(m) PROVE WritesInOrder'
  BY <1>1, <1>13 DEF StartOther, StartDevo, Start
<1>14. ASSUME NEW m \in Models, NEW autobind \in BOOLEAN, StartAFHDS2A(m, autobind)
       PROVE  WritesInOrder'
  BY <1>1, <1>14 DEF StartAFHDS2A, Start
<1> QED
  BY NextCases, <1>3, <1>4, <1>5, <1>6, <1>7, <1>8, <1>9, <1>10, <1>11, <1>12, <1>13, <1>14

-----------------------------------------------------------------------------
(***************************************************************************)
(* The identity.                                                           *)
(***************************************************************************)
LEMMA IdentityStill ==
  ASSUME IdentityInvariant, UNCHANGED <<kept, eeprom>>, TXID \in torn' <=> TXID \in torn,
         pc' \in {"loop", "renew", "answer"} => Marked,
         pc' \in {"create", "renew"} => pc' = pc
  PROVE  IdentityStored'
BY DEF IdentityInvariant, IdentityStored, Marked, Read

\* A byte written elsewhere leaves the identity and its mark alone.
LEMMA IdentityElsewhere ==
  ASSUME StoreType, NEW address \in Addresses, address > 20,
         \A a \in Addresses : a # address => eeprom'[a] = eeprom[a]
  PROVE  (Marked' <=> Marked) /\ Read(TXID)' = Read(TXID)
<1>1. eeprom'[MARK] = eeprom[MARK]
  <2>1. MARK # address BY PlacesApart
  <2> QED BY <2>1, InAddresses
<1>2. ASSUME NEW k \in 1 .. BYTES PROVE eeprom'[TXID + k - 1] = eeprom[TXID + k - 1]
  <2>1. TXID + k - 1 # address BY PlacesApart
  <2> QED BY <2>1, InAddresses
<1> QED BY <1>1, <1>2 DEF Marked, Read

LEMMA IdentityElsewhereStored ==
  ASSUME IdentityInvariant, NEW address \in Addresses, address > 20, kept' = kept,
         \A a \in Addresses : a # address => eeprom'[a] = eeprom[a],
         TXID \in torn' <=> TXID \in torn, pc \notin {"create", "renew"},
         pc' \in {"loop", "answer"}, pc \in {"loop", "answer"}
  PROVE  IdentityStored'
<1>1. StoreType BY TypeParts DEF IdentityInvariant
<1>2. (Marked' <=> Marked) /\ Read(TXID)' = Read(TXID) BY <1>1, IdentityElsewhere
<1> QED BY <1>2 DEF IdentityInvariant, IdentityStored

LEMMA BeginStored ==
  ASSUME IdentityInvariant, NEW step \in {"create", "renew"}, Begin(step),
         step = "renew" => pc = "loop"
  PROVE  IdentityStored'
<1>1. /\ UNCHANGED <<eeprom, kept>> /\ pc' = step
      /\ torn' = IF Marked THEN torn \cup {TXID} ELSE torn
  BY DEF Begin, BeginOver
<1>2. CASE Marked BY <1>1, <1>2 DEF IdentityStored, Marked
<1>3. CASE ~Marked
  <2>1. step = "create" BY <1>3 DEF IdentityInvariant, IdentityStored
  <2> QED BY <1>1, <1>3, <2>1 DEF IdentityInvariant, IdentityStored, Marked
<1> QED BY <1>2, <1>3

LEMMA IdentityStep == ASSUME IdentityInvariant, Next PROVE IdentityStored'
<1>0. StoreType /\ PlainType /\ WritesInOrder /\ IdentityStored
  BY TypeParts DEF IdentityInvariant
<1>1. CASE PowerUp BY <1>1, IdentityStill DEF PowerUp, history
<1>2. CASE PowerLost BY <1>2, IdentityStill DEF PowerLost, history
<1>3. CASE ReadId BY <1>3, IdentityStill DEF ReadId, Exists, history
<1>4. CASE CreateId BY <1>4, BeginStored DEF CreateId
<1>5. CASE WriteId
  <2>1. TXID + i # MARK /\ TXID + i \in Addresses
    <3>1. i \in 0 .. BYTES /\ i + 1 <= BYTES BY <1>0, <1>5, WriteIdStore, PlacesApart DEF PlainType
    <3> QED BY <1>5, <3>1, WriteIdStore, PlacesApart
  <2>2. Marked' <=> Marked
    BY <1>0, <1>5, <2>1, Written, InAddresses DEF WriteId, StoreType, Marked
  <2> QED BY <1>0, <1>5, <2>2 DEF WriteId, history, IdentityStored
<1>6. CASE WriteMark
  <2>1. \A a \in Addresses : eeprom'[a] = IF a = MARK THEN Mark ELSE eeprom[a]
    BY <1>0, <1>6, Written, InAddresses DEF WriteMark, StoreType
  <2>2. Marked' BY <2>1, InAddresses DEF Marked
  <2>3. ASSUME NEW k \in 1 .. BYTES PROVE eeprom'[TXID + k - 1] = made[k]
    <3>1. TXID + k - 1 # MARK BY PlacesApart
    <3>2. eeprom[TXID + k - 1] = made[k] BY <1>0, <1>6 DEF WriteMark, WritesInOrder
    <3> QED BY <2>1, <3>1, <3>2, InAddresses
  <2>4. PICK n \in 0 .. MaxCreated : made = Number("id", n)
    BY <1>0, <1>6 DEF WriteMark, WritesInOrder
  <2>5. Read(TXID)' = made
    BY <2>3, <2>4 DEF Read, Number
  <2> QED BY <1>6, <2>2, <2>5 DEF WriteMark, IdentityStored
<1>7. CASE BindButton
  <2>1. FixedId(mode_select) \in Addresses /\ FixedId(mode_select) > 20
    <3>1. mode_select \in Dials BY <1>0, <1>7 DEF BindButton, PlainType
    <3> QED BY <3>1, PlacesApart, InAddresses
  <2>2. \A a \in Addresses : a # FixedId(mode_select) => eeprom'[a] = eeprom[a]
    BY <1>0, <1>7, <2>1, Written DEF BindButton, StoreType
  <2> QED BY <1>7, <2>1, <2>2, IdentityElsewhereStored DEF BindButton
<1>8. CASE ReadAFHDS2A
  <2>1. ReceiverId(model.RX_num) # TXID
    <3>1. model.RX_num \in Receivers BY <1>0, <1>8 DEF ReadAFHDS2A, PlainType, Models, NoModel
    <3> QED BY <3>1, PlacesApart
  <2>2. Marked BY <1>0, <1>8 DEF ReadAFHDS2A, IdentityStored
  <2> QED BY <1>8, <2>1, <2>2, IdentityStill DEF ReadAFHDS2A
<1>9. CASE WriteReceiver
  <2> DEFINE place == ReceiverId(model.RX_num)
  <2>1. /\ place \in Nat /\ place >= 50 /\ i \in Nat /\ place + i \in Addresses
        /\ \A a \in Addresses : a # place + i => eeprom'[a] = eeprom[a]
    BY <1>9, WriteReceiverStore, PlacesApart
  <2>2. place # TXID /\ place + i > 20 BY <2>1, PlacesApart
  <2>3. UNCHANGED kept /\ pc = "answer" /\ pc' \in {"loop", "answer"}
        /\ (TXID \in torn' <=> TXID \in torn)
    BY <1>9, <2>2 DEF WriteReceiver
  <2> QED BY <2>1, <2>2, <2>3, IdentityElsewhereStored
<1>10. ASSUME NEW m \in Models, StartOther(m) PROVE IdentityStored'
  BY <1>0, <1>10, IdentityStill DEF StartOther, Start, IdentityStored, history
<1>11. ASSUME NEW m \in Models, StartHubsan(m) PROVE IdentityStored'
  BY <1>0, <1>11, IdentityStill, BeginStored DEF StartHubsan, Start, IdentityStored, history
<1>12. ASSUME NEW m \in Models, StartDevo(m) PROVE IdentityStored'
  <2>1. UNCHANGED <<kept, torn, pc>> /\ pc = "loop" BY <1>12 DEF StartDevo, Start
  <2>2. CASE eeprom' = eeprom BY <1>0, <2>1, <2>2, IdentityStill DEF IdentityStored
  <2>3. CASE mode_select # 0 /\ Write(FixedId(mode_select), Fixed(0))
    <3>1. FixedId(mode_select) \in Addresses /\ FixedId(mode_select) > 20
      <4>1. mode_select \in Dials BY <1>0, <2>3 DEF PlainType
      <4> QED BY <4>1, PlacesApart, InAddresses
    <3>2. \A a \in Addresses : a # FixedId(mode_select) => eeprom'[a] = eeprom[a]
      BY <1>0, <2>3, <3>1, Written DEF StoreType
    <3> QED BY <2>1, <3>1, <3>2, IdentityElsewhereStored
  <2> QED BY <1>12, <2>2, <2>3 DEF StartDevo
<1>13. ASSUME NEW m \in Models, NEW autobind \in BOOLEAN, StartAFHDS2A(m, autobind)
       PROVE  IdentityStored'
  BY <1>0, <1>13, IdentityStill DEF StartAFHDS2A, Start, IdentityStored, history
<1> QED
  BY NextCases, <1>1, <1>2, <1>3, <1>4, <1>5, <1>6, <1>7, <1>8, <1>9, <1>10, <1>11, <1>12, <1>13

-----------------------------------------------------------------------------
(***************************************************************************)
(* The receivers, and the choices at the dial.                             *)
(***************************************************************************)
LEMMA SettingsStill ==
  ASSUME IdentityInvariant, UNCHANGED <<bound, fixed, eeprom>>,
         \A n \in Receivers : ReceiverId(n) \in torn => ReceiverId(n) \in torn'
  PROVE  SettingsStored'
BY DEF IdentityInvariant, SettingsStored, Read

\* Nor does a byte of the identity, or its mark, disturb them.
LEMMA SettingsElsewhere ==
  ASSUME IdentityInvariant, NEW address \in Addresses, address < 30,
         \A a \in Addresses : a # address => eeprom'[a] = eeprom[a],
         UNCHANGED <<bound, fixed>>,
         \A n \in Receivers : ReceiverId(n) \in torn => ReceiverId(n) \in torn'
  PROVE  SettingsStored'
<1>1. ASSUME NEW n \in Receivers PROVE Read(ReceiverId(n))' = Read(ReceiverId(n))
  <2>1. ASSUME NEW k \in 1 .. BYTES
        PROVE  eeprom'[ReceiverId(n) + k - 1] = eeprom[ReceiverId(n) + k - 1]
    <3>1. ReceiverId(n) + k - 1 # address
      <4>1. ReceiverId(n) \in Nat /\ ReceiverId(n) >= 50 BY PlacesApart
      <4> QED BY <4>1
    <3> QED BY <3>1, InAddresses
  <2> QED BY <2>1 DEF Read
<1>2. ASSUME NEW dial \in Dials PROVE eeprom'[FixedId(dial)] = eeprom[FixedId(dial)]
  <2>1. FixedId(dial) # address BY PlacesApart
  <2> QED BY <2>1, InAddresses
<1> QED BY <1>1, <1>2 DEF IdentityInvariant, SettingsStored

LEMMA ChoiceStored ==
  ASSUME IdentityInvariant, mode_select # 0, NEW choice \in {0, 1},
         Write(FixedId(mode_select), Fixed(choice)),
         fixed' = [fixed EXCEPT ![mode_select] = choice], UNCHANGED <<bound, torn>>
  PROVE  SettingsStored' /\ fixed'[mode_select] = choice
<1>1. mode_select \in Dials /\ DOMAIN eeprom = Addresses BY DEF IdentityInvariant, TypeOK
<1>2. FixedId(mode_select) \in Addresses BY <1>1, InAddresses
<1>3. \A a \in Addresses :
        eeprom'[a] = IF a = FixedId(mode_select) THEN Fixed(choice) ELSE eeprom[a]
  BY <1>1, <1>2, Written
<1>4. ASSUME NEW n \in Receivers PROVE Read(ReceiverId(n))' = Read(ReceiverId(n))
  <2>1. ASSUME NEW k \in 1 .. BYTES
        PROVE  eeprom'[ReceiverId(n) + k - 1] = eeprom[ReceiverId(n) + k - 1]
    <3>1. ReceiverId(n) \in Nat /\ ReceiverId(n) >= 50 BY PlacesApart
    <3>2. ReceiverId(n) + k - 1 # FixedId(mode_select) BY <1>1, <3>1, PlacesApart
    <3> QED BY <1>3, <3>2, InAddresses
  <2> QED BY <2>1 DEF Read
<1>5. ASSUME NEW dial \in Dials
      PROVE  eeprom'[FixedId(dial)] = Fixed(1) <=> fixed'[dial] = 1
  <2>0. fixed \in [Dials -> {0, 1}] BY DEF IdentityInvariant, SettingsStored
  <2>1. CASE dial = mode_select
    BY <1>1, <1>2, <1>3, <2>0, <2>1, BytesDiffer
  <2>2. CASE dial # mode_select
    <3>1. FixedId(dial) # FixedId(mode_select) BY <1>1, <2>2, PlacesApart
    <3>2. eeprom'[FixedId(dial)] = eeprom[FixedId(dial)] BY <1>3, <3>1, InAddresses
    <3>3. fixed'[dial] = fixed[dial] BY <2>0, <2>2
    <3> QED BY <3>2, <3>3 DEF IdentityInvariant, SettingsStored
  <2> QED BY <2>1, <2>2
<1> QED BY <1>1, <1>4, <1>5 DEF IdentityInvariant, SettingsStored

LEMMA ReceiverStored == ASSUME IdentityInvariant, WriteReceiver PROVE SettingsStored'
<1> DEFINE place == ReceiverId(model.RX_num)
<1>1. /\ place \in Nat /\ place >= 50 /\ i \in Nat /\ i + 1 \in 1 .. BYTES
      /\ model.RX_num \in Receivers
      /\ \A a \in Addresses : a # place + i => eeprom'[a] = eeprom[a]
  BY WriteReceiverStore, PlacesApart
<1>2. ASSUME NEW dial \in Dials PROVE eeprom'[FixedId(dial)] = eeprom[FixedId(dial)]
  <2>1. FixedId(dial) # place + i BY <1>1, PlacesApart
  <2> QED BY <1>1, <2>1, InAddresses
<1>3. ASSUME NEW n \in Receivers, n # model.RX_num
      PROVE  Read(ReceiverId(n))' = Read(ReceiverId(n))
  <2>1. ASSUME NEW k \in 1 .. BYTES
        PROVE  eeprom'[ReceiverId(n) + k - 1] = eeprom[ReceiverId(n) + k - 1]
    <3>1. ReceiverId(n) \in Nat
          /\ (ReceiverId(n) + 4 <= place \/ place + 4 <= ReceiverId(n))
      BY <1>1, <1>3, PlacesApart
    <3>2. ReceiverId(n) + k - 1 # place + i BY <1>1, <3>1, PlacesApart
    <3> QED BY <1>1, <3>2, InAddresses
  <2> QED BY <2>1 DEF Read
<1>4. ASSUME NEW n \in Receivers, n # model.RX_num PROVE ReceiverId(n) # place
  BY <1>1, <1>4, PlacesApart
<1>5. CASE i + 1 < BYTES
  <2>1. UNCHANGED <<bound, torn, fixed>> /\ place \in torn
    BY <1>5 DEF WriteReceiver, IdentityInvariant, WritesInOrder
  <2> QED BY <1>2, <1>3, <2>1 DEF IdentityInvariant, SettingsStored
<1>6. CASE ~(i + 1 < BYTES)
  <2>1. /\ bound' = [bound EXCEPT ![model.RX_num] = rx_id] /\ torn' = torn \ {place}
        /\ fixed' = fixed /\ model' = model
    BY <1>6 DEF WriteReceiver
  <2>2. PICK new \in 1 .. MaxAnswers : rx_id = Number("rx", new)
    BY DEF WriteReceiver, IdentityInvariant, WritesInOrder
  <2>3. \A k \in 1 .. BYTES : k <= i + 1 BY <1>1, <1>6, PlacesApart
  <2>4. Read(place)' = rx_id
    <3>1. \A k \in 1 .. BYTES : eeprom'[place + k - 1] = rx_id[k]
      BY <2>3, WriteReceiverStore
    <3> QED BY <2>1, <2>2, <3>1 DEF Read, Number
  <2>5. ASSUME NEW n \in Receivers
        PROVE  ReceiverId(n) \in torn' \/ Read(ReceiverId(n))' = bound'[n]
    <3>1. CASE n = model.RX_num
      BY <1>1, <2>1, <2>4, <3>1 DEF IdentityInvariant, SettingsStored
    <3>2. CASE n # model.RX_num
      BY <1>3, <1>4, <2>1, <3>2 DEF IdentityInvariant, SettingsStored
    <3> QED BY <3>1, <3>2
  <2> QED BY <1>2, <2>1, <2>5 DEF IdentityInvariant, SettingsStored
<1> QED BY <1>5, <1>6

LEMMA SettingsStep == ASSUME IdentityInvariant, Next PROVE SettingsStored'
<1>0. StoreType /\ PlainType BY TypeParts DEF IdentityInvariant
<1>1. CASE PowerUp BY <1>1, SettingsStill DEF PowerUp, history
<1>2. CASE PowerLost BY <1>2, SettingsStill DEF PowerLost, history
<1>3. CASE ReadId BY <1>3, SettingsStill DEF ReadId, history
<1>4. ASSUME NEW step, Begin(step) PROVE SettingsStored'
  BY <1>4, SettingsStill DEF Begin, BeginOver
<1>5. CASE WriteId
  <2>1. TXID + i \in Addresses /\ TXID + i < 30
    <3>1. i \in 0 .. BYTES BY <1>0 DEF PlainType
    <3> QED BY <1>5, <3>1, WriteIdStore, PlacesApart
  <2>2. \A a \in Addresses : a # TXID + i => eeprom'[a] = eeprom[a]
    BY <1>0, <1>5, <2>1, Written DEF WriteId, StoreType
  <2> QED BY <1>5, <2>1, <2>2, SettingsElsewhere DEF WriteId, history
<1>6. CASE WriteMark
  <2>1. \A a \in Addresses : a # MARK => eeprom'[a] = eeprom[a]
    BY <1>0, <1>6, InAddresses, Written DEF WriteMark, StoreType
  <2>2. \A n \in Receivers : ReceiverId(n) # TXID BY PlacesApart
  <2>3. MARK \in Addresses /\ MARK < 30 BY InAddresses, PlacesApart
  <2> QED BY <1>6, <2>1, <2>2, <2>3, SettingsElsewhere DEF WriteMark
<1>7. CASE BindButton BY <1>7, ChoiceStored DEF BindButton
<1>8. CASE ReadAFHDS2A BY <1>8, SettingsStill DEF ReadAFHDS2A
<1>9. CASE WriteReceiver BY <1>9, ReceiverStored
<1>10. ASSUME NEW m \in Models, StartOther(m) PROVE SettingsStored'
  BY <1>10, SettingsStill DEF StartOther, history
<1>11. ASSUME NEW m \in Models, StartHubsan(m) PROVE SettingsStored'
  BY <1>4, <1>11, SettingsStill DEF StartHubsan, history
<1>12. ASSUME NEW m \in Models, StartDevo(m) PROVE SettingsStored'
  BY <1>12, SettingsStill, ChoiceStored DEF StartDevo
<1>13. ASSUME NEW m \in Models, NEW autobind \in BOOLEAN, StartAFHDS2A(m, autobind)
       PROVE  SettingsStored'
  BY <1>13, SettingsStill DEF StartAFHDS2A, history
<1>14. CASE CreateId BY <1>4, <1>14 DEF CreateId
<1> QED
  BY NextCases, <1>1, <1>2, <1>3, <1>5, <1>6, <1>7, <1>8, <1>9, <1>10, <1>11, <1>12,
     <1>13, <1>14

\* What runs is what was read, or stored, since it was started.
LEMMA KeptStep == ASSUME IdentityInvariant, Next PROVE SettingsKept'
<1>0. PlainType /\ WritesInOrder /\ SettingsStored /\ SettingsKept
  BY TypeParts DEF IdentityInvariant
<1>1. ASSUME pc' # "loop" \/ model' = NoModel PROVE SettingsKept'
  BY <1>1 DEF SettingsKept, NoModel
<1>2. CASE PowerUp \/ PowerLost \/ CreateId \/ WriteId \/ ReadAFHDS2A
  BY <1>1, <1>2
     DEF PowerUp, PowerLost, CreateId, Begin, BeginOver, WriteId, ReadAFHDS2A
<1>3. CASE ReadId BY <1>0, <1>1, <1>3 DEF ReadId, WritesInOrder
<1>4. CASE WriteMark
  <2>1. model' = model /\ (model = NoModel \/ model.protocol = "HUBSAN")
    BY <1>0, <1>4 DEF WriteMark, WritesInOrder
  <2> QED BY <1>1, <2>1 DEF SettingsKept
<1>5. CASE BindButton
  <2>1. /\ option' = 1 /\ mode_select' = mode_select /\ model' = model
        /\ model.protocol = "DEVO"
    BY <1>5 DEF BindButton, power
  <2>2. fixed'[mode_select] = 1 BY <1>5, ChoiceStored DEF BindButton
  <2> QED BY <2>1, <2>2 DEF SettingsKept
<1>6. CASE WriteReceiver
  <2>1. /\ model' = model /\ model.protocol = "AFHDS2A" /\ rx_id' = rx_id
        /\ model.RX_num \in Receivers
    BY <1>0, <1>6, WriteReceiverStore DEF WriteReceiver, WritesInOrder
  <2>2. CASE i + 1 < BYTES BY <1>1, <1>6, <2>2 DEF WriteReceiver
  <2>3. CASE ~(i + 1 < BYTES)
    <3>1. bound' = [bound EXCEPT ![model.RX_num] = rx_id] BY <1>6, <2>3 DEF WriteReceiver
    <3> QED BY <1>0, <2>1, <3>1 DEF SettingsKept, SettingsStored
  <2> QED BY <2>2, <2>3
<1>7. ASSUME NEW m \in Models, StartOther(m) PROVE SettingsKept'
  BY <1>7 DEF StartOther, Start, SettingsKept
<1>8. ASSUME NEW m \in Models, StartHubsan(m) PROVE SettingsKept'
  BY <1>8 DEF StartHubsan, Start, SettingsKept
<1>9. ASSUME NEW m \in Models, StartDevo(m) PROVE SettingsKept'
  <2>1. /\ pc' = "loop" /\ mode_select' = mode_select
        /\ model'.protocol = "DEVO"
    BY <1>9 DEF StartDevo, Start
  <2>2. CASE mode_select = 0 BY <2>1, <2>2 DEF SettingsKept
  <2>3. CASE mode_select # 0 /\ BIND_BUTTON_FLAG = 1
    BY <1>9, <2>1, <2>3, ChoiceStored DEF StartDevo, SettingsKept
  <2>4. CASE mode_select # 0 /\ BIND_BUTTON_FLAG = 0
    <3>1. /\ option' = IF eeprom[FixedId(mode_select)] = Fixed(1) THEN 1 ELSE 0
          /\ fixed' = fixed
      BY <1>9, <2>4 DEF StartDevo
    <3>2. mode_select \in Dials /\ fixed[mode_select] \in {0, 1}
      BY <1>0, <2>4 DEF PlainType, SettingsStored
    <3>3. option' = fixed'[mode_select] BY <1>0, <3>1, <3>2 DEF SettingsStored
    <3> QED BY <2>1, <3>3 DEF SettingsKept
  <2> QED BY <1>9, <2>2, <2>3, <2>4 DEF StartDevo
<1>10. ASSUME NEW m \in Models, NEW autobind \in BOOLEAN, StartAFHDS2A(m, autobind)
       PROVE  SettingsKept'
  <2>1. /\ model' = m /\ m.protocol = "AFHDS2A" /\ m.RX_num \in Receivers
        /\ UNCHANGED <<bound, torn>>
        /\ rx_id' = IF binding' THEN rx_id ELSE Read(ReceiverId(m.RX_num))
    BY <1>10 DEF StartAFHDS2A, Start, history, Models
  <2>2. ~binding' => rx_id' = bound'[model'.RX_num] \/ ReceiverId(model'.RX_num) \in torn'
    BY <1>0, <2>1 DEF SettingsStored
  <2> QED BY <2>1, <2>2 DEF SettingsKept
<1> QED
  BY NextCases, <1>2, <1>3, <1>4, <1>5, <1>6, <1>7, <1>8, <1>9, <1>10

-----------------------------------------------------------------------------
(***************************************************************************)
(* The theorems.                                                           *)
(***************************************************************************)
LEMMA InvariantInit == Init => IdentityInvariant
<1> SUFFICES ASSUME Init PROVE IdentityInvariant OBVIOUS
<1>1. TypeOK BY TypeInit
<1>2. WritesInOrder BY DEF Init, WritesInOrder
<1>3. \A a \in Addresses : eeprom[a] = Erased BY DEF Init
<1>4. IdentityStored
  <2>1. ~Marked BY <1>3, InAddresses, BytesDiffer DEF Marked
  <2> QED BY <2>1 DEF Init, IdentityStored
<1>5. SettingsStored
  <2>1. \A n \in Receivers : Read(ReceiverId(n)) = bound[n]
    BY <1>3, InAddresses DEF Read, Init, NoNumber
  <2>2. \A dial \in Dials : eeprom[FixedId(dial)] # Fixed(1) /\ fixed[dial] # 1
    BY <1>3, InAddresses, BytesDiffer DEF Init
  <2> QED BY <2>1, <2>2 DEF Init, SettingsStored
<1>6. SettingsKept BY DEF Init, SettingsKept
<1> QED BY <1>1, <1>2, <1>4, <1>5, <1>6 DEF IdentityInvariant

LEMMA InvariantStep == IdentityInvariant /\ [Next]_vars => IdentityInvariant'
<1> SUFFICES ASSUME IdentityInvariant, [Next]_vars PROVE IdentityInvariant' OBVIOUS
<1>1. CASE Next
  BY <1>1, TypeStep, OrderStep, IdentityStep, SettingsStep, KeptStep DEF IdentityInvariant
<1>2. CASE UNCHANGED vars
  <2> USE <1>2 DEF vars, store, power, session, bounds, history
  <2>1. TypeOK' BY DEF IdentityInvariant, TypeOK, Holds
  <2>2. WritesInOrder' BY DEF IdentityInvariant, WritesInOrder
  <2>3. IdentityStored' BY DEF IdentityInvariant, IdentityStored, Marked, Read
  <2>4. SettingsStored' BY SettingsStill DEF IdentityInvariant
  <2>5. SettingsKept' BY DEF IdentityInvariant, SettingsKept
  <2> QED BY <2>1, <2>2, <2>3, <2>4, <2>5 DEF IdentityInvariant
<1> QED BY <1>1, <1>2

\* The inductive invariant holds: what is read at power-up from the places of
\* random_id, of AFHDS2A's receivers and of the fixed identities is what was
\* stored last, wherever power was lost before.
THEOREM IdentityInvariantHolds == Spec => []IdentityInvariant
<1>1. Init => IdentityInvariant BY InvariantInit
<1>2. IdentityInvariant /\ [Next]_vars => IdentityInvariant' BY InvariantStep
<1> QED BY <1>1, <1>2, PTL DEF Spec

\* AFHDS2A talks to the receiver bound last under its number, and Devo and
\* Walkera fly with the identity chosen last at this position of the dial.
THEOREM SettingsAreKept == Spec => []SettingsKept
<1>1. IdentityInvariant => SettingsKept BY DEF IdentityInvariant
<1> QED BY <1>1, IdentityInvariantHolds, PTL

\* random_id finds the identity it stored, makes another only when none was
\* stored to the end, and changes none while the module runs.
THEOREM IdentityIsKept == Spec => IdentityKept
<1> DEFINE Step ==
      /\ pc = "setup" /\ pc' = "loop" => MProtocol_id_master' = kept \/ TXID \in torn
      /\ pc = "setup" /\ pc' = "create" => kept \in {NoNumber, SEED_0} \/ TXID \in torn
      /\ pc \in {"loop", "renew", "answer"} /\ pc' # "off" =>
           MProtocol_id_master' = MProtocol_id_master
<1>1. ASSUME IdentityInvariant, Next PROVE Step
  <2>1. CASE ReadId
    BY <1>1, <2>1 DEF ReadId, Exists, IdentityInvariant, IdentityStored
  <2>2. CASE CreateId
    BY <1>1, <2>2
       DEF CreateId, Exists, session, Begin, BeginOver, IdentityInvariant, IdentityStored
  <2>3. CASE WriteMark BY <2>3 DEF WriteMark
  <2>4. CASE PowerLost BY <2>4 DEF PowerLost, Off
  <2>5. CASE PowerUp BY <2>5 DEF PowerUp, session
  <2>6. CASE WriteId \/ BindButton \/ ReadAFHDS2A \/ WriteReceiver
    BY <2>6 DEF WriteId, BindButton, ReadAFHDS2A, WriteReceiver, session
  <2>7. ASSUME NEW m \in Models,
               \/ StartOther(m) \/ StartHubsan(m) \/ StartDevo(m)
               \/ \E autobind \in BOOLEAN : StartAFHDS2A(m, autobind)
        PROVE  Step
    BY <2>7 DEF StartOther, StartHubsan, StartDevo, StartAFHDS2A, Start
  <2> QED BY <1>1, NextCases, <2>1, <2>2, <2>3, <2>4, <2>5, <2>6, <2>7
<1>2. IdentityInvariant /\ [Next]_vars => [Step]_vars
  BY <1>1
<1>3. Spec => [][Step]_vars
  BY <1>2, IdentityInvariantHolds, PTL DEF Spec
<1> QED BY <1>3 DEF IdentityKept

===============================================================================
