-------------------------------- MODULE Identity --------------------------------
(***************************************************************************)
(* What the module remembers from one power-up to the next, in EEPROM: the *)
(* transmitter's identity (random_id), for each receiver number of AFHDS2A *)
(* the receiver bound last, and for each position of the dial whether Devo *)
(* and Walkera fly with a fixed identity.                                  *)
(*                                                                         *)
(* Bytes are written one at a time, and power may be lost between any two  *)
(* of them; a byte is written whole or not at all.                         *)
(***************************************************************************)
EXTENDS Integers, Sequences

CONSTANTS
  BYTES,         \* Of an identity: 4.
  Receivers,     \* The receiver numbers (RX_num) in use.
  Dials,         \* The positions of the dial for PPM; 0 is MODE_SERIAL.
  PPM_prot,      \* The model at each of them.
  MaxCreated,    \* Bound: identities that are created, and
  MaxAnswers     \* receivers that answer.

Protocols == {"HUBSAN", "AFHDS2A", "DEVO", "OTHER"}      \* WK2x01 does as DEVO.
Models == [protocol : Protocols, RX_num : Receivers]

ASSUME IdentityAssumption ==
  /\ BYTES \in 1 .. 4 /\ Receivers \subseteq 0 .. 15
  /\ Dials \subseteq 1 .. 15 /\ PPM_prot \in [Dials -> Models]
  /\ MaxCreated \in Nat /\ MaxAnswers \in Nat

VARIABLES
  eeprom,
  pc,
  mode_select, BIND_BUTTON_FLAG,
  MProtocol_id_master,
  model, option,         \* The protocol that runs, and its option.
  id, i,                 \* The number being stored, what of it is still to be
                         \* written, and how many bytes were.
  rx_id, binding,        \* AFHDS2A: its receiver, or it still looks for one.
  created, answers,      \* Identities made so far, receivers that answered.
  made,                  \* The identity being stored,
  kept,                  \* the one stored last,
  bound, fixed,          \* the receiver bound last under each number, what the
                         \* pilot chose last at each dial, and
  torn                   \* which of these were being replaced when power was lost.

store   == <<id, i, made>>
power   == <<mode_select, BIND_BUTTON_FLAG>>
session == <<MProtocol_id_master, model, option, rx_id, binding>>
bounds  == <<created, answers>>
history == <<kept, bound, fixed, torn>>
vars == <<eeprom, pc, store, power, session, bounds, history>>

----------------------------------------------------------------------------
(***************************************************************************)
(* An identity is the tuple of its bytes, the lowest first.  The one that  *)
(* random makes when its seed is 0 is known.                               *)
(***************************************************************************)
Number(kind, n) == [k \in 1 .. BYTES |-> <<kind, n, k>>]
ZeroByte == <<"zero", 0, 0>>
Erased   == <<"erased", 0, 0>>
Mark     == <<"mark", 0, 0>>               \* 0xf0
Fixed(o) == <<"option", o, 0>>
Zero     == [k \in 1 .. BYTES |-> ZeroByte]
NoNumber == [k \in 1 .. BYTES |-> Erased]
SEED_0   == Number("id", 0)                \* 0x2AD141A7
NoModel  == [protocol |-> "NONE", RX_num |-> 0]

TXID == 10
MARK == TXID + 10
FixedIdByNumber(dial) == 30 + PPM_prot[dial].RX_num
FixedId(dial) == 30 + dial
ReceiverUnscaled(RX_num) == 50 + RX_num
ReceiverId(RX_num) == 50 + RX_num * 4
Places(address) == address .. address + BYTES - 1
Addresses ==
  Places(TXID) \cup {MARK} \cup {FixedId(dial) : dial \in Dials}
  \cup UNION {Places(ReceiverId(n)) : n \in Receivers}
Read(address) == [k \in 1 .. BYTES |-> eeprom[address + k - 1]]
Write(address, byte) == eeprom' = [eeprom EXCEPT ![address] = byte]

----------------------------------------------------------------------------
(***************************************************************************)
(* Power, and setup.                                                       *)
(***************************************************************************)
PowerUp ==
  /\ pc = "off" /\ pc' = "setup"
  /\ mode_select' \in Dials \cup {0} /\ BIND_BUTTON_FLAG' \in {0, 1}
  /\ UNCHANGED <<eeprom, store, session, bounds, history>>

Off ==
  /\ id' = NoNumber /\ i' = 0 /\ made' = NoNumber
  /\ mode_select' = 0 /\ BIND_BUTTON_FLAG' = 0
  /\ MProtocol_id_master' = Zero /\ model' = NoModel /\ option' = 0
  /\ rx_id' = NoNumber /\ binding' = FALSE
PowerLost ==
  /\ pc # "off" /\ pc' = "off" /\ Off
  /\ UNCHANGED <<eeprom, bounds, history>>

Marked == eeprom[MARK] = Mark
Exists == Marked /\ Read(TXID) # SEED_0
ReadId ==
  /\ pc = "setup" /\ Exists
  /\ MProtocol_id_master' = Read(TXID) /\ pc' = "loop"
  /\ UNCHANGED <<eeprom, store, power, model, option, rx_id, binding, bounds, history>>

----------------------------------------------------------------------------
(***************************************************************************)
(* random_id, the part that makes a new identity: for setup, or for Hubsan.*)
(***************************************************************************)
\* What random returns: something new or, when its seed is 0, always the same.
Random == {Number("id", created + 1), SEED_0}
BeginOver(memory, step) ==
  /\ created < MaxCreated /\ created' = created + 1
  /\ made' \in Random /\ id' = made' /\ i' = 0
  /\ pc' = step /\ eeprom' = memory
  /\ torn' = IF Marked THEN torn \cup {TXID} ELSE torn
  /\ UNCHANGED <<answers, kept, bound, fixed>>
BeginMarked(step) == BeginOver([eeprom EXCEPT ![MARK] = Mark], step)
Begin(step) == BeginOver(eeprom, step)

CreateId ==
  /\ pc = "setup" /\ ~Exists /\ Begin("create")
  /\ UNCHANGED <<power, session>>
WriteId ==
  /\ pc \in {"create", "renew"} /\ i < BYTES
  /\ Write(TXID + i, Head(id)) /\ id' = Append(Tail(id), ZeroByte) /\ i' = i + 1
  /\ UNCHANGED <<pc, made, power, session, bounds, history>>
WriteMark ==
  /\ pc \in {"create", "renew"} /\ i = BYTES
  /\ Write(MARK, Mark) /\ i' = 0
  /\ kept' = made /\ torn' = torn \ {TXID}
  /\ MProtocol_id_master' = IF pc = "create" THEN id ELSE MProtocol_id_master
  /\ pc' = "loop"
  /\ UNCHANGED <<id, made, power, model, option, rx_id, binding, bounds, bound, fixed>>

----------------------------------------------------------------------------
(***************************************************************************)
(* protocol_init: of the dial's model, or of any that frames select.       *)
(***************************************************************************)
Selected(m) == IF mode_select = 0 THEN m \in Models ELSE m = PPM_prot[mode_select]
Start(m) ==
  /\ pc = "loop" /\ Selected(m) /\ model' = m
  /\ UNCHANGED <<mode_select, MProtocol_id_master>>

\* Nothing of it is stored; or only when it binds.
StartOther(m) ==
  /\ m.protocol = "OTHER" /\ Start(m) /\ BIND_BUTTON_FLAG' = 0
  /\ UNCHANGED <<eeprom, pc, store, option, rx_id, binding, bounds, history>>
StartAFHDS2A(m, autobind) ==
  /\ m.protocol = "AFHDS2A" /\ Start(m) /\ BIND_BUTTON_FLAG' = 0
  /\ binding' = (autobind \/ BIND_BUTTON_FLAG = 1)
  /\ rx_id' = IF binding' THEN rx_id ELSE Read(ReceiverId(m.RX_num))
  /\ UNCHANGED <<eeprom, pc, store, option, bounds, history>>

\* With the bind button held at power-up Hubsan makes a new identity, for the
\* next power-up.
StartHubsan(m) ==
  /\ m.protocol = "HUBSAN" /\ Start(m) /\ BIND_BUTTON_FLAG' = 0
  /\ UNCHANGED <<option, rx_id, binding>>
  /\ \/ BIND_BUTTON_FLAG = 1 /\ Begin("renew")
     \/ BIND_BUTTON_FLAG = 0 /\ UNCHANGED <<eeprom, pc, store, bounds, history>>

StartDevo(m) ==
  /\ m.protocol = "DEVO" /\ Start(m) /\ BIND_BUTTON_FLAG' = 0
  /\ \/ /\ mode_select = 0
        /\ option' \in {0, 1} /\ UNCHANGED <<eeprom, fixed>>
     \/ /\ mode_select # 0 /\ BIND_BUTTON_FLAG = 1
        /\ Write(FixedId(mode_select), Fixed(0)) /\ option' = 0
        /\ fixed' = [fixed EXCEPT ![mode_select] = 0]
     \/ /\ mode_select # 0 /\ BIND_BUTTON_FLAG = 0
        /\ option' = IF eeprom[FixedId(mode_select)] = Fixed(1) THEN 1 ELSE 0
        /\ UNCHANGED <<eeprom, fixed>>
  /\ UNCHANGED <<pc, store, rx_id, binding, bounds, kept, bound, torn>>

----------------------------------------------------------------------------
(***************************************************************************)
(* Callbacks: the bind button while Devo flies, and a receiver's answer.   *)
(***************************************************************************)
BindButton ==
  /\ pc = "loop" /\ model.protocol = "DEVO" /\ mode_select # 0 /\ option = 0
  /\ Write(FixedId(mode_select), Fixed(1)) /\ option' = 1
  /\ fixed' = [fixed EXCEPT ![mode_select] = 1]
  /\ UNCHANGED <<pc, store, power, MProtocol_id_master, model, rx_id, binding, bounds,
                 kept, bound, torn>>

ReadAFHDS2A ==
  /\ pc = "loop" /\ model.protocol = "AFHDS2A" /\ binding /\ answers < MaxAnswers
  /\ answers' = answers + 1
  /\ rx_id' = Number("rx", answers + 1) /\ i' = 0 /\ pc' = "answer"
  /\ torn' = torn \cup {ReceiverId(model.RX_num)}
  /\ UNCHANGED <<eeprom, id, made, power, MProtocol_id_master, model, option, binding, created,
                 kept, bound, fixed>>
WriteReceiver ==
  /\ pc = "answer" /\ Write(ReceiverId(model.RX_num) + i, rx_id[i + 1])
  /\ IF i + 1 < BYTES
     THEN i' = i + 1 /\ UNCHANGED <<pc, binding, bound, torn>>
     ELSE /\ i' = 0 /\ pc' = "loop" /\ binding' = FALSE
          /\ bound' = [bound EXCEPT ![model.RX_num] = rx_id]
          /\ torn' = torn \ {ReceiverId(model.RX_num)}
  /\ UNCHANGED <<id, made, power, MProtocol_id_master, model, option, rx_id, bounds, kept, fixed>>

----------------------------------------------------------------------------
Init ==
  /\ eeprom = [a \in Addresses |-> Erased] /\ pc = "off"
  /\ id = NoNumber /\ i = 0 /\ made = NoNumber
  /\ mode_select = 0 /\ BIND_BUTTON_FLAG = 0
  /\ MProtocol_id_master = Zero /\ model = NoModel /\ option = 0
  /\ rx_id = NoNumber /\ binding = FALSE
  /\ created = 0 /\ answers = 0 /\ kept = NoNumber
  /\ bound = [n \in Receivers |-> NoNumber] /\ fixed = [d \in Dials |-> 0] /\ torn = {}

protocol_init ==
  \E m \in Models :
    \/ StartOther(m) \/ StartHubsan(m) \/ StartDevo(m)
    \/ \E autobind \in BOOLEAN : StartAFHDS2A(m, autobind)
Next ==
  \/ PowerUp \/ PowerLost \/ ReadId \/ CreateId \/ WriteId \/ WriteMark
  \/ protocol_init \/ BindButton \/ ReadAFHDS2A \/ WriteReceiver
Spec == Init /\ [][Next]_vars

----------------------------------------------------------------------------
\* Type correctness; and each store keeps to its place: in the identity's there
\* are bytes of identities, in the receivers' of receivers, each in its order.
Holds(address, kind) ==
  \A k \in 1 .. BYTES : LET byte == eeprom[address + k - 1]
                        IN byte = Erased \/ (byte[1] = kind /\ byte[3] = k)
TypeOK ==
  /\ DOMAIN eeprom = Addresses /\ pc \in {"off", "setup", "create", "renew", "loop", "answer"}
  /\ i \in 0 .. BYTES /\ mode_select \in Dials \cup {0} /\ BIND_BUTTON_FLAG \in {0, 1}
  /\ model \in Models \cup {NoModel} /\ option \in {0, 1} /\ binding \in BOOLEAN
  /\ created \in 0 .. MaxCreated /\ answers \in 0 .. MaxAnswers
  /\ torn \subseteq {TXID} \cup {ReceiverId(n) : n \in Receivers}
  /\ Holds(TXID, "id") /\ \A n \in Receivers : Holds(ReceiverId(n), "rx")

\* An identity that was stored is the one used at every later power-up, whole,
\* however often power was lost while it was first stored, until Hubsan, started
\* with the bind button, stores another (power lost in between leaves a mixture);
\* none is made while there is one; and none changes while the module runs.
\* What the session uses that made it is FirstIdentityIsUsed.
IdentityKept ==
  [][ /\ pc = "setup" /\ pc' = "loop" => MProtocol_id_master' = kept \/ TXID \in torn
      /\ pc = "setup" /\ pc' = "create" => kept \in {NoNumber, SEED_0} \/ TXID \in torn
      /\ pc \in {"loop", "renew", "answer"} /\ pc' # "off" =>
           MProtocol_id_master' = MProtocol_id_master ]_vars

\* The identity generated at first power-up is the one in use, in that session
\* as in the later ones (README-old.md:100, of random_id).  It does not hold: the
\* session that generates the identity runs with 0.
FirstIdentityIsUsed == pc = "loop" /\ created = 1 => MProtocol_id_master = kept

\* AFHDS2A started without binding talks to the receiver bound last under its
\* number, whatever was bound under the others (when that was stored to the
\* end); Devo flies with a fixed identity where the pilot chose so last, at this
\* position of the dial.
SettingsKept ==
  pc = "loop" =>
    /\ model.protocol = "AFHDS2A" /\ ~binding =>
         rx_id = bound[model.RX_num] \/ ReceiverId(model.RX_num) \in torn
    /\ model.protocol = "DEVO" /\ mode_select # 0 => option = fixed[mode_select]

----------------------------------------------------------------------------
(***************************************************************************)
(* Why these hold.                                                         *)
(***************************************************************************)
\* While a number is written, the bytes before i are in their place, and what
\* is being replaced is recorded; id is what is left of an identity.
WritesInOrder ==
  /\ pc \in {"off", "setup", "create"} => model = NoModel
  /\ pc \in {"create", "renew"} =>
       /\ \E n \in 0 .. MaxCreated : made = Number("id", n)
       /\ id = [k \in 1 .. BYTES |-> IF k + i <= BYTES THEN made[k + i] ELSE ZeroByte]
       /\ \A k \in 1 .. BYTES : k <= i => eeprom[TXID + k - 1] = made[k]
  /\ pc = "renew" => model.protocol = "HUBSAN"
  /\ pc = "answer" =>
       /\ model.protocol = "AFHDS2A" /\ i < BYTES
       /\ \E n \in 1 .. MaxAnswers : rx_id = Number("rx", n)
       /\ ReceiverId(model.RX_num) \in torn
       /\ \A k \in 1 .. BYTES : k <= i => eeprom[ReceiverId(model.RX_num) + k - 1] = rx_id[k]

\* A marked identity is the one kept, unless another is, or was, being stored
\* over it; without the mark none was ever kept.
IdentityStored ==
  /\ pc \in {"loop", "renew", "answer"} => Marked
  /\ ~Marked => kept = NoNumber /\ TXID \notin torn
  /\ Marked /\ TXID \notin torn =>
       Read(TXID) = kept /\ pc \notin {"create", "renew"}

\* The receivers and the choices stored are the last ones.
SettingsStored ==
  /\ DOMAIN bound = Receivers /\ fixed \in [Dials -> {0, 1}]
  /\ \A n \in Receivers : ReceiverId(n) \in torn \/ Read(ReceiverId(n)) = bound[n]
  /\ \A dial \in Dials : eeprom[FixedId(dial)] = Fixed(1) <=> fixed[dial] = 1

\* The inductive invariant.
IdentityInvariant ==
  TypeOK /\ WritesInOrder /\ IdentityStored /\ SettingsStored /\ SettingsKept
=============================================================================
