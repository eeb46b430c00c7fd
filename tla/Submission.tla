----------------------------- MODULE Submission -----------------------------
(***************************************************************************)
(* The typed-data submission path of samavm (vm/public_service.go,        *)
(* client/client.go, src/chain/decoder.go and the TypedData methods of the *)
(* transactions).  A client sends an Input to samavm.suggestedFee, which  *)
(* Decodes it into a transaction, stamps its BaseTx (block id, magic,     *)
(* price) and returns tx.TypedData(); the client signs that typed data    *)
(* and sends it to samavm.issueTx, which rebuilds the transaction with    *)
(* ParseTypedData and submits it.                                         *)
(*                                                                         *)
(* Field values are abstract.  Every conversion is modelled by what it    *)
(* does to a value: FormatUint, Hex and String turn it into a text of one *)
(* kind (decimal, hex, cb58), and only the matching parser (ParseUint,    *)
(* HexToAddress, ShortFromString, FromString) reads the value back.       *)
(***************************************************************************)
EXTENDS Naturals, FiniteSets, TLC

CONSTANTS
    Inputs,    \* the chain.Input records a client may send
    Stamp      \* the BaseTx suggestedFee sets: [BlockID, Magic, Price]

\* The zero value of every field type, and the outcome of a failed parse.
Zero == "zero"
Err == "error"
Garbled == "garbled"

\* The Go type of every transaction field (the Input struct and the
\* transaction structs agree on them).
FieldType ==
    [x \in {"StakerType", "StakeAmount", "RewardAmount", "EndTime", "StartTime",
            "MinPort", "MaxPort", "CheckPort", "Netflow", "ActionType", "PayAmount",
            "Connections", "UserType", "Magic", "Price"} |-> "uint64"]
    @@ [x \in {"StakerAddr", "Ser", "Address"} |-> "address"]
    @@ [x \in {"Country", "LocalIP", "PublicIP", "WorkKey", "Key", "NewValue"} |-> "string"]
    @@ ("ActionID" :> "shortID") @@ ("BlockID" :> "id")

Fields == DOMAIN FieldType
BaseFields == {"BlockID", "Magic", "Price"}

-----------------------------------------------------------------------------
(* Input.Decode: the fields each case copies from the Input (always under  *)
(* the same name).  The Vote case builds its VoteTx without a BaseTx.      *)

DecodeFields ==
    [stake    |-> {"StakerType", "StakeAmount", "StakerAddr"},
     unstake  |-> {"StakerType", "RewardAmount"},
     register |-> {"ActionID", "StakerType", "Country", "WorkKey", "LocalIP", "MinPort",
                   "MaxPort", "PublicIP", "CheckPort", "StakerAddr"},
     refresh  |-> {"Country", "WorkKey", "LocalIP", "MinPort", "MaxPort", "PublicIP", "CheckPort"},
     proof    |-> {"Netflow", "StartTime", "EndTime", "Ser"},
     govern   |-> {"ActionID"},
     claim    |-> {"RewardAmount", "EndTime"},
     vote     |-> {"ActionID"},
     proposal |-> {"ActionID", "Key", "NewValue", "StartTime", "EndTime"}]

\* Decode returns ErrInvalidType for any other type.
Decodable(i) == i.Typ \in DOMAIN DecodeFields

\* The transaction Decode builds; hasBase is FALSE when its BaseTx is nil.
Decode(i) ==
    [kind    |-> i.Typ,
     hasBase |-> i.Typ # "vote",
     base    |-> [x \in BaseFields |-> Zero],
     f       |-> [x \in Fields \ BaseFields |->
                    IF x \in DecodeFields[i.Typ] THEN i[x] ELSE Zero]]

-----------------------------------------------------------------------------
(* TypedData(): the primary type and, per message key, the field written. *)
(* Every transaction also writes price and blockID.                       *)

BaseKeys == ("price" :> "Price") @@ ("blockID" :> "BlockID")

StakeTypedData ==
    [primary |-> "stake",
     keys |-> ("stakerAddr" :> "StakerAddr") @@ ("stakerType" :> "StakerType")
              @@ ("stakeAmount" :> "StakeAmount") @@ BaseKeys]

UnStakeTypedData ==
    [primary |-> "unstake",
     keys |-> ("stakerType" :> "StakerType") @@ ("stakeAmount" :> "RewardAmount") @@ BaseKeys]

RegisterTypedData ==
    [primary |-> "register",
     keys |-> ("actionID" :> "ActionID") @@ ("stakerType" :> "StakerType")
              @@ ("country" :> "Country") @@ ("workKey" :> "WorkKey")
              @@ ("localIP" :> "LocalIP") @@ ("minPort" :> "MinPort")
              @@ ("maxPort" :> "MaxPort") @@ ("publicIP" :> "PublicIP")
              @@ ("checkPort" :> "CheckPort") @@ ("stakerAddr" :> "StakerAddr") @@ BaseKeys]

RefreshTypedData ==
    [primary |-> "refresh",
     keys |-> ("country" :> "Country") @@ ("workKey" :> "WorkKey")
              @@ ("localIP" :> "LocalIP") @@ ("minPort" :> "MinPort")
              @@ ("maxPort" :> "MaxPort") @@ ("publicIP" :> "PublicIP")
              @@ ("checkPort" :> "CheckPort") @@ BaseKeys]

ProofTypedData ==
    [primary |-> "proof",
     keys |-> ("ser" :> "Ser") @@ ("startTime" :> "StartTime") @@ ("endTime" :> "EndTime")
              @@ ("netflow" :> "Netflow") @@ BaseKeys]

GovernTypedData == [primary |-> "govern", keys |-> ("actionID" :> "ActionID") @@ BaseKeys]

ClaimTypedData ==
    [primary |-> "claim",
     keys |-> ("reward" :> "RewardAmount") @@ ("endTime" :> "EndTime") @@ BaseKeys]

WithdrawnTypedData == [primary |-> "withdrawn", keys |-> ("actionID" :> "ActionID") @@ BaseKeys]

\* VoteTx.TypedData names its primary type Govern.
VoteTypedData == [primary |-> "govern", keys |-> ("actionID" :> "ActionID") @@ BaseKeys]

ProposalTypedData ==
    [primary |-> "proposal",
     keys |-> ("actionID" :> "ActionID") @@ ("key" :> "Key") @@ ("newValue" :> "NewValue")
              @@ ("startTime" :> "StartTime") @@ ("endTime" :> "EndTime")
              @@ ("actionType" :> "ActionType") @@ BaseKeys]

AddUserTypedData ==
    [primary |-> "addUser",
     keys |-> ("address" :> "Address") @@ ("startTime" :> "StartTime")
              @@ ("endTime" :> "EndTime") @@ ("stakeAmount" :> "PayAmount")
              @@ ("userType" :> "UserType") @@ ("connections" :> "Connections") @@ BaseKeys]

TypedDataOf ==
    [stake |-> StakeTypedData, unstake |-> UnStakeTypedData, register |-> RegisterTypedData,
     refresh |-> RefreshTypedData, proof |-> ProofTypedData, govern |-> GovernTypedData,
     claim |-> ClaimTypedData, withdrawn |-> WithdrawnTypedData, vote |-> VoteTypedData,
     proposal |-> ProposalTypedData, addUser |-> AddUserTypedData]

\* strconv.FormatUint, Address.Hex, ShortID.String and ID.String; strings
\* are written as they are.
TextKind == [uint64 |-> "decimal", address |-> "hex", shortID |-> "cb58", id |-> "cb58",
             string |-> "raw"]
Format(x, v) == [text |-> TextKind[FieldType[x]], v |-> v]

FieldOf(tx, x) == IF x \in BaseFields THEN tx.base[x] ELSE tx.f[x]

\* tdata.CreateTypedData (not part of this repository) keeps the magic in
\* the domain, in decimal.
TypedData(tx) ==
    LET t == TypedDataOf[tx.kind] IN
    [primary |-> t.primary,
     magic   |-> Format("Magic", tx.base.Magic),
     message |-> [k \in DOMAIN t.keys |-> Format(t.keys[k], FieldOf(tx, t.keys[k]))]]

-----------------------------------------------------------------------------
(* ParseTypedData: per primary type, the message key each field is read   *)
(* from.  There is no case for addUser or withdrawn.                      *)

ParseKeys ==
    [stake    |-> ("StakerAddr" :> "stakerAddr") @@ ("StakerType" :> "stakerType")
                  @@ ("StakeAmount" :> "stakeAmount"),
     unstake  |-> ("StakerType" :> "stakerType") @@ ("RewardAmount" :> "stakeAmount")
                  @@ ("EndTime" :> "endTime"),
     register |-> ("ActionID" :> "actionID") @@ ("LocalIP" :> "localIP")
                  @@ ("Country" :> "country") @@ ("WorkKey" :> "workKey")
                  @@ ("MinPort" :> "minPort") @@ ("MaxPort" :> "maxPort")
                  @@ ("PublicIP" :> "publicIP") @@ ("CheckPort" :> "checkPort")
                  @@ ("StakerType" :> "stakerType") @@ ("StakerAddr" :> "stakerAddr"),
     refresh  |-> ("LocalIP" :> "localIP") @@ ("Country" :> "country")
                  @@ ("WorkKey" :> "workKey") @@ ("MinPort" :> "minPort")
                  @@ ("MaxPort" :> "maxPort") @@ ("PublicIP" :> "publicIP")
                  @@ ("CheckPort" :> "checkPort"),
     proof    |-> ("Netflow" :> "netflow") @@ ("StartTime" :> "startTime")
                  @@ ("EndTime" :> "endTime") @@ ("Ser" :> "ser"),
     govern   |-> ("ActionID" :> "actionID"),
     proposal |-> ("ActionID" :> "actionID") @@ ("Key" :> "key") @@ ("NewValue" :> "newValue")
                  @@ ("StartTime" :> "startTime") @@ ("EndTime" :> "endTime"),
     claim    |-> ("RewardAmount" :> "stakeAmount") @@ ("EndTime" :> "endTime"),
     vote     |-> ("ActionID" :> "actionID")]

\* Reading field x from message key k: a missing key is
\* ErrTypedDataKeyMissing; ParseUint and ids.FromString fail on any other
\* text; ShortFromString's error is ignored (zero id); HexToAddress never
\* fails and a string is taken as written, both giving some other value
\* (Garbled) from a text of the wrong kind.
ParseText(x, t) ==
    CASE FieldType[x] = "uint64"  -> IF t.text = "decimal" THEN t.v ELSE Err
      [] FieldType[x] = "id"      -> IF t.text = "cb58" THEN t.v ELSE Err
      [] FieldType[x] = "shortID" -> IF t.text = "cb58" THEN t.v ELSE Zero
      [] FieldType[x] = "address" -> IF t.text = "hex" THEN t.v ELSE Garbled
      [] FieldType[x] = "string"  -> IF t.text = "raw" THEN t.v ELSE Garbled

ParseField(msg, k, x) == IF k \in DOMAIN msg THEN ParseText(x, msg[k]) ELSE Err

\* parseBaseTx: blockID, the domain's magic, price.
ParseBaseTx(td) ==
    [BlockID |-> ParseField(td.message, "blockID", "BlockID"),
     Magic   |-> ParseText("Magic", td.magic),
     Price   |-> ParseField(td.message, "price", "Price")]

\* ParseTypedData returns an error: parseBaseTx fails, the primary type
\* has no case (ErrInvalidType), or a field of its case fails.
ParseFails(td) ==
    \/ \E x \in BaseFields : ParseBaseTx(td)[x] = Err
    \/ td.primary \notin DOMAIN ParseKeys
    \/ \E x \in DOMAIN ParseKeys[td.primary] :
          ParseField(td.message, ParseKeys[td.primary][x], x) = Err

\* The transaction ParseTypedData builds when it does not fail.
ParseTypedData(td) ==
    LET P == ParseKeys[td.primary] IN
    [kind    |-> td.primary,
     hasBase |-> TRUE,
     base    |-> ParseBaseTx(td),
     f       |-> [x \in Fields \ BaseFields |->
                    IF x \in DOMAIN P THEN ParseField(td.message, P[x], x) ELSE Zero]]

-----------------------------------------------------------------------------
(* The client and the two handlers.                                        *)

VARIABLES
    input,   \* the Input the client sent
    phase,   \* idle, rejected, panicked, suggested, refused or issued
    td,      \* the typed data suggestedFee returned
    issued   \* the transaction issueTx submitted

vars == <<input, phase, td, issued>>

\* suggestedFee stamps the decoded transaction with the last accepted
\* block, the genesis magic and the price.
Stamped(u) == [u EXCEPT !.base = Stamp]

\* PublicService.SuggestedFee and client.SuggestedFee: an Input Decode
\* does not know is refused; a transaction without a BaseTx dereferences
\* nil when the handler stamps it (SetBlockID) and in TypedData (v.Magic),
\* and the handler panics.
SuggestedFee ==
    /\ phase = "idle"
    /\ \/ ~Decodable(input) /\ phase' = "rejected" /\ UNCHANGED td
       \/ Decodable(input) /\ ~Decode(input).hasBase /\ phase' = "panicked" /\ UNCHANGED td
       \/ Decodable(input) /\ Decode(input).hasBase
          /\ td' = TypedData(Stamped(Decode(input))) /\ phase' = "suggested"
    /\ UNCHANGED <<input, issued>>

\* The client signs td unchanged; PublicService.IssueTx and client.IssueTx
\* parse it back and submit the result (the checks Submit makes are those
\* of the Governance and Settlement modules).
IssueTx ==
    /\ phase = "suggested"
    /\ \/ ParseFails(td) /\ phase' = "refused" /\ UNCHANGED issued
       \/ ~ParseFails(td) /\ issued' = ParseTypedData(td) /\ phase' = "issued"
    /\ UNCHANGED <<input, td>>

Init ==
    /\ input \in Inputs
    /\ phase = "idle"
    /\ td = Zero
    /\ issued = Zero

Next == SuggestedFee \/ IssueTx

Spec == Init /\ [][Next]_vars

-----------------------------------------------------------------------------
(* Properties                                                               *)

\* client.go says SuggestedFee "returns the input as TypedData" and IssueTx
\* "issues a human-readable transaction": an Input that Decode accepts is
\* issued, and issued as the transaction it decodes to, stamped by
\* suggestedFee; neither handler fails on what the other produced.
IssuedAsDecoded ==
    /\ phase \notin {"panicked", "refused"}
    /\ phase = "issued" => issued = Stamped(Decode(input))
=============================================================================
