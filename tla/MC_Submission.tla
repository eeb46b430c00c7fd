--------------------------- MODULE MC_Submission ---------------------------
(* One Input per transaction type Decode and ParseTypedData name (set and  *)
(* transfer excepted: their transaction types are not in the repository),  *)
(* every field holding a value of its own, distinct from the zero value.   *)
EXTENDS Submission

MCTypes == {"stake", "unstake", "addUser", "govern", "proof", "claim", "register",
            "refresh", "withdrawn", "vote", "proposal"}

MCInputFields == {"StakerType", "StakerAddr", "StakeAmount", "RewardAmount", "ActionID",
                  "LocalIP", "MinPort", "MaxPort", "PublicIP", "CheckPort", "Netflow",
                  "StartTime", "EndTime", "Ser", "NewValue", "Country", "WorkKey", "Key"}

\* A value of its own for every Input field.
MCValue ==
    [StakerType |-> "vStakerType", StakerAddr |-> "vStakerAddr", StakeAmount |-> "vStakeAmount",
     RewardAmount |-> "vRewardAmount", ActionID |-> "vActionID", LocalIP |-> "vLocalIP",
     MinPort |-> "vMinPort", MaxPort |-> "vMaxPort", PublicIP |-> "vPublicIP",
     CheckPort |-> "vCheckPort", Netflow |-> "vNetflow", StartTime |-> "vStartTime",
     EndTime |-> "vEndTime", Ser |-> "vSer", NewValue |-> "vNewValue",
     Country |-> "vCountry", WorkKey |-> "vWorkKey", Key |-> "vKey"]

MCInputs == { [x \in MCInputFields |-> MCValue[x]] @@ ("Typ" :> t) : t \in MCTypes }

MCStamp == [BlockID |-> "b1", Magic |-> "m1", Price |-> "p1"]
=============================================================================
