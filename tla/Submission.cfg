\* Every transaction type through suggestedFee, signing and issueTx; the
\* run stops after issueTx (nothing follows it on this path).
CONSTANTS
    Inputs <- MCInputs
    Stamp <- MCStamp
SPECIFICATION Spec
INVARIANT IssuedAsDecoded
CHECK_DEADLOCK FALSE
