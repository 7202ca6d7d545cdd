-------------------------- MODULE ServiceParameters --------------------------
(* The parameters of the service that a submission names: the fees and the    *)
(* gas price expected at worst.  ChainConfigurations keeps the current value  *)
(* of each, the one before and the time of the change; validateParameters     *)
(* (common/src/utils/index.ts) accepts the one before for a while.            *)
EXTENDS Integers

CONSTANTS
    Nothing,      \* undefined, or SQL NULL
    Delay,        \* how long the previous value is accepted: 60 * 24 seconds
    DefaultFees   \* fees of a chain for which none have been set

ASSUME DelayAssumption == Delay \in Nat
ASSUME DefaultAssumption == DefaultFees # Nothing

(* An UpdateableParameter.                                                    *)
Updateable(values) ==
    [current : values, previous : values \cup {Nothing}, update : Nat]

(* fees in getServiceParameters.                                              *)
FeesOfService(stored) ==
    IF stored = Nothing THEN [current |-> DefaultFees, previous |-> Nothing, update |-> 0]
                        ELSE stored

(* One key of getRemoteAccount: what a client is told to submit.              *)
Told(allowed) == IF allowed = Nothing THEN Nothing ELSE allowed.current

(* One key of validateParameters.  A submission that lacks the key passes.    *)
(* Mutant: the value before is accepted for ever.                             *)
AcceptsForEver(given, allowed, time) ==
    given # Nothing => allowed # Nothing /\ given \in {allowed.current, allowed.previous}

Accepts(given, allowed, time) ==
    given # Nothing =>
        /\ allowed # Nothing
        /\ \/ given = allowed.current
           \/ given = allowed.previous /\ time < allowed.update + Delay

(* updateFees and updateExpectedWorstCaseGasPrice.  Mutant: the value before  *)
(* is kept as the one before.                                                 *)
UpdatedAlone(stored, value, time) ==
    [current |-> value,
     previous |-> IF stored = Nothing THEN Nothing ELSE stored.previous,
     update |-> time]

Updated(stored, value, time) ==
    [current |-> value, previous |-> Told(stored), update |-> time]
=============================================================================
