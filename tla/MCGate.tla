------------------------------- MODULE MCGate -------------------------------
EXTENDS Gate, TLC

CONSTANTS p1, p2, phone, laptop, school, asha

\* A student presses on a phone and on a laptop behind one address.
PressDevice == p1 :> phone @@ p2 :> laptop
PressAddress == [p \in Press |-> school]
DeviceOwner == [d \in Device |-> asha]

BackoffTicks == <<1>>

=============================================================================
