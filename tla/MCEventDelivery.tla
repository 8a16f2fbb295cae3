-------------------------- MODULE MCEventDelivery --------------------------
(***************************************************************************)
(* Instances of EventDelivery for TLC.                                     *)
(***************************************************************************)
EXTENDS EventDelivery, TLC

CONSTANT inbox

\* Both OTP events are about one address.
OneAddress == [e \in OtpEvents |-> inbox]

\* Deliveries of the same event differ in nothing, nor do OTP events of one address.
DeliverySymmetry ==
    {f @@ g : f \in Permutations(Deliveries), g \in Permutations(OtpEvents)}
=============================================================================
