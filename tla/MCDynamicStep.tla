---------------------------- MODULE MCDynamicStep ----------------------------
(***************************************************************************)
(* Step promises in every mode, and in the mode whose set_step publishes   *)
(* without the lock.                                                       *)
(***************************************************************************)
EXTENDS DynamicStep

ConsumerUnblock == {"consumer", "unblock"}
\* All modes but that one.
OtherModes == DynamicStepPromiseMode \ {ConsumerUnblock}
OnlyConsumerUnblock == {ConsumerUnblock}

OneConsumer == {"c1"}
==============================================================================
