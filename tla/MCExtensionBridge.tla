-------------------------- MODULE MCExtensionBridge --------------------------
(* Instances of ExtensionBridge for TLC: requests no validator looks at,    *)
(* as the agent makes of a manager it may ask.                             *)
EXTENDS ExtensionBridge, TLC

NoTypes == <<>>
Asks == [r \in Requests |-> [group |-> "manager", method |-> "getCredentialsMetadata"]]
=============================================================================
