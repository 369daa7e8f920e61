--------------------------- MODULE MCVaultServer ---------------------------
(***************************************************************************)
(* Instances of VaultServer for TLC.  The views leave out what an instance *)
(* does not ask about: the event rows and their counter, which no handler  *)
(* decides by, and the two history variables.                              *)
(***************************************************************************)
EXTENDS VaultStore

AuthOperations ==
  {"vault_creation", "enrollment_request", "enrollment_approval",
   "device_revocation", "record_list"}

InvitationOperations ==
  {"vault_creation", "invitation_creation", "invitation_list",
   "invitation_status", "invitation_approval", "invitation_rejection",
   "invitation_cancellation", "enrollment_approval", "device_revocation"}

DataOperations ==
  {"vault_creation", "enrollment_request", "enrollment_approval",
   "enrollment_status", "enrollment_list", "device_list", "device_revocation",
   "record_list", "record_update", "object_list", "object_read",
   "object_update", "object_delete", "event_list"}

Timestamps == 0..(MaxSec + TimestampWindow)

StateView == <<clockVars, accountVars, dataVars, nonces>>
=============================================================================
