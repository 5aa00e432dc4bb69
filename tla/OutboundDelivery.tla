---------------------------- MODULE OutboundDelivery ----------------------------
(***************************************************************************)
(* The delivery-state policy of an outbound WhatsApp message: the state    *)
(* kept in Message.rawPayload.delivery, what the transport throws when a   *)
(* send does not succeed, and what the delivery services conclude from it. *)
(*                                                                         *)
(* Sources: services/automaticOutboundDeliveryService.js,                  *)
(*          services/manualOutboundDeliveryService.js,                     *)
(*          infrastructure/transport/whatsappClient.js.                    *)
(***************************************************************************)

\* "NONE" stands for "no outbound row exists yet".
DeliveryState == {"NONE", "SENDING", "SENT", "FAILED", "UNKNOWN"}

\* A row in one of these states forbids another automatic send of its key.
BlockingStates == {"SENDING", "SENT", "UNKNOWN"}

\* Faulty variant: only a SENT row forbids another send.
CanBlockDuplicateSentOnly(state) == state = "SENT"

CanBlockDuplicate(state) == state \in BlockingStates

(***************************************************************************)
(* How a call to the provider can go wrong.                                *)
(*   "config"     the payload or the configuration is invalid: no request  *)
(*   "rejected"   the provider answered 4xx: the message was not accepted  *)
(*   "uncertain"  timeout, network error or 5xx: it may have been accepted *)
(***************************************************************************)
SendFault == {"config", "rejected", "uncertain"}

\* A message can have reached the candidate only after an uncertain fault.
MayHaveBeenAccepted(fault) == fault = "uncertain"

(***************************************************************************)
(* The error whatsappClient.sendMessage throws.  Its own error type keeps  *)
(* the HTTP status in .status and never carries the .response of axios.    *)
(***************************************************************************)
WhatsAppDeliveryError(fault) ==
  [requestAttempted |-> IF fault = "config" THEN "false" ELSE "null",
   status           |-> IF fault = "rejected" THEN "4xx" ELSE "other",
   responseStatus   |-> "absent"]

(***************************************************************************)
(* The error services/whatsapp.js lets through: the one axios threw, which *)
(* carries .response and knows nothing of requestAttempted.                *)
(***************************************************************************)
AxiosError(fault) ==
  [requestAttempted |-> "absent",
   status           |-> IF fault = "rejected" THEN "4xx" ELSE "other",
   responseStatus   |-> IF fault = "rejected" THEN "4xx" ELSE "absent"]

\* The automatic service: FAILED only when the message cannot have left.
ProviderFailureState(error) ==
  IF error.requestAttempted = "false" \/ error.responseStatus = "4xx"
    THEN "FAILED"
    ELSE "UNKNOWN"

\* The manual service asks only for a 4xx response.
IsConfirmedProviderRejection(error) == error.responseStatus = "4xx"

=============================================================================
